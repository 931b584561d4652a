----------------------------- MODULE Site_proofs -----------------------------
(***************************************************************************)
(* Proofs about the readers and the host.  A behaviour of SiteSpec         *)
(* exercises one part at most, so each part keeps its own specification;   *)
(* for each an inductive invariant is proved, section by section, and what *)
(* the runs check of them follows for every number of tabs, of readers, of *)
(* requests and of workers (of the thread, its types alone):               *)
(*                                                                         *)
(*   - discussion: one request at most has a comment in hand, and what it  *)
(*     read of it is still so, unless two of them crossed;                 *)
(*   - composer: a piece of text is in the box, on its way or in the table *)
(*     and on one way at most; a call that is the form's own is of what    *)
(*     the form holds;                                                     *)
(*   - push: a delivery carries the number of the row it was made by, a    *)
(*     number is never used again, so nobody tidies up a row in use;       *)
(*   - engagement: a row has a press of its own, and a request that is     *)
(*     alone finds what is stored;                                         *)
(*   - reading: the buckets are written in an order, so each is behind     *)
(*     the one before by those on their way, and a page reports once;      *)
(*   - limits: the last window of a key leaves room for every stretch that *)
(*     reaches over its start;                                             *)
(*   - mail: what a worker remembers was replaced no earlier than it was   *)
(*     read, and what it sends with was read within the cache's life;      *)
(*   - deploy: files, schema and touch follow in this order, and each      *)
(*     exit has a touch of its own;                                        *)
(*   - migrations: the applied ones are the first k, and at most the next  *)
(*     has begun, by the one run that is under way;                        *)
(*   - bundle: each step of a build finds what those before it made, and   *)
(*     what is finished stays shippable in every archive made of it;       *)
(*   - health: what a row could find now is among the verdicts of its      *)
(*     report, and every grade agrees with the verdict on its fact.        *)
(***************************************************************************)
EXTENDS Site, FiniteSetTheorems, TLAPS

---------------------------------------------------------------------------
(* Discussion: comments, their desk and the settings                     *)

\* A request as its fields hold it.
TalkRow(r) ==
    /\ r = [pc |-> r.pc, id |-> r.id, by |-> r.by, parent |-> r.parent, text |-> r.text, as |-> r.as]
    /\ r.pc \in {"decide", "fill", "write", "announce", "announce approval", "approve", "hide", "delete"}
    /\ r.id \in 0..CommentBound /\ r.parent \in 0..CommentBound /\ r.text \in Texts
    /\ r.pc \notin {"decide", "fill", "write"} => r.id # 0
    /\ r.pc \in {"decide", "fill", "write"} => r.by \in Reader
    /\ r.pc = "fill" => r.as \in Modes
    /\ r.pc = "write" => r.as \in {"PENDING", "APPROVED"} /\ (r.as = "APPROVED" => r.text # "spam")

DiscussionTyped ==
    /\ comments \in [CommentId -> CommentRow] /\ notices \subseteq Notice
    /\ stored \in Modes /\ cache \in Modes \cup {"none"} /\ lateFill \in BOOLEAN
    /\ talks \in 0..TalkBound /\ vetted \in [CommentId -> Texts]
    /\ page.id \in 0..CommentBound
    /\ page.id # 0 => page.row \in CommentRow /\ comments[page.id].status # "none"
    /\ \A c \in CommentId : comments[c].status # "none" => comments[c].by \in Reader
    /\ down \subseteq {c \in CommentId : comments[c].status # "none"}
    /\ talk = [l \in CommentLane |-> talk[l]]
    /\ \A l \in CommentLane : talk[l] = NoTalk \/ TalkRow(talk[l])
    /\ \A l \in CommentLane : talk[l].id # 0 => comments[talk[l].id].status # "none"

\* One request at most has the comment in hand, and what it read is still so.
CommentIsRight(c) ==
    /\ \A l \in CommentLane, m \in CommentLane : talk[l].id = c /\ talk[m].id = c => l = m
    /\ \A l \in CommentLane : talk[l].id = c =>
           /\ talk[l].pc \in {"decide", "fill", "write"} => comments[c].status \in {"PENDING", "APPROVED"}
           /\ talk[l].pc = "approve" => talk[l].text = comments[c].text
    /\ c \in down => comments[c].status \in {"HIDDEN", "DELETED"}
    /\ comments[c].status = "APPROVED" /\ comments[c].text = "spam" => vetted[c] = "spam"

\* Comments get their numbers in turn.
WrittenInTurn == \E n \in 0..CommentBound : \A c \in CommentId : comments[c].status # "none" <=> c <= n

DiscussionInv ==
    /\ DiscussionTyped /\ WrittenInTurn /\ SettingsAreCurrent
    /\ \A c \in CommentId \ crossed : CommentIsRight(c)

LEMMA CommentFields ==
    ASSUME NEW r \in CommentRow
    PROVE  /\ r = [status |-> r.status, by |-> r.by, parent |-> r.parent, text |-> r.text]
           /\ r.status \in CommentStatus /\ r.by \in Reader \cup {"nobody"}
           /\ r.parent \in 0..CommentBound /\ r.text \in Texts
BY DEF CommentRow

LEMMA CommentIsMade ==
    ASSUME NEW status \in CommentStatus, NEW by \in Reader \cup {"nobody"}, NEW parent \in 0..CommentBound,
           NEW text \in Texts
    PROVE  [status |-> status, by |-> by, parent |-> parent, text |-> text] \in CommentRow
BY DEF CommentRow

LEMMA TalkIsMade ==
    ASSUME NEW pc, NEW id, NEW by, NEW parent, NEW text, NEW aim, NEW r,
           r = [pc |-> pc, id |-> id, by |-> by, parent |-> parent, text |-> text, as |-> aim]
    PROVE  /\ r.pc = pc /\ r.id = id /\ r.by = by /\ r.parent = parent /\ r.text = text /\ r.as = aim
           /\ r = [pc |-> r.pc, id |-> r.id, by |-> r.by, parent |-> r.parent, text |-> r.text, as |-> r.as]
OBVIOUS

LEMMA TalkSet ==
    ASSUME NEW P, NEW I, NEW B, NEW R, NEW X, NEW S,
           NEW pc \in P, NEW id \in I, NEW by \in B, NEW parent \in R, NEW text \in X, NEW aim \in S
    PROVE  [pc |-> pc, id |-> id, by |-> by, parent |-> parent, text |-> text, as |-> aim] \in
               [pc : P, id : I, by : B, parent : R, text : X, as : S]
OBVIOUS

LEMMA PcChanges ==
    ASSUME NEW t, TalkRow(t), NEW n
    PROVE  [t EXCEPT !.pc = n] =
               [pc |-> n, id |-> t.id, by |-> t.by, parent |-> t.parent, text |-> t.text, as |-> t.as]
<1>1. PICK P, I, B, R, X, S : /\ P = {t.pc, n} /\ I = {t.id} /\ B = {t.by} /\ R = {t.parent} /\ X = {t.text}
                              /\ S = {t.as}
  OBVIOUS
<1>2. t = [pc |-> t.pc, id |-> t.id, by |-> t.by, parent |-> t.parent, text |-> t.text, as |-> t.as]
  BY DEF TalkRow
<1>3. t.pc \in P /\ n \in P /\ t.id \in I /\ t.by \in B /\ t.parent \in R /\ t.text \in X /\ t.as \in S
  BY <1>1
<1>4. t \in [pc : P, id : I, by : B, parent : R, text : X, as : S]
  BY <1>2, <1>3, TalkSet
<1>5. QED
  BY <1>3, <1>4

LEMMA IdChanges ==
    ASSUME NEW t, TalkRow(t), NEW n, NEW id
    PROVE  [t EXCEPT !.pc = n, !.id = id] =
               [pc |-> n, id |-> id, by |-> t.by, parent |-> t.parent, text |-> t.text, as |-> t.as]
<1>1. PICK P, I, B, R, X, S : /\ P = {n} /\ I = {t.id, id} /\ B = {t.by} /\ R = {t.parent} /\ X = {t.text}
                              /\ S = {t.as}
  OBVIOUS
<1>2. PICK u : u = [pc |-> n, id |-> t.id, by |-> t.by, parent |-> t.parent, text |-> t.text, as |-> t.as]
  OBVIOUS
<1>3. n \in P /\ t.id \in I /\ id \in I /\ t.by \in B /\ t.parent \in R /\ t.text \in X /\ t.as \in S
  BY <1>1
<1>4. u \in [pc : P, id : I, by : B, parent : R, text : X, as : S]
  BY <1>2, <1>3, TalkSet
<1>5. [u EXCEPT !.id = id] =
          [pc |-> u.pc, id |-> id, by |-> u.by, parent |-> u.parent, text |-> u.text, as |-> u.as]
  BY <1>3, <1>4
<1>6. u.pc = n /\ u.by = t.by /\ u.parent = t.parent /\ u.text = t.text /\ u.as = t.as
  BY <1>2, TalkIsMade
<1>7. [t EXCEPT !.pc = n] = u
  BY <1>2, PcChanges, Zenon
<1>8. [t EXCEPT !.pc = n, !.id = id] = [u EXCEPT !.id = id]
  BY <1>7, Zenon
<1>9. QED
  BY <1>5, <1>6, <1>8

LEMMA AsChanges ==
    ASSUME NEW t, TalkRow(t), NEW n, NEW aim
    PROVE  [t EXCEPT !.pc = n, !.as = aim] =
               [pc |-> n, id |-> t.id, by |-> t.by, parent |-> t.parent, text |-> t.text, as |-> aim]
<1>1. PICK P, I, B, R, X, S : /\ P = {n} /\ I = {t.id} /\ B = {t.by} /\ R = {t.parent} /\ X = {t.text}
                              /\ S = {t.as, aim}
  OBVIOUS
<1>2. PICK u : u = [pc |-> n, id |-> t.id, by |-> t.by, parent |-> t.parent, text |-> t.text, as |-> t.as]
  OBVIOUS
<1>3. n \in P /\ t.id \in I /\ t.by \in B /\ t.parent \in R /\ t.text \in X /\ t.as \in S /\ aim \in S
  BY <1>1
<1>4. u \in [pc : P, id : I, by : B, parent : R, text : X, as : S]
  BY <1>2, <1>3, TalkSet
<1>5. [u EXCEPT !.as = aim] =
          [pc |-> u.pc, id |-> u.id, by |-> u.by, parent |-> u.parent, text |-> u.text, as |-> aim]
  <2>1. aim \in S
    BY <1>3
  <2>2. QED
    BY <2>1, <1>4
<1>6. u.pc = n /\ u.id = t.id /\ u.by = t.by /\ u.parent = t.parent /\ u.text = t.text
  BY <1>2, TalkIsMade
<1>7. [t EXCEPT !.pc = n] = u
  BY <1>2, PcChanges, Zenon
<1>8. [t EXCEPT !.pc = n, !.as = aim] = [u EXCEPT !.as = aim]
  BY <1>7, Zenon
<1>9. QED
  BY <1>5, <1>6, <1>8

LEMMA NoTalkIsIdle == NoTalk.pc = "idle" /\ NoTalk.id = 0
BY DEF NoTalk

LEMMA LaneChanges ==
    ASSUME talk = [m \in CommentLane |-> talk[m]], NEW l \in CommentLane, NEW r, talk' = [talk EXCEPT ![l] = r]
    PROVE  talk' = [m \in CommentLane |-> talk'[m]]
OBVIOUS

LEMMA DiscussionTypes ==
    ASSUME DiscussionInv
    PROVE  /\ DiscussionTyped
           /\ \A c \in CommentId : comments[c] \in CommentRow /\ c \in Nat /\ c # 0
           /\ 0 \notin CommentId /\ CommentId \subseteq 0..CommentBound
           /\ \A l \in CommentLane : talk[l].id \in 0..CommentBound
           /\ \A l \in CommentLane : talk[l].id # 0 => talk[l].id \in CommentId /\ TalkRow(talk[l])
           /\ \A l \in CommentLane : talk[l].pc # "idle" => TalkRow(talk[l])
           /\ 0..CommentBound = CommentId \cup {0}
<1>1. DiscussionTyped
  BY DEF DiscussionInv
<1>2. \A c \in CommentId : comments[c] \in CommentRow /\ c \in Nat /\ c # 0
  BY <1>1 DEF DiscussionTyped, CommentId
<1>3. 0 \notin CommentId /\ CommentId \subseteq 0..CommentBound /\ 0..CommentBound = CommentId \cup {0}
  BY DiscussionAssumption DEF CommentId
<1>4. \A l \in CommentLane : talk[l] = NoTalk \/ TalkRow(talk[l])
  BY <1>1 DEF DiscussionTyped
<1>5. \A l \in CommentLane : talk[l].pc # "idle" => TalkRow(talk[l])
  BY <1>4, NoTalkIsIdle
<1>6. \A l \in CommentLane : talk[l].id # 0 => TalkRow(talk[l])
  BY <1>4, NoTalkIsIdle
<1>7. \A l \in CommentLane : talk[l].id \in 0..CommentBound
  BY <1>3, <1>6 DEF TalkRow
<1>8. QED
  BY <1>1, <1>2, <1>3, <1>5, <1>6, <1>7

LEMMA DiscussionStart == DiscussionInit => DiscussionInv
<1> SUFFICES ASSUME DiscussionInit
             PROVE  DiscussionInv
  OBVIOUS
<1>1. /\ comments = [c \in CommentId |-> IF c = 1 THEN FirstComment ELSE NoComment] /\ notices = {}
      /\ stored = "new_accounts" /\ cache = "none" /\ page = [id |-> 0]
      /\ talk = [l \in CommentLane |-> NoTalk] /\ talks = 0 /\ down = {}
      /\ vetted = [c \in CommentId |-> "plain"] /\ crossed = {} /\ lateFill = FALSE
  BY DEF DiscussionInit
<1>2. FirstComment \in CommentRow /\ NoComment \in CommentRow
  <2>1. 0 \in 0..CommentBound
    BY DiscussionAssumption
  <2>2. "APPROVED" \in CommentStatus /\ "none" \in CommentStatus /\ "plain" \in Texts
    BY DEF CommentStatus, Texts
  <2>3. QED
    BY <2>1, <2>2, CommentIsMade, DiscussionAssumption DEF FirstComment, NoComment
<1>3. /\ FirstComment.by = FirstReader /\ FirstComment.text = "plain" /\ FirstComment.status = "APPROVED"
      /\ NoComment.status = "none" /\ NoComment.text = "plain"
  BY DEF FirstComment, NoComment
<1>4. /\ comments \in [CommentId -> CommentRow]
      /\ \A c \in CommentId : comments[c].status # "none" => comments[c].by \in Reader
      /\ \A c \in CommentId : comments[c].text = "plain"
  BY <1>1, <1>2, <1>3, DiscussionAssumption
<1>5. vetted \in [CommentId -> Texts] /\ stored \in Modes
  BY <1>1 DEF Texts, Modes
<1>6. page.id = 0 /\ 0 \in 0..CommentBound /\ talks \in 0..TalkBound
  BY <1>1, DiscussionAssumption
<1>7. \A l \in CommentLane : talk[l] = NoTalk
  BY <1>1
<1>8. DiscussionTyped
  <2>1. \A l \in CommentLane : talk[l].id = 0
    BY <1>7, NoTalkIsIdle
  <2>2. down \subseteq {c \in CommentId : comments[c].status # "none"} /\ notices \subseteq Notice
    BY <1>1
  <2>3. cache \in Modes \cup {"none"} /\ lateFill \in BOOLEAN
    BY <1>1
  <2>4. talk = [l \in CommentLane |-> talk[l]]
    BY <1>1
  <2>5. QED
    BY <1>4, <1>5, <1>6, <1>7, <2>1, <2>2, <2>3, <2>4 DEF DiscussionTyped
<1>9. \A c \in CommentId : CommentIsRight(c)
  <2>1. \A l \in CommentLane, c \in CommentId : talk[l].id # c
    BY <1>7, NoTalkIsIdle DEF CommentId
  <2>2. QED
    BY <1>1, <1>4, <2>1 DEF CommentIsRight
<1>10. SettingsAreCurrent
  BY <1>1 DEF SettingsAreCurrent
<1>11. WrittenInTurn
  <2>1. \A c \in CommentId : comments[c].status # "none" <=> c = 1
    BY <1>1, <1>3
  <2>2. 1 \in 0..CommentBound /\ \A c \in CommentId : c = 1 <=> c <= 1
    BY DiscussionAssumption DEF CommentId
  <2>3. QED
    BY <2>1, <2>2 DEF WrittenInTurn
<1>12. QED
  BY <1>8, <1>9, <1>10, <1>11 DEF DiscussionInv

\* A request that begins has its comment to itself, or the comment is noted.
LEMMA BringKeeps ==
    ASSUME DiscussionInv, NEW l \in CommentLane, NEW r, Bring(l, r), TalkRow(r),
           r.id # 0 => comments[r.id].status # "none",
           r.pc \in {"decide", "approve", "hide", "delete"},
           r.pc = "decide" /\ r.id # 0 => comments[r.id].status \in {"PENDING", "APPROVED"},
           r.pc = "approve" => r.id = page.id /\ r.text = page.row.text
    PROVE  DiscussionInv'
<1>1. /\ talk[l] = NoTalk /\ talk' = [talk EXCEPT ![l] = r] /\ talks < TalkBound /\ talks' = talks + 1
      /\ crossed' = crossed \cup {c \in {r.id} : Talked(c) \/ OnOldPage(r)}
      /\ UNCHANGED <<comments, notices, stored, cache, down, vetted, lateFill>>
      /\ page' = page \/ page' = [id |-> 0]
  BY DEF Bring
<1>2. DiscussionTyped
  BY DiscussionTypes
<1>3. \A m \in CommentLane : talk'[m] = talk[m] \/ (m = l /\ talk'[m] = r)
  <2>1. DOMAIN talk = DOMAIN talk
    OBVIOUS
  <2>2. QED
    BY <1>1
<1>5. DiscussionTyped'
  <2>1. talks' \in 0..TalkBound
    BY <1>1, <1>2, DiscussionAssumption DEF DiscussionTyped
  <2>2. page'.id \in 0..CommentBound /\ (page'.id # 0 => page'.row \in CommentRow /\ comments[page'.id].status # "none")
    <3>1. CASE page' = page
      BY <1>2, <3>1 DEF DiscussionTyped
    <3>2. CASE page' = [id |-> 0]
      BY <3>2, DiscussionAssumption
    <3>3. QED
      BY <1>1, <3>1, <3>2
  <2>3. \A m \in CommentLane : talk'[m] = NoTalk \/ TalkRow(talk'[m])
    BY <1>2, <1>3 DEF DiscussionTyped
  <2>4. \A m \in CommentLane : talk'[m].id # 0 => comments[talk'[m].id].status # "none"
    BY <1>2, <1>3 DEF DiscussionTyped
  <2>5. talk' = [m \in CommentLane |-> talk'[m]]
    BY <1>1, <1>2, LaneChanges DEF DiscussionTyped
  <2>6. QED
    BY <1>1, <1>2, <2>1, <2>2, <2>3, <2>4, <2>5 DEF DiscussionTyped
<1>6. ASSUME NEW c \in CommentId \ crossed' PROVE CommentIsRight(c)'
  <2>1. c \notin crossed /\ CommentIsRight(c) /\ c # 0
    BY <1>1, DiscussionTypes DEF DiscussionInv
  <2>2. CASE r.id # c
    <3>1. \A m \in CommentLane : talk'[m].id = c => talk'[m] = talk[m]
      BY <1>3, <2>2
    <3>2. QED
      BY <1>1, <2>1, <3>1 DEF CommentIsRight
  <2>3. CASE r.id = c
    <3>1. ~Talked(c) /\ ~OnOldPage(r)
      BY <1>1, <2>1, <2>3
    <3>2. \A m \in CommentLane : talk[m].id # c
      BY <2>1, <3>1 DEF Talked
    <3>3. \A m \in CommentLane : talk'[m].id = c => m = l /\ talk'[m] = r
      BY <1>3, <3>2
    <3>4. r.pc = "approve" => r.text = comments[c].text
      BY <2>3, <3>1 DEF OnOldPage
    <3>5. r.pc \in {"decide", "fill", "write"} => comments[c].status \in {"PENDING", "APPROVED"}
      BY <2>1, <2>3
    <3>6. QED
      BY <1>1, <2>1, <3>3, <3>4, <3>5 DEF CommentIsRight
  <2>4. QED
    BY <2>2, <2>3
<1>7. SettingsAreCurrent' /\ WrittenInTurn'
  BY <1>1 DEF DiscussionInv, SettingsAreCurrent, WrittenInTurn
<1>8. QED
  BY <1>5, <1>6, <1>7 DEF DiscussionInv

LEMMA RequestRow ==
    ASSUME NEW pc \in {"decide", "approve", "hide", "delete"}, NEW id \in 0..CommentBound, NEW by,
           NEW parent \in 0..CommentBound, NEW text \in Texts,
           pc # "decide" => id # 0, pc = "decide" => by \in Reader
    PROVE  /\ TalkRow(Request(pc, id, by, parent, text))
           /\ Request(pc, id, by, parent, text).pc = pc /\ Request(pc, id, by, parent, text).id = id
           /\ Request(pc, id, by, parent, text).text = text
<1> DEFINE r == Request(pc, id, by, parent, text)
<1>1. /\ r.pc = pc /\ r.id = id /\ r.by = by /\ r.parent = parent /\ r.text = text
      /\ r = [pc |-> r.pc, id |-> r.id, by |-> r.by, parent |-> r.parent, text |-> r.text, as |-> r.as]
  BY TalkIsMade DEF Request
<1> HIDE DEF r
<1>2. TalkRow(r)
  BY <1>1 DEF TalkRow
<1>3. QED
  BY <1>1, <1>2 DEF r

LEMMA PostCommentKeeps ==
    ASSUME DiscussionInv, NEW l \in CommentLane, NEW reader \in Reader, NEW parent \in 0..CommentBound,
           NEW text \in Texts, PostComment(l, reader, parent, text)
    PROVE  DiscussionInv'
<1>1. Bring(l, Request("decide", 0, reader, parent, text))
  BY DEF PostComment
<1>2. 0 \in 0..CommentBound
  BY DiscussionAssumption
<1>3. TalkRow(Request("decide", 0, reader, parent, text))
  BY <1>2, RequestRow
<1>4. /\ Request("decide", 0, reader, parent, text).pc = "decide"
      /\ Request("decide", 0, reader, parent, text).id = 0
  BY <1>2, RequestRow
<1>5. QED
  BY <1>1, <1>3, <1>4, BringKeeps

LEMMA EditCommentKeeps ==
    ASSUME DiscussionInv, NEW l \in CommentLane, NEW c \in CommentId, NEW text \in Texts, EditComment(l, c, text)
    PROVE  DiscussionInv'
<1> DEFINE r == Request("decide", c, comments[c].by, comments[c].parent, text)
<1>1. Bring(l, r) /\ comments[c].status \in {"PENDING", "APPROVED"}
  BY DEF EditComment
<1>2. c \in 0..CommentBound /\ comments[c].parent \in 0..CommentBound /\ comments[c].by \in Reader
  BY <1>1, DiscussionTypes, CommentFields DEF DiscussionTyped
<1>3. TalkRow(r) /\ r.pc = "decide" /\ r.id = c
  BY <1>1, <1>2, RequestRow
<1> HIDE DEF r
<1>4. QED
  BY <1>1, <1>3, BringKeeps

LEMMA DeleteOwnCommentKeeps ==
    ASSUME DiscussionInv, NEW l \in CommentLane, NEW c \in CommentId, DeleteOwnComment(l, c)
    PROVE  DiscussionInv'
<1> DEFINE r == Request("delete", c, comments[c].by, 0, "plain")
<1>1. Bring(l, r) /\ comments[c].status # "none"
  BY DEF DeleteOwnComment
<1>2. c \in 0..CommentBound /\ 0 \in 0..CommentBound /\ c # 0 /\ "plain" \in Texts
  BY DiscussionTypes, DiscussionAssumption DEF Texts
<1>3. TalkRow(r) /\ r.pc = "delete" /\ r.id = c
  BY <1>1, <1>2, RequestRow
<1> HIDE DEF r
<1>4. QED
  BY <1>1, <1>3, BringKeeps

LEMMA ModerateKeeps ==
    ASSUME DiscussionInv, NEW l \in CommentLane, NEW pc \in {"approve", "hide", "delete"}, Moderate(l, pc)
    PROVE  DiscussionInv'
<1> DEFINE r == Request(pc, page.id, page.row.by, 0, page.row.text)
<1>1. Bring(l, r) /\ page.id # 0
  BY DEF Moderate
<1>2. page.id \in 0..CommentBound /\ page.row \in CommentRow /\ comments[page.id].status # "none"
  BY <1>1, DiscussionTypes DEF DiscussionTyped
<1>3. 0 \in 0..CommentBound /\ page.row.text \in Texts
  BY <1>2, CommentFields, DiscussionAssumption
<1>4. TalkRow(r) /\ r.pc = pc /\ r.id = page.id /\ r.text = page.row.text
  BY <1>1, <1>2, <1>3, RequestRow
<1> HIDE DEF r
<1>5. comments[r.id].status # "none"
  BY <1>2, <1>4
<1>6. QED
  BY <1>1, <1>4, <1>5, BringKeeps

LEMMA OpenPageKeeps ==
    ASSUME DiscussionInv, NEW c \in CommentId, OpenPage(c)
    PROVE  DiscussionInv'
<1>1. page' = [id |-> c, row |-> comments[c]] /\ comments[c].status # "none"
  BY DEF OpenPage
<1>2. UNCHANGED <<comments, notices, stored, cache, talk, talks, down, vetted, crossed, lateFill>>
  BY DEF OpenPage
<1>3. page'.id = c /\ page'.row = comments[c] /\ c \in 0..CommentBound /\ comments[c] \in CommentRow
  BY <1>1, DiscussionTypes
<1>4. DiscussionTyped'
  BY <1>1, <1>2, <1>3, DiscussionTypes DEF DiscussionTyped
<1>5. \A d \in CommentId \ crossed' : CommentIsRight(d)'
  BY <1>2 DEF DiscussionInv, CommentIsRight
<1>6. SettingsAreCurrent' /\ WrittenInTurn'
  BY <1>2 DEF DiscussionInv, SettingsAreCurrent, WrittenInTurn
<1>7. QED
  BY <1>4, <1>5, <1>6 DEF DiscussionInv

\* A request goes on, or ends, and nothing it decides about has changed.
LEMMA TalkGoesOn ==
    ASSUME DiscussionInv, NEW l \in CommentLane, talk[l].pc # "idle", NEW r,
           talk' = [talk EXCEPT ![l] = r], UNCHANGED <<page, talks>>,
           r = NoTalk \/ (TalkRow(r) /\ r.id = talk[l].id
                            /\ (r.pc \in {"decide", "fill", "write"} => talk[l].pc \in {"decide", "fill", "write"})
                            /\ (r.pc = "approve" => r.text = talk[l].text /\ talk[l].pc = "approve")),
           UNCHANGED <<comments, down, vetted, crossed>>,
           stored' \in Modes, cache' \in Modes \cup {"none"}, lateFill' \in BOOLEAN, SettingsAreCurrent',
           notices' \subseteq Notice
    PROVE  DiscussionInv'
<1>1. DiscussionTyped
  BY DiscussionTypes
<1>2. \A m \in CommentLane : talk'[m] = talk[m] \/ (m = l /\ talk'[m] = r)
  OBVIOUS
<1>3. \A m \in CommentLane : talk'[m] = NoTalk \/ TalkRow(talk'[m])
  BY <1>1, <1>2 DEF DiscussionTyped
<1>4. \A m \in CommentLane : talk'[m].id # 0 => talk'[m].id = talk[m].id
  BY <1>2, NoTalkIsIdle
<1>5. DiscussionTyped'
  <2>1. \A m \in CommentLane : talk'[m].id # 0 => comments[talk'[m].id].status # "none"
    BY <1>1, <1>4 DEF DiscussionTyped
  <2>2. talk' = [m \in CommentLane |-> talk'[m]]
    BY <1>1, LaneChanges DEF DiscussionTyped
  <2>3. QED
    BY <1>1, <1>3, <2>1, <2>2 DEF DiscussionTyped
<1>6. ASSUME NEW c \in CommentId \ crossed PROVE CommentIsRight(c)'
  <2>1. CommentIsRight(c) /\ c # 0
    BY DiscussionTypes DEF DiscussionInv
  <2>2. \A m \in CommentLane : talk'[m].id = c =>
            /\ talk[m].id = c
            /\ talk'[m].pc \in {"decide", "fill", "write"} => talk[m].pc \in {"decide", "fill", "write"}
            /\ talk'[m].pc = "approve" => talk[m].pc = "approve" /\ talk'[m].text = talk[m].text
    BY <1>2, <2>1, NoTalkIsIdle
  <2>3. QED
    BY <2>1, <2>2 DEF CommentIsRight
<1>7. WrittenInTurn'
  BY DEF DiscussionInv, WrittenInTurn
<1>8. QED
  BY <1>5, <1>6, <1>7 DEF DiscussionInv

LEMMA BusyRow ==
    ASSUME DiscussionInv, NEW l \in CommentLane, talk[l].pc # "idle"
    PROVE  /\ TalkRow(talk[l])
           /\ talk[l] = [pc |-> talk[l].pc, id |-> talk[l].id, by |-> talk[l].by, parent |-> talk[l].parent,
                         text |-> talk[l].text, as |-> talk[l].as]
BY DiscussionTypes DEF TalkRow

LEMMA DecideIsSound ==
    ASSUME NEW mode, NEW r
    PROVE  Decide(mode, r) \in {"PENDING", "APPROVED"} /\ (Decide(mode, r) = "APPROVED" => r.text # "spam")
BY DEF Decide

LEMMA DecidedKeeps ==
    ASSUME DiscussionInv, NEW l \in CommentLane, talk[l].pc \in {"decide", "fill"}, NEW mode, Decided(l, mode),
           TalkOnly, cache' \in Modes \cup {"none"}, lateFill' \in BOOLEAN, SettingsAreCurrent'
    PROVE  DiscussionInv'
<1>1. PICK aim : aim = Decide(mode, talk[l])
  OBVIOUS
<1>2. aim \in {"PENDING", "APPROVED"} /\ (aim = "APPROVED" => talk[l].text # "spam")
  BY <1>1, DecideIsSound
<1>3. TalkRow(talk[l]) /\ talk[l].pc # "idle"
  BY BusyRow
<1>4. PICK r : r = [pc |-> "write", id |-> talk[l].id, by |-> talk[l].by, parent |-> talk[l].parent,
                    text |-> talk[l].text, as |-> aim]
  OBVIOUS
<1>5. talk' = [talk EXCEPT ![l] = r] /\ UNCHANGED <<page, talks>>
  <2>1. talk' = [talk EXCEPT ![l] = [talk[l] EXCEPT !.pc = "write", !.as = aim]] /\ UNCHANGED <<talks, page>>
    BY <1>1 DEF Decided, TalkOn
  <2>2. [talk[l] EXCEPT !.pc = "write", !.as = aim] = r
    <3>1. TalkRow(talk[l])
      BY <1>3
    <3>2. QED
      BY <3>1, <1>4, AsChanges, Zenon
  <2>3. QED
    BY <2>1, <2>2
<1>6. r.pc = "write" /\ r.id = talk[l].id /\ TalkRow(r)
  <2>1. /\ r.pc = "write" /\ r.id = talk[l].id /\ r.by = talk[l].by /\ r.parent = talk[l].parent
        /\ r.text = talk[l].text /\ r.as = aim
        /\ r = [pc |-> r.pc, id |-> r.id, by |-> r.by, parent |-> r.parent, text |-> r.text, as |-> r.as]
    BY <1>4, TalkIsMade
  <2>2. QED
    BY <1>2, <1>3, <2>1 DEF TalkRow
<1>7. /\ UNCHANGED <<comments, down, vetted, crossed>> /\ stored' \in Modes /\ notices' \subseteq Notice
  BY DiscussionTypes DEF TalkOnly, DiscussionTyped
<1>8. QED
  BY <1>3, <1>5, <1>6, <1>7, TalkGoesOn

LEMMA DecideFromCacheKeeps ==
    ASSUME DiscussionInv, NEW l \in CommentLane, DecideFromCache(l)
    PROVE  DiscussionInv'
<1>1. talk[l].pc = "decide" /\ Decided(l, cache) /\ TalkOnly /\ UNCHANGED <<cache, lateFill>>
  BY DEF DecideFromCache, At
<1>2. cache' \in Modes \cup {"none"} /\ lateFill' \in BOOLEAN
  BY <1>1, DiscussionTypes DEF DiscussionTyped
<1>3. SettingsAreCurrent'
  BY <1>1 DEF TalkOnly, DiscussionInv, SettingsAreCurrent
<1>4. QED
  BY <1>1, <1>2, <1>3, DecidedKeeps

LEMMA ReadSettingsKeeps ==
    ASSUME DiscussionInv, NEW l \in CommentLane, ReadSettings(l)
    PROVE  DiscussionInv'
<1>1. talk[l].pc = "decide" /\ TalkOnly /\ UNCHANGED <<cache, lateFill>>
  BY DEF ReadSettings, At
<1>2. TalkRow(talk[l]) /\ talk[l].pc # "idle"
  BY <1>1, BusyRow
<1>3. PICK r : r = [pc |-> "fill", id |-> talk[l].id, by |-> talk[l].by, parent |-> talk[l].parent,
                    text |-> talk[l].text, as |-> stored]
  OBVIOUS
<1>4. talk' = [talk EXCEPT ![l] = r] /\ UNCHANGED <<page, talks>>
  <2>1. talk' = [talk EXCEPT ![l] = [talk[l] EXCEPT !.pc = "fill", !.as = stored]] /\ UNCHANGED <<talks, page>>
    BY DEF ReadSettings, TalkOn
  <2>2. [talk[l] EXCEPT !.pc = "fill", !.as = stored] = r
    BY <1>2, <1>3, AsChanges, Zenon
  <2>3. QED
    BY <2>1, <2>2
<1>5. /\ UNCHANGED <<comments, down, vetted, crossed>> /\ stored' \in Modes /\ notices' \subseteq Notice
      /\ stored \in Modes /\ cache' \in Modes \cup {"none"} /\ lateFill' \in BOOLEAN
  BY <1>1, DiscussionTypes DEF TalkOnly, DiscussionTyped
<1>6. r.pc = "fill" /\ r.id = talk[l].id /\ TalkRow(r)
  <2>1. /\ r.pc = "fill" /\ r.id = talk[l].id /\ r.by = talk[l].by /\ r.parent = talk[l].parent
        /\ r.text = talk[l].text /\ r.as = stored
        /\ r = [pc |-> r.pc, id |-> r.id, by |-> r.by, parent |-> r.parent, text |-> r.text, as |-> r.as]
    BY <1>3, TalkIsMade
  <2>2. QED
    BY <1>1, <1>2, <1>5, <2>1 DEF TalkRow
<1>7. SettingsAreCurrent'
  BY <1>1 DEF TalkOnly, DiscussionInv, SettingsAreCurrent
<1>8. QED
  BY <1>1, <1>2, <1>4, <1>5, <1>6, <1>7, TalkGoesOn

LEMMA FillCacheKeeps ==
    ASSUME DiscussionInv, NEW l \in CommentLane, FillCache(l)
    PROVE  DiscussionInv'
<1>1. talk[l].pc = "fill" /\ Decided(l, talk[l].as) /\ TalkOnly /\ cache' = talk[l].as
  BY DEF FillCache, At
<1>2. lateFill' = (stored # talk[l].as)
  BY DEF FillCache
<1>3. cache' \in Modes
  BY <1>1, BusyRow DEF TalkRow
<1>4. lateFill' \in BOOLEAN
  BY <1>2
<1>5. SettingsAreCurrent'
  BY <1>1, <1>2 DEF TalkOnly, SettingsAreCurrent
<1>6. QED
  BY <1>1, <1>3, <1>4, <1>5, DecidedKeeps

LEMMA NotifyKeeps ==
    ASSUME DiscussionInv, NEW c \in CommentId, NEW user \in Reader, NEW type \in {"COMMENT_REPLY", "COMMENT_APPROVED"}
    PROVE  Notify(user, type, c) \subseteq Notice
<1>1. notices \subseteq Notice
  BY DiscussionTypes DEF DiscussionTyped
<1>2. [user |-> user, type |-> type, comment |-> c] \in Notice
  BY DEF Notice
<1>3. QED
  BY <1>1, <1>2 DEF Notify

LEMMA AnnounceReplyKeeps ==
    ASSUME DiscussionInv, NEW l \in CommentLane, AnnounceReply(l)
    PROVE  DiscussionInv'
<1>1. /\ talk[l].pc = "announce" /\ notices' = ReplyNotice(talk[l].id)
      /\ UNCHANGED <<comments, stored, cache, down, vetted, crossed, lateFill>>
  BY DEF AnnounceReply, At
<1>2. talk' = [talk EXCEPT ![l] = NoTalk] /\ UNCHANGED <<page, talks>>
  BY DEF AnnounceReply, TalkDone, TalkOn
<1>3. talk[l].id \in CommentId /\ talk[l].pc # "idle"
  BY <1>1, BusyRow, DiscussionTypes DEF TalkRow
<1>4. DiscussionTyped
  BY DiscussionTypes
<1>5. notices' \subseteq Notice
  <2> DEFINE c == talk[l].id
             p == comments[c].parent
  <2>1. c \in CommentId /\ p \in 0..CommentBound /\ notices \subseteq Notice
    BY <1>3, <1>4, DiscussionTypes, CommentFields DEF DiscussionTyped
  <2>2. notices' = notices \/ (p # 0 /\ comments[p].status = "APPROVED"
                                 /\ notices' = Notify(comments[p].by, "COMMENT_REPLY", c))
    BY <1>1 DEF ReplyNotice
  <2>3. p # 0 /\ comments[p].status = "APPROVED" => p \in CommentId /\ comments[p].by \in Reader
    BY <1>4, <2>1, DiscussionTypes DEF DiscussionTyped
  <2> HIDE DEF c, p
  <2>4. QED
    BY <2>1, <2>2, <2>3, NotifyKeeps
<1>6. /\ stored' \in Modes /\ cache' \in Modes \cup {"none"} /\ lateFill' \in BOOLEAN
  BY <1>1, <1>4 DEF DiscussionTyped
<1>7. SettingsAreCurrent'
  BY <1>1 DEF DiscussionInv, SettingsAreCurrent
<1>8. QED
  BY <1>1, <1>2, <1>3, <1>5, <1>6, <1>7, TalkGoesOn

LEMMA AnnounceApprovalKeeps ==
    ASSUME DiscussionInv, NEW l \in CommentLane, AnnounceApproval(l)
    PROVE  DiscussionInv'
<1>1. /\ talk[l].pc = "announce approval"
      /\ UNCHANGED <<comments, stored, cache, down, vetted, crossed, lateFill>>
  BY DEF AnnounceApproval, At
<1>2. TalkRow(talk[l]) /\ talk[l].id \in CommentId /\ talk[l].pc # "idle"
  BY <1>1, BusyRow, DiscussionTypes DEF TalkRow
<1>3. PICK r : r = [pc |-> "announce", id |-> talk[l].id, by |-> talk[l].by, parent |-> talk[l].parent,
                    text |-> talk[l].text, as |-> talk[l].as]
  OBVIOUS
<1>4. talk' = [talk EXCEPT ![l] = r] /\ UNCHANGED <<page, talks>>
  <2>1. talk' = [talk EXCEPT ![l] = [talk[l] EXCEPT !.pc = "announce"]] /\ UNCHANGED <<talks, page>>
    BY DEF AnnounceApproval, TalkOn
  <2>2. [talk[l] EXCEPT !.pc = "announce"] = r
    BY <1>2, <1>3, PcChanges, Zenon
  <2>3. QED
    BY <2>1, <2>2
<1>5. r.pc = "announce" /\ r.id = talk[l].id /\ TalkRow(r)
  <2>1. /\ r.pc = "announce" /\ r.id = talk[l].id /\ r.by = talk[l].by /\ r.parent = talk[l].parent
        /\ r.text = talk[l].text /\ r.as = talk[l].as
        /\ r = [pc |-> r.pc, id |-> r.id, by |-> r.by, parent |-> r.parent, text |-> r.text, as |-> r.as]
    BY <1>3, TalkIsMade
  <2>2. talk[l].id # 0
    BY <1>2, DiscussionTypes
  <2>3. QED
    BY <1>2, <2>1, <2>2 DEF TalkRow
<1>6. DiscussionTyped
  BY DiscussionTypes
<1>7. notices' \subseteq Notice
  <2> DEFINE c == talk[l].id
  <2>1. notices' = IF comments[c].status = "APPROVED" THEN Notify(comments[c].by, "COMMENT_APPROVED", c) ELSE notices
    BY DEF AnnounceApproval
  <2>2. c \in CommentId /\ notices \subseteq Notice
    BY <1>2, <1>6 DEF DiscussionTyped
  <2>3. comments[c].status = "APPROVED" => comments[c].by \in Reader
    BY <1>6, <2>2 DEF DiscussionTyped
  <2> HIDE DEF c
  <2>4. QED
    BY <2>1, <2>2, <2>3, NotifyKeeps
<1>8. /\ stored' \in Modes /\ cache' \in Modes \cup {"none"} /\ lateFill' \in BOOLEAN
  BY <1>1, <1>6 DEF DiscussionTyped
<1>9. SettingsAreCurrent'
  BY <1>1 DEF DiscussionInv, SettingsAreCurrent
<1>10. QED
  BY <1>1, <1>2, <1>4, <1>5, <1>7, <1>8, <1>9, TalkGoesOn

\* A request writes the comment it has in hand, or the next one there is.
LEMMA RowIsWritten ==
    ASSUME DiscussionInv, NEW l \in CommentLane, talk[l].pc # "idle", NEW c \in CommentId,
           NEW v \in CommentRow, v.status # "none", v.by \in Reader, comments' = [comments EXCEPT ![c] = v],
           NEW r, talk' = [talk EXCEPT ![l] = r],
           r = NoTalk \/ (TalkRow(r) /\ r.id = c /\ r.pc \notin {"decide", "fill", "write", "approve"}),
           UNCHANGED <<page, talks, stored, cache, lateFill, crossed, notices>>,
           down' \subseteq down \cup {c}, vetted' \in [CommentId -> Texts],
           \A d \in CommentId : d # c => vetted'[d] = vetted[d],
           \/ talk[l].id = c
           \/ comments[c].status = "none" /\ \A j \in 1..(c - 1) : comments[j].status # "none",
           c \notin crossed => /\ c \in down' => v.status \in {"HIDDEN", "DELETED"}
                               /\ v.status = "APPROVED" /\ v.text = "spam" => vetted'[c] = "spam"
    PROVE  DiscussionInv'
<1>1. DiscussionTyped
  BY DiscussionTypes
<1>2. \A m \in CommentLane : talk'[m] = talk[m] \/ (m = l /\ talk'[m] = r)
  OBVIOUS
<1>3. /\ comments'[c] = v /\ comments' \in [CommentId -> CommentRow]
      /\ \A d \in CommentId : d # c => comments'[d] = comments[d]
  BY <1>1 DEF DiscussionTyped
<1>4. \A d \in CommentId : comments[d].status # "none" => comments'[d].status # "none"
  BY <1>3
<1>5. DiscussionTyped'
  <2>1. \A m \in CommentLane : talk'[m] = NoTalk \/ TalkRow(talk'[m])
    BY <1>1, <1>2 DEF DiscussionTyped
  <2>2. \A m \in CommentLane : talk'[m].id # 0 => talk'[m].id \in CommentId /\ comments'[talk'[m].id].status # "none"
    <3>1. ASSUME NEW m \in CommentLane, talk'[m].id # 0
          PROVE  talk'[m].id \in CommentId /\ comments'[talk'[m].id].status # "none"
      <4>1. CASE talk'[m] = talk[m]
        <5>1. talk[m].id # 0 /\ talk'[m].id = talk[m].id
          BY <3>1, <4>1
        <5>2. talk[m].id \in CommentId /\ comments[talk[m].id].status # "none"
          BY <1>1, <5>1, DiscussionTypes DEF DiscussionTyped
        <5>3. QED
          BY <1>4, <5>1, <5>2
      <4>2. CASE talk'[m] = r
        <5>1. talk'[m].id = c
          BY <3>1, <4>2, NoTalkIsIdle
        <5>2. QED
          BY <1>3, <5>1
      <4>3. QED
        BY <1>2, <4>1, <4>2
    <3>2. QED
      BY <3>1
  <2>3. \A d \in CommentId : comments'[d].status # "none" => comments'[d].by \in Reader
    BY <1>1, <1>3 DEF DiscussionTyped
  <2>4. down' \subseteq {d \in CommentId : comments'[d].status # "none"}
    BY <1>1, <1>3, <1>4 DEF DiscussionTyped
  <2>5. page.id # 0 => page.id \in CommentId /\ page.row \in CommentRow /\ comments'[page.id].status # "none"
    BY <1>1, <1>4, DiscussionTypes DEF DiscussionTyped
  <2>6. talk' = [m \in CommentLane |-> talk'[m]]
    BY <1>1, LaneChanges DEF DiscussionTyped
  <2>7. QED
    BY <1>1, <1>3, <2>1, <2>2, <2>3, <2>4, <2>5, <2>6 DEF DiscussionTyped
<1>6. ASSUME NEW d \in CommentId \ crossed PROVE CommentIsRight(d)'
  <2>1. CommentIsRight(d) /\ d # 0
    BY DiscussionTypes DEF DiscussionInv
  <2>2. CASE d # c
    <3>1. \A m \in CommentLane : talk'[m].id = d => talk'[m] = talk[m]
      BY <1>2, <2>1, <2>2, NoTalkIsIdle
    <3>2. d \in down' => d \in down
      BY <2>2
    <3>3. QED
      BY <1>3, <2>1, <2>2, <3>1, <3>2 DEF CommentIsRight
  <2>3. CASE d = c
    <3>1. \A m \in CommentLane : m # l => talk[m].id # c
      <4>1. CASE talk[l].id = c
        BY <2>1, <2>3, <4>1 DEF CommentIsRight
      <4>2. CASE comments[c].status = "none"
        BY <1>1, <2>1, <2>3, <4>2 DEF DiscussionTyped
      <4>3. QED
        BY <4>1, <4>2
    <3>2. \A m \in CommentLane : talk'[m].id = c => m = l /\ talk'[m] = r /\ r # NoTalk
      <4>1. ASSUME NEW m \in CommentLane, talk'[m].id = c
            PROVE  m = l /\ talk'[m] = r /\ r # NoTalk
        <5>1. m = l
          BY <1>2, <3>1, <4>1
        <5>2. talk'[l] = r
          BY <1>1, <5>1 DEF DiscussionTyped
        <5>3. r # NoTalk
          BY <2>1, <2>3, <4>1, <5>1, <5>2, NoTalkIsIdle
        <5>4. QED
          BY <5>1, <5>2, <5>3
      <4>2. QED
        BY <4>1
    <3>3. \A m \in CommentLane : talk'[m].id = c => talk'[m].pc \notin {"decide", "fill", "write", "approve"}
      BY <3>2
    <3>4. QED
      BY <1>3, <2>3, <3>2, <3>3 DEF CommentIsRight
  <2>4. QED
    BY <2>2, <2>3
<1>7. WrittenInTurn'
  <2>1. PICK n \in 0..CommentBound : \A d \in CommentId : comments[d].status # "none" <=> d <= n
    BY DEF DiscussionInv, WrittenInTurn
  <2>2. CASE comments[c].status # "none"
    <3>1. \A d \in CommentId : comments'[d].status # "none" <=> d <= n
      BY <1>3, <2>1, <2>2
    <3>2. QED
      BY <3>1 DEF WrittenInTurn
  <2>3. CASE comments[c].status = "none"
    <3>1. talk[l].id # c
      BY <1>1, <2>3, DiscussionTypes DEF DiscussionTyped
    <3>2. \A j \in 1..(c - 1) : j \in CommentId /\ comments[j].status # "none"
      BY <3>1, DiscussionAssumption DEF CommentId
    <3>3. c = n + 1
      <4>1. n \in Nat /\ c \in Nat /\ c >= 1 /\ c <= CommentBound /\ CommentBound \in Nat
        BY DiscussionAssumption DEF CommentId
      <4>2. ~(c <= n)
        BY <2>1, <2>3
      <4>3. ASSUME n + 1 < c PROVE FALSE
        <5>1. n + 1 \in 1..(c - 1)
          BY <4>1, <4>3
        <5>2. n + 1 <= n
          BY <2>1, <3>2, <5>1
        <5>3. QED
          BY <4>1, <5>2
      <4>4. QED
        BY <4>1, <4>2, <4>3
    <3>4. \A d \in CommentId : d <= c <=> d = c \/ d <= n
      BY <3>3, DiscussionAssumption DEF CommentId
    <3>5. \A d \in CommentId : comments'[d].status # "none" <=> d <= c
      BY <1>3, <2>1, <3>4
    <3>6. c \in 0..CommentBound
      BY DiscussionTypes
    <3>7. QED
      BY <3>5, <3>6 DEF WrittenInTurn
  <2>4. QED
    BY <2>2, <2>3
<1>8. SettingsAreCurrent'
  BY DEF DiscussionInv, SettingsAreCurrent
<1>9. QED
  BY <1>5, <1>6, <1>7, <1>8 DEF DiscussionInv

\* There is a next one as long as the last is unwritten.
LEMMA NextComment ==
    ASSUME DiscussionInv, comments[CommentBound].status = "none"
    PROVE  \E k \in CommentId : comments[k].status = "none" /\ \A j \in 1..(k - 1) : comments[j].status # "none"
<1>1. PICK n \in 0..CommentBound : \A d \in CommentId : comments[d].status # "none" <=> d <= n
  BY DEF DiscussionInv, WrittenInTurn
<1>2. CommentBound \in CommentId /\ n \in Nat /\ CommentBound \in Nat /\ n <= CommentBound
  BY DiscussionAssumption DEF CommentId
<1>3. n < CommentBound
  BY <1>1, <1>2
<1>4. n + 1 \in CommentId /\ ~(n + 1 <= n) /\ \A j \in 1..(n + 1 - 1) : j \in CommentId /\ j <= n
  BY <1>2, <1>3 DEF CommentId
<1>5. QED
  BY <1>1, <1>4

LEMMA WriteCommentKeeps ==
    ASSUME DiscussionInv, NEW l \in CommentLane, WriteComment(l)
    PROVE  DiscussionInv'
<1>1. talk[l].pc = "write" /\ UNCHANGED <<notices, stored, cache, down, vetted, crossed, lateFill>>
  BY DEF WriteComment, At
<1>2. TalkRow(talk[l]) /\ talk[l].pc # "idle" /\ DiscussionTyped
  BY <1>1, BusyRow, DiscussionTypes
<1>3. PICK c : c = IF talk[l].id # 0 THEN talk[l].id ELSE
                       CHOOSE k \in CommentId : comments[k].status = "none"
                                                /\ \A j \in 1..(k - 1) : comments[j].status # "none"
  OBVIOUS
<1>4. /\ comments[CommentBound].status = "none" \/ talk[l].id # 0
      /\ comments' = [comments EXCEPT ![c] = [status |-> talk[l].as, by |-> talk[l].by, parent |-> talk[l].parent,
                                             text |-> talk[l].text]]
      /\ IF talk[l].as = "APPROVED" /\ talk[l].parent # 0
         THEN TalkOn(l, [talk[l] EXCEPT !.pc = "announce", !.id = c]) ELSE TalkDone(l)
  BY <1>3 DEF WriteComment
<1>5. /\ c \in CommentId
      /\ \/ talk[l].id = c
         \/ comments[c].status = "none" /\ \A j \in 1..(c - 1) : comments[j].status # "none"
  <2>1. CASE talk[l].id # 0
    BY <1>3, <2>1, DiscussionTypes
  <2>2. CASE talk[l].id = 0
    BY <1>3, <1>4, <2>2, NextComment
  <2>3. QED
    BY <2>1, <2>2
<1>6. PICK v : v = [status |-> talk[l].as, by |-> talk[l].by, parent |-> talk[l].parent, text |-> talk[l].text]
  OBVIOUS
<1>7. /\ v.status = talk[l].as /\ v.by = talk[l].by /\ v.text = talk[l].text
      /\ talk[l].as \in {"PENDING", "APPROVED"} /\ talk[l].by \in Reader
      /\ (talk[l].as = "APPROVED" => talk[l].text # "spam")
  BY <1>1, <1>2, <1>6 DEF TalkRow
<1>8. v \in CommentRow
  <2>1. talk[l].as \in CommentStatus
    BY <1>7 DEF CommentStatus
  <2>2. talk[l].parent \in 0..CommentBound /\ talk[l].text \in Texts
    BY <1>2 DEF TalkRow
  <2>3. QED
    BY <1>6, <1>7, <2>1, <2>2, CommentIsMade
<1>9. UNCHANGED <<page, talks>> /\ \E r : /\ talk' = [talk EXCEPT ![l] = r]
                                          /\ r = NoTalk \/ (TalkRow(r) /\ r.id = c /\ r.pc = "announce")
  <2>1. CASE talk[l].as = "APPROVED" /\ talk[l].parent # 0
    <3>1. PICK r : r = [pc |-> "announce", id |-> c, by |-> talk[l].by, parent |-> talk[l].parent,
                        text |-> talk[l].text, as |-> talk[l].as]
      OBVIOUS
    <3>2. [talk[l] EXCEPT !.pc = "announce", !.id = c] = r
      BY <1>2, <3>1, IdChanges, Zenon
    <3>3. talk' = [talk EXCEPT ![l] = r] /\ UNCHANGED <<page, talks>>
      BY <1>4, <2>1, <3>2 DEF TalkOn
    <3>4. r.pc = "announce" /\ r.id = c /\ TalkRow(r)
      <4>1. /\ r.pc = "announce" /\ r.id = c /\ r.by = talk[l].by /\ r.parent = talk[l].parent
            /\ r.text = talk[l].text /\ r.as = talk[l].as
            /\ r = [pc |-> r.pc, id |-> r.id, by |-> r.by, parent |-> r.parent, text |-> r.text, as |-> r.as]
        BY <3>1, TalkIsMade
      <4>2. c # 0 /\ c \in 0..CommentBound
        BY <1>5, DiscussionTypes
      <4>3. QED
        BY <1>2, <4>1, <4>2 DEF TalkRow
    <3>5. QED
      BY <3>3, <3>4
  <2>2. CASE ~(talk[l].as = "APPROVED" /\ talk[l].parent # 0)
    BY <1>4, <2>2 DEF TalkDone, TalkOn
  <2>3. QED
    BY <2>1, <2>2
<1>10. PICK r : /\ talk' = [talk EXCEPT ![l] = r]
                /\ r = NoTalk \/ (TalkRow(r) /\ r.id = c /\ r.pc = "announce")
  BY <1>9
<1>11. comments' = [comments EXCEPT ![c] = v]
  BY <1>4, <1>6
<1>12. c \notin crossed /\ c \in down => v.status \in {"HIDDEN", "DELETED"}
  <2>1. SUFFICES ASSUME c \notin crossed, c \in down
                 PROVE  FALSE
    OBVIOUS
  <2>2. CommentIsRight(c) /\ comments[c].status # "none"
    BY <1>2, <1>5, <2>1 DEF DiscussionInv, DiscussionTyped
  <2>3. comments[c].status \in {"PENDING", "APPROVED"} /\ comments[c].status \in {"HIDDEN", "DELETED"}
    BY <1>1, <1>5, <2>1, <2>2 DEF CommentIsRight
  <2>4. QED
    BY <2>3
<1>13. vetted' \in [CommentId -> Texts] /\ down' \subseteq down \cup {c}
  BY <1>1, <1>2 DEF DiscussionTyped
<1>14. v.status # "none" /\ v.by \in Reader /\ ~(v.status = "APPROVED" /\ v.text = "spam")
  BY <1>7
<1>15. r = NoTalk \/ (TalkRow(r) /\ r.id = c /\ r.pc \notin {"decide", "fill", "write", "approve"})
  BY <1>10
<1>16. \A d \in CommentId : d # c => vetted'[d] = vetted[d]
  BY <1>1
<1>17. UNCHANGED <<page, talks, stored, cache, lateFill, crossed, notices>> /\ down' = down
  BY <1>1, <1>9
<1>18. QED
  BY <1>2, <1>5, <1>8, <1>10, <1>11, <1>12, <1>13, <1>14, <1>15, <1>16, <1>17, RowIsWritten

\* The row with another status.
LEMMA StatusChanges ==
    ASSUME DiscussionInv, NEW c \in CommentId, NEW status \in CommentStatus,
           comments' = [comments EXCEPT ![c].status = status]
    PROVE  \E v \in CommentRow : /\ comments' = [comments EXCEPT ![c] = v] /\ v.status = status
                                 /\ v.by = comments[c].by /\ v.text = comments[c].text
<1>1. comments[c] \in CommentRow
  BY DiscussionTypes
<1>2. PICK v : v = [status |-> status, by |-> comments[c].by, parent |-> comments[c].parent,
                    text |-> comments[c].text]
  OBVIOUS
<1>3. [comments[c] EXCEPT !.status = status] = v
  BY <1>1, <1>2, CommentFields
<1>4. comments' = [comments EXCEPT ![c] = v]
  BY <1>3
<1>5. v \in CommentRow
  BY <1>1, <1>2, CommentFields, CommentIsMade
<1>6. v.status = status /\ v.by = comments[c].by /\ v.text = comments[c].text
  BY <1>2
<1>7. QED
  BY <1>4, <1>5, <1>6

LEMMA TakeDownNowKeeps ==
    ASSUME DiscussionInv, NEW l \in CommentLane, TakeDownNow(l)
    PROVE  DiscussionInv'
<1>0. PICK c : c = talk[l].id
  OBVIOUS
<1>1. PICK pc \in {"delete", "hide"}, status \in {"DELETED", "HIDDEN"} : talk[l].pc = pc /\ TakeDown(c, status)
  BY <1>0 DEF TakeDownNow, At
<1>2. /\ talk' = [talk EXCEPT ![l] = NoTalk]
      /\ UNCHANGED <<page, talks, notices, stored, cache, vetted, crossed, lateFill>>
  BY DEF TakeDownNow, TalkDone, TalkOn
<1>3. c \in CommentId /\ talk[l].pc # "idle" /\ DiscussionTyped /\ comments[c].status # "none"
  <2>1. TalkRow(talk[l]) /\ talk[l].pc # "idle"
    BY <1>1, BusyRow
  <2>2. c # 0
    BY <1>0, <1>1, <2>1 DEF TalkRow
  <2>3. QED
    BY <1>0, <2>1, <2>2, DiscussionTypes DEF DiscussionTyped
<1>4. comments' = [comments EXCEPT ![c].status = status] /\ down' = down \cup {c}
  BY <1>1 DEF TakeDown
<1>5. PICK v \in CommentRow : /\ comments' = [comments EXCEPT ![c] = v] /\ v.status = status
                              /\ v.by = comments[c].by
  <2>1. status \in CommentStatus
    BY DEF CommentStatus
  <2>2. \E v \in CommentRow : /\ comments' = [comments EXCEPT ![c] = v] /\ v.status = status
                              /\ v.by = comments[c].by /\ v.text = comments[c].text
    BY <1>3, <1>4, <2>1, StatusChanges, Zenon
  <2>3. QED
    BY <2>2
<1>6. v.status \in {"HIDDEN", "DELETED"} /\ v.status # "none" /\ v.by \in Reader /\ v.status # "APPROVED"
  BY <1>3, <1>5 DEF DiscussionTyped
<1>7. vetted' \in [CommentId -> Texts] /\ \A d \in CommentId : d # c => vetted'[d] = vetted[d]
  BY <1>2, <1>3 DEF DiscussionTyped
<1>8. talk[l].id = c
  BY <1>0
<1>9. QED
  BY <1>2, <1>3, <1>4, <1>5, <1>6, <1>7, <1>8, RowIsWritten

LEMMA ApproveNowKeeps ==
    ASSUME DiscussionInv, NEW l \in CommentLane, ApproveNow(l)
    PROVE  DiscussionInv'
<1>1. PICK c : c = talk[l].id
  OBVIOUS
<1>2. /\ talk[l].pc = "approve" /\ comments' = [comments EXCEPT ![c].status = "APPROVED"]
      /\ down' = down \ {c} /\ vetted' = [vetted EXCEPT ![c] = talk[l].text]
      /\ UNCHANGED <<notices, stored, cache, crossed, lateFill>>
  BY <1>1 DEF ApproveNow, At
<1>3. TalkRow(talk[l]) /\ talk[l].pc # "idle" /\ DiscussionTyped
  BY <1>2, BusyRow, DiscussionTypes
<1>4. c # 0 /\ c \in CommentId /\ comments[c].status # "none" /\ c \in 0..CommentBound
  <2>1. c # 0
    BY <1>1, <1>2, <1>3 DEF TalkRow
  <2>2. QED
    BY <1>1, <1>3, <2>1, DiscussionTypes DEF DiscussionTyped
<1>5. PICK v \in CommentRow : /\ comments' = [comments EXCEPT ![c] = v] /\ v.status = "APPROVED"
                              /\ v.by = comments[c].by /\ v.text = comments[c].text
  <2>1. "APPROVED" \in CommentStatus
    BY DEF CommentStatus
  <2>2. QED
    BY <1>2, <1>4, <2>1, StatusChanges
<1>6. PICK r : r = [pc |-> "announce approval", id |-> talk[l].id, by |-> talk[l].by, parent |-> talk[l].parent,
                    text |-> talk[l].text, as |-> talk[l].as]
  OBVIOUS
<1>7. talk' = [talk EXCEPT ![l] = r] /\ UNCHANGED <<page, talks>>
  <2>1. talk' = [talk EXCEPT ![l] = [talk[l] EXCEPT !.pc = "announce approval"]] /\ UNCHANGED <<talks, page>>
    BY DEF ApproveNow, TalkOn
  <2>2. [talk[l] EXCEPT !.pc = "announce approval"] = r
    BY <1>3, <1>6, PcChanges, Zenon
  <2>3. QED
    BY <2>1, <2>2
<1>8. r.pc = "announce approval" /\ r.id = c /\ TalkRow(r)
  <2>1. /\ r.pc = "announce approval" /\ r.id = talk[l].id /\ r.by = talk[l].by /\ r.parent = talk[l].parent
        /\ r.text = talk[l].text /\ r.as = talk[l].as
        /\ r = [pc |-> r.pc, id |-> r.id, by |-> r.by, parent |-> r.parent, text |-> r.text, as |-> r.as]
    BY <1>6, TalkIsMade
  <2>2. QED
    BY <1>1, <1>3, <1>4, <2>1 DEF TalkRow
<1>9. talk[l].text \in Texts
  BY <1>3 DEF TalkRow
<1>10. /\ vetted' \in [CommentId -> Texts] /\ vetted'[c] = talk[l].text
       /\ \A d \in CommentId : d # c => vetted'[d] = vetted[d]
  BY <1>2, <1>3, <1>4, <1>9 DEF DiscussionTyped
<1>11. c \notin crossed => v.text = talk[l].text
  BY <1>1, <1>2, <1>4, <1>5 DEF DiscussionInv, CommentIsRight
<1>12. v.status # "none" /\ v.by \in Reader
  BY <1>3, <1>4, <1>5 DEF DiscussionTyped
<1>13. c \notin down' /\ down' \subseteq down \cup {c}
  BY <1>2
<1>14. r = NoTalk \/ (TalkRow(r) /\ r.id = c /\ r.pc \notin {"decide", "fill", "write", "approve"})
  BY <1>8
<1>15. UNCHANGED <<page, talks, stored, cache, lateFill, crossed, notices>>
  BY <1>2, <1>7
<1>16. c \notin crossed => /\ c \in down' => v.status \in {"HIDDEN", "DELETED"}
                           /\ v.status = "APPROVED" /\ v.text = "spam" => vetted'[c] = "spam"
  BY <1>10, <1>11, <1>13
<1>17. QED
  BY <1>1, <1>3, <1>4, <1>5, <1>7, <1>10, <1>12, <1>13, <1>14, <1>15, <1>16, RowIsWritten

LEMMA SettingsKeep ==
    ASSUME DiscussionInv, (\E mode \in Modes : SaveSettings(mode)) \/ ForgetSettings
    PROVE  DiscussionInv'
<1>1. UNCHANGED <<comments, notices, page, talk, down, vetted, crossed>>
  BY DEF SaveSettings, ForgetSettings, SettingsOnly
<1>2. stored' \in Modes /\ cache' \in Modes \cup {"none"} /\ SettingsAreCurrent'
  <2>1. ASSUME NEW mode \in Modes, SaveSettings(mode)
        PROVE  stored' \in Modes /\ cache' \in Modes \cup {"none"} /\ SettingsAreCurrent'
    BY <2>1 DEF SaveSettings, SettingsAreCurrent
  <2>2. ASSUME ForgetSettings
        PROVE  stored' \in Modes /\ cache' \in Modes \cup {"none"} /\ SettingsAreCurrent'
    BY <2>2, DiscussionTypes DEF ForgetSettings, SettingsAreCurrent, DiscussionTyped
  <2>3. QED
    BY <2>1, <2>2
<1>3. lateFill' \in BOOLEAN
  BY DEF SaveSettings, ForgetSettings
<1>4. talks' \in 0..TalkBound
  BY DiscussionTypes, DiscussionAssumption DEF SaveSettings, Saved, ForgetSettings, DiscussionTyped
<1>5. DiscussionTyped'
  BY <1>1, <1>2, <1>3, <1>4, DiscussionTypes DEF DiscussionTyped
<1>6. WrittenInTurn' /\ \A c \in CommentId \ crossed' : CommentIsRight(c)'
  BY <1>1 DEF DiscussionInv, WrittenInTurn, CommentIsRight
<1>7. QED
  BY <1>2, <1>5, <1>6 DEF DiscussionInv

LEMMA TalkStepKeeps ==
    ASSUME DiscussionInv, NEW l \in CommentLane, TalkStep(l)
    PROVE  DiscussionInv'
BY DecideFromCacheKeeps, ReadSettingsKeeps, FillCacheKeeps, WriteCommentKeeps, AnnounceReplyKeeps,
   AnnounceApprovalKeeps, TakeDownNowKeeps, ApproveNowKeeps DEF TalkStep

LEMMA DiscussionStep == DiscussionInv /\ [DiscussionNext]_commentVars => DiscussionInv'
<1> SUFFICES ASSUME DiscussionInv, [DiscussionNext]_commentVars
             PROVE  DiscussionInv'
  OBVIOUS
<1>1. CASE UNCHANGED commentVars
  BY <1>1 DEF commentVars, DiscussionInv, DiscussionTyped, WrittenInTurn, SettingsAreCurrent, CommentIsRight
<1>2. ASSUME NEW l \in CommentLane, NEW reader \in Reader, NEW parent \in 0..CommentBound, NEW text \in Texts,
             PostComment(l, reader, parent, text)
      PROVE  DiscussionInv'
  BY <1>2, PostCommentKeeps
<1>3. ASSUME NEW l \in CommentLane, NEW c \in CommentId,
             (\E text \in Texts : EditComment(l, c, text)) \/ DeleteOwnComment(l, c)
      PROVE  DiscussionInv'
  BY <1>3, EditCommentKeeps, DeleteOwnCommentKeeps
<1>4. ASSUME NEW l \in CommentLane, (\E pc \in {"approve", "hide", "delete"} : Moderate(l, pc)) \/ TalkStep(l)
      PROVE  DiscussionInv'
  BY <1>4, ModerateKeeps, TalkStepKeeps
<1>5. CASE \E c \in CommentId : OpenPage(c)
  BY <1>5, OpenPageKeeps
<1>6. CASE (\E mode \in Modes : SaveSettings(mode)) \/ ForgetSettings
  BY <1>6, SettingsKeep
<1>7. QED
  BY <1>1, <1>2, <1>3, <1>4, <1>5, <1>6 DEF DiscussionNext

LEMMA DiscussionInvImplies ==
    DiscussionInv => DiscussionTypeOK /\ TakenDownStaysDown /\ PublicTextWasVetted /\ SettingsAreCurrent
<1> SUFFICES ASSUME DiscussionInv
             PROVE  DiscussionTypeOK /\ TakenDownStaysDown /\ PublicTextWasVetted /\ SettingsAreCurrent
  OBVIOUS
<1>1. DiscussionTyped /\ SettingsAreCurrent /\ \A c \in CommentId \ crossed : CommentIsRight(c)
  BY DEF DiscussionInv
<1>2. DiscussionTypeOK
  BY <1>1 DEF DiscussionTyped, DiscussionTypeOK
<1>3. TakenDownStaysDown
  BY <1>1 DEF DiscussionTyped, TakenDownStaysDown, CommentIsRight
<1>4. PublicTextWasVetted
  BY <1>1 DEF PublicTextWasVetted, CommentIsRight
<1>5. QED
  BY <1>1, <1>2, <1>3, <1>4

LEMMA DiscussionInvariance == DiscussionSpec => []DiscussionInv
  BY DiscussionStart, DiscussionStep, PTL DEF DiscussionSpec

\* components/comments/actions.ts, dashboard/comments/actions.ts and
\* lib/settings.ts: a comment that no two requests raced for stays down once it
\* was taken down and shows no text that was not vetted, and what is remembered
\* of the settings is what was saved, but for a fill that came late.
THEOREM CommentsStand == DiscussionSpec => [](TakenDownStaysDown /\ PublicTextWasVetted /\ SettingsAreCurrent)
  BY DiscussionInvariance, DiscussionInvImplies, PTL

LEMMA DiscussionTypesStay == DiscussionSpec => []DiscussionTypeOK
  BY DiscussionInvariance, DiscussionInvImplies, PTL

---------------------------------------------------------------------------
(* Thread: the rows of a conversation                                    *)

PostRow == [status : {"none", "PENDING", "APPROVED", "HIDDEN", "DELETED"}, parent : Post \cup {0}]

LEMMA ThreadTypesStay == ThreadSpec => []ThreadTypeOK
<1>1. ThreadTypeOK <=> posts \in [Post -> PostRow]
  BY DEF ThreadTypeOK, PostRow
<1>2. ThreadInit => posts \in [Post -> PostRow]
  <2>1. Unwritten \in PostRow
    BY DEF Unwritten, PostRow
  <2>2. QED
    BY <2>1 DEF ThreadInit
<1>3. posts \in [Post -> PostRow] /\ [ThreadNext]_threadVars => posts' \in [Post -> PostRow]
  <2> SUFFICES ASSUME posts \in [Post -> PostRow], [ThreadNext]_threadVars
               PROVE  posts' \in [Post -> PostRow]
    OBVIOUS
  <2>1. CASE UNCHANGED threadVars
    BY <2>1 DEF threadVars
  <2>2. ASSUME NEW c \in Post, NEW parent \in Post \cup {0}, WritePost(c, parent)
        PROVE  posts' \in [Post -> PostRow]
    <3>1. PICK status \in {"PENDING", "APPROVED"} : posts' = [posts EXCEPT ![c] = [status |-> status, parent |-> parent]]
      BY <2>2 DEF WritePost
    <3>2. PICK post : post = [status |-> status, parent |-> parent]
      OBVIOUS
    <3>3. post \in PostRow
      BY <3>2 DEF PostRow
    <3>4. QED
      BY <3>1, <3>2, <3>3
  <2>3. ASSUME NEW c \in Post, NEW status \in {"PENDING", "APPROVED", "HIDDEN", "DELETED"}, SettlePost(c, status)
        PROVE  posts' \in [Post -> PostRow]
    <3>1. PICK post : post = [posts[c] EXCEPT !.status = status]
      OBVIOUS
    <3>2. posts[c] \in PostRow
      OBVIOUS
    <3>3. post \in PostRow
      BY <3>1, <3>2 DEF PostRow
    <3>4. posts' = [posts EXCEPT ![c] = post]
      BY <2>3, <3>1 DEF SettlePost
    <3>5. QED
      BY <3>3, <3>4
  <2>4. QED
    BY <2>1, <2>2, <2>3 DEF ThreadNext
<1>4. ThreadInit => ThreadTypeOK
  BY <1>1, <1>2
<1>5. ThreadTypeOK /\ [ThreadNext]_threadVars => ThreadTypeOK'
  BY <1>3 DEF ThreadTypeOK, PostRow
<1>6. QED
  BY <1>4, <1>5, PTL DEF ThreadSpec

---------------------------------------------------------------------------
(* Composer: the boxes comments are written in                           *)

ComposerTyped == ComposerTypeOK /\ hasty \in BOOLEAN

\* What is on its way is in the box it came from; once that box is closed, what
\* is in the next one was discarded should an earlier answer close it.
CallsAreSound ==
    /\ \A c \in calls :
           /\ c.words # {}
           /\ c.at \in {"sent", "refused"} => \A w \in c.words : posted[w] = 0
           /\ c.at \in {"APPROVED", "PENDING"} => \A w \in c.words : posted[w] > 0
           /\ c.mine => /\ box.pending /\ c.words \subseteq box.words
                        /\ box.words \subseteq c.words \cup gone
                        /\ \A w \in box.words \ c.words : posted[w] = 0
           /\ ~c.mine => c.words \cap box.words = {} /\ box.words \subseteq gone
    /\ \A c \in calls, d \in calls : c # d => c.words \cap d.words = {} /\ ~(c.mine /\ d.mine)

BoxIsSound ==
    /\ box.words \subseteq 1..typed /\ \A c \in calls : c.words \subseteq 1..typed
    /\ ~box.pending => \A w \in box.words : posted[w] = 0
    /\ ~box.open => box.words = {} /\ ~box.pending
    /\ \A w \in Word : (w > typed => posted[w] = 0) /\ posted[w] <= 1
    /\ writing # "edit" => \A w \in 1..typed : posted[w] > 0 \/ w \in box.words \cup gone

EditIsSound ==
    /\ edit.at # "none" => edit.pending
    /\ ~hasty /\ edit.pending => edit.open /\ edit.draft = edit.sent
    /\ ~hasty /\ edit.at = "ok" => comment.text = edit.sent
    /\ ~hasty /\ ~edit.open /\ ~edit.pending => edit.draft = comment.text

ComposerInv == ComposerTyped /\ CallsAreSound /\ BoxIsSound /\ EditIsSound

LEMMA ComposerStart == ComposerInit => ComposerInv
<1> SUFFICES ASSUME ComposerInit
             PROVE  ComposerInv
  OBVIOUS
<1> USE ComposerAssumption
<1>1. /\ writing \in {"comment", "reply", "edit"} /\ calls = {} /\ posted = [w \in Word |-> 0] /\ gone = {} /\ typed = 0
      /\ hasty = FALSE /\ comment = [text |-> 0, shown |-> 0]
      /\ edit = [open |-> FALSE, draft |-> 0, pending |-> FALSE, sent |-> 0, at |-> "none"]
  BY DEF ComposerInit
<1>2. PICK o \in BOOLEAN : box = [open |-> o, words |-> {}, pending |-> FALSE]
  <2>1. box = EmptyBox(writing = "comment")
    BY DEF ComposerInit
  <2>2. CASE writing = "comment"
    BY <2>1, <2>2 DEF EmptyBox
  <2>3. CASE writing # "comment"
    BY <2>1, <2>3 DEF EmptyBox
  <2>4. QED
    BY <2>2, <2>3
<1>3. ComposerTyped
  <2>1. 0 \in 0..WordBound /\ posted \in [Word -> Nat]
    BY <1>1
  <2>2. box \in [open : BOOLEAN, words : SUBSET Word, pending : BOOLEAN]
    BY <1>2
  <2>3. comment \in [text : 0..WordBound, shown : 0..WordBound]
    BY <1>1, <2>1
  <2>4. edit \in [open : BOOLEAN, draft : 0..WordBound, pending : BOOLEAN, sent : 0..WordBound,
                  at : {"none", "sent", "ok", "refused"}]
    BY <1>1, <2>1
  <2>5. hasty \in BOOLEAN
    BY <1>1
  <2>6. QED
    BY <1>1, <2>1, <2>2, <2>3, <2>4, <2>5 DEF ComposerTyped, ComposerTypeOK
<1>4. CallsAreSound
  BY <1>1 DEF CallsAreSound
<1>5. BoxIsSound
  BY <1>1, <1>2 DEF BoxIsSound, Word
<1>6. EditIsSound
  BY <1>1 DEF EditIsSound
<1>7. QED
  BY <1>3, <1>4, <1>5, <1>6 DEF ComposerInv

LEMMA BoxFields ==
    ASSUME NEW W, NEW b \in [open : BOOLEAN, words : W, pending : BOOLEAN]
    PROVE  /\ b = [open |-> b.open, words |-> b.words, pending |-> b.pending]
           /\ b.open \in BOOLEAN /\ b.words \in W /\ b.pending \in BOOLEAN
  OBVIOUS

LEMMA CallFields ==
    ASSUME NEW c \in Call
    PROVE  /\ c = [words |-> c.words, at |-> c.at, mine |-> c.mine]
           /\ c.words \subseteq Word /\ c.at \in {"sent", "APPROVED", "PENDING", "refused"} /\ c.mine \in BOOLEAN
BY DEF Call

\* The editor's box stands still where comments are written, and the other way
\* round.
LEMMA EditStands ==
    ASSUME ComposerInv, UNCHANGED editVars
    PROVE  /\ EditIsSound' /\ hasty' \in BOOLEAN /\ (comment \in [text : 0..WordBound, shown : 0..WordBound])'
           /\ (edit \in [open : BOOLEAN, draft : 0..WordBound, pending : BOOLEAN, sent : 0..WordBound,
                        at : {"none", "sent", "ok", "refused"}])'
BY DEF ComposerInv, ComposerTyped, ComposerTypeOK, EditIsSound, editVars

LEMMA PostingKeeps ==
    ASSUME ComposerInv, Posting, typed' \in 0..WordBound, calls' \subseteq Call, posted' \in [Word -> Nat],
           gone' \subseteq Word, NEW o \in BOOLEAN, NEW p \in BOOLEAN, NEW W \in SUBSET Word,
           box' = [open |-> o, words |-> W, pending |-> p],
           CallsAreSound', BoxIsSound'
    PROVE  ComposerInv'
<1>1. EditIsSound' /\ hasty' \in BOOLEAN /\ UNCHANGED writing /\ writing \in {"comment", "reply", "edit"}
  BY EditStands DEF Posting, ComposerInv, ComposerTyped, ComposerTypeOK
<1>2. ComposerTypeOK'
  BY <1>1, EditStands DEF Posting, ComposerTypeOK
<1>3. QED
  BY <1>1, <1>2 DEF ComposerInv, ComposerTyped

\* Words are numbered as they are typed.
LEMMA TypesOfBox ==
    ASSUME ComposerInv
    PROVE  /\ typed \in Nat /\ typed <= WordBound /\ calls \subseteq Call /\ gone \subseteq Word
           /\ \A w \in Word : posted[w] \in Nat /\ w \in Nat
           /\ posted \in [Word -> Nat] /\ box.open \in BOOLEAN /\ box.pending \in BOOLEAN /\ box.words \subseteq Word
           /\ box = [open |-> box.open, words |-> box.words, pending |-> box.pending]
           /\ CallsAreSound /\ BoxIsSound
<1>1. ComposerTypeOK /\ CallsAreSound /\ BoxIsSound
  BY DEF ComposerInv, ComposerTyped
<1>2. box \in [open : BOOLEAN, words : SUBSET Word, pending : BOOLEAN]
  BY <1>1 DEF ComposerTypeOK
<1>3. box.open \in BOOLEAN /\ box.pending \in BOOLEAN /\ box.words \subseteq Word
  BY <1>2
<1>4. box = [open |-> box.open, words |-> box.words, pending |-> box.pending]
  BY <1>2
<1>5. typed \in 0..WordBound /\ calls \subseteq Call /\ gone \subseteq Word /\ posted \in [Word -> Nat]
  BY <1>1 DEF ComposerTypeOK
<1>6. \A w \in Word : posted[w] \in Nat /\ w \in Nat
  BY <1>5 DEF Word
<1>7. QED
  BY <1>1, <1>3, <1>4, <1>5, <1>6, ComposerAssumption

LEMMA OpenReplyKeeps == ComposerInv /\ OpenReply => ComposerInv'
<1> SUFFICES ASSUME ComposerInv, OpenReply
             PROVE  ComposerInv'
  OBVIOUS
<1>1. Posting /\ ~box.open /\ UNCHANGED <<typed, calls, posted, gone, writing>>
  BY DEF OpenReply, Posting
<1>2. box' = [open |-> TRUE, words |-> {}, pending |-> FALSE]
  BY DEF OpenReply, EmptyBox
<1>3. box.words = {} /\ ~box.pending
  BY <1>1, TypesOfBox DEF BoxIsSound
<1>4. CallsAreSound'
  BY <1>1, <1>2, <1>3, TypesOfBox DEF CallsAreSound
<1>5. BoxIsSound'
  BY <1>1, <1>2, <1>3, TypesOfBox DEF BoxIsSound
<1>6. typed' \in 0..WordBound /\ calls' \subseteq Call /\ posted' \in [Word -> Nat] /\ gone' \subseteq Word
  BY <1>1, TypesOfBox, ComposerAssumption
<1>7. QED
  BY <1>1, <1>2, <1>4, <1>5, <1>6, PostingKeeps

LEMMA TypeWordsKeeps == ComposerInv /\ TypeWords => ComposerInv'
<1> SUFFICES ASSUME ComposerInv, TypeWords
             PROVE  ComposerInv'
  OBVIOUS
<1>1. Posting /\ box.open /\ typed' = typed + 1 /\ typed < WordBound /\ UNCHANGED <<calls, posted, writing>>
  BY DEF TypeWords, Typing, Posting
<1>2. PICK n \in Nat : n = typed'
  BY <1>1, TypesOfBox
<1>3. n = typed + 1 /\ n \in Word /\ n \notin 1..typed /\ 1..n = (1..typed) \cup {n}
  BY <1>1, <1>2, TypesOfBox, ComposerAssumption DEF Word
<1>4. box' = [open |-> box.open, words |-> box.words \cup {n}, pending |-> box.pending]
  <2>1. box' = [box EXCEPT !.words = box.words \cup {n}]
    BY <1>2 DEF TypeWords
  <2>2. QED
    BY <2>1, TypesOfBox
<1>5. gone \subseteq gone' /\ gone' \subseteq Word /\ (calls # {} => n \in gone')
  <2>1. gone' = IF calls = {} THEN gone ELSE gone \cup {n}
    BY <1>2 DEF TypeWords
  <2>2. QED
    BY <2>1, <1>3, TypesOfBox
<1>6. posted[n] = 0 /\ n \notin box.words /\ \A c \in calls : n \notin c.words
  BY <1>1, <1>3, TypesOfBox DEF BoxIsSound
<1>7. box'.words = box.words \cup {n} /\ box'.pending = box.pending /\ box'.open = box.open
  BY <1>4
<1>8. CallsAreSound'
  <2>1. \A c \in calls :
           /\ c.words # {}
           /\ c.at \in {"sent", "refused"} => \A w \in c.words : posted[w] = 0
           /\ c.at \in {"APPROVED", "PENDING"} => \A w \in c.words : posted[w] > 0
    BY TypesOfBox DEF CallsAreSound
  <2>2. ASSUME NEW c \in calls, c.mine
        PROVE  /\ box'.pending /\ c.words \subseteq box'.words
               /\ box'.words \subseteq c.words \cup gone'
               /\ \A w \in box'.words \ c.words : posted[w] = 0
    BY <1>5, <1>6, <1>7, <2>2, TypesOfBox DEF CallsAreSound
  <2>3. ASSUME NEW c \in calls, ~c.mine
        PROVE  c.words \cap box'.words = {} /\ box'.words \subseteq gone'
    BY <1>5, <1>6, <1>7, <2>3, TypesOfBox DEF CallsAreSound
  <2>4. \A c \in calls, d \in calls : c # d => c.words \cap d.words = {} /\ ~(c.mine /\ d.mine)
    BY TypesOfBox DEF CallsAreSound
  <2>5. QED
    BY <1>1, <2>1, <2>2, <2>3, <2>4 DEF CallsAreSound
<1>9. BoxIsSound'
  <2>1. box'.words \subseteq 1..n /\ \A c \in calls : c.words \subseteq 1..n
    BY <1>3, <1>7, TypesOfBox DEF BoxIsSound
  <2>2. /\ ~box'.pending => \A w \in box'.words : posted[w] = 0
        /\ ~box'.open => box'.words = {} /\ ~box'.pending
    BY <1>1, <1>6, <1>7, TypesOfBox DEF BoxIsSound
  <2>3. \A w \in Word : (w > n => posted[w] = 0) /\ posted[w] <= 1
    BY <1>3, TypesOfBox DEF BoxIsSound
  <2>4. writing # "edit" => \A w \in 1..n : posted[w] > 0 \/ w \in box'.words \cup gone'
    BY <1>3, <1>5, <1>7, TypesOfBox DEF BoxIsSound
  <2>5. QED
    BY <1>1, <1>2, <2>1, <2>2, <2>3, <2>4 DEF BoxIsSound
<1>10. typed' \in 0..WordBound /\ calls' \subseteq Call /\ posted' \in [Word -> Nat] /\ box.words \cup {n} \subseteq Word
  BY <1>1, <1>3, TypesOfBox, ComposerAssumption
<1>11. QED
  BY <1>1, <1>4, <1>5, <1>8, <1>9, <1>10, TypesOfBox, PostingKeeps

\* What the invariant says of one call.
CallIsSound(c) ==
    /\ c.words # {} /\ c.words \subseteq 1..typed
    /\ c.at \in {"sent", "refused"} => \A w \in c.words : posted[w] = 0
    /\ c.at \in {"APPROVED", "PENDING"} => \A w \in c.words : posted[w] > 0
    /\ c.mine => /\ box.pending /\ c.words \subseteq box.words
                 /\ box.words \subseteq c.words \cup gone
                 /\ \A w \in box.words \ c.words : posted[w] = 0
    /\ ~c.mine => c.words \cap box.words = {} /\ box.words \subseteq gone

LEMMA EachIsSound ==
    ASSUME ComposerInv
    PROVE  /\ \A c \in calls : CallIsSound(c)
           /\ \A c \in calls, d \in calls : c # d => c.words \cap d.words = {} /\ ~(c.mine /\ d.mine)
<1>1. CallsAreSound /\ BoxIsSound
  BY TypesOfBox
<1>2. \A c \in calls : CallIsSound(c)
  BY <1>1 DEF CallsAreSound, BoxIsSound, CallIsSound
<1>3. QED
  BY <1>1, <1>2 DEF CallsAreSound

LEMMA SubmitWordsKeeps == ComposerInv /\ SubmitWords => ComposerInv'
<1> SUFFICES ASSUME ComposerInv, SubmitWords
             PROVE  ComposerInv'
  OBVIOUS
<1>16. PICK k : k = [words |-> box.words, at |-> "sent", mine |-> TRUE]
  OBVIOUS
<1>1. Posting /\ box.open /\ ~box.pending /\ box.words # {} /\ UNCHANGED <<typed, posted, gone, writing>>
  BY DEF SubmitWords, Posting
<1>2. calls' = calls \cup {k}
  BY <1>16 DEF SubmitWords
<1>3. box' = [open |-> box.open, words |-> box.words, pending |-> TRUE]
  <2>1. box' = [box EXCEPT !.pending = TRUE]
    BY DEF SubmitWords
  <2>2. QED
    BY <2>1, TypesOfBox
<1>4. box'.words = box.words /\ box'.pending = TRUE /\ box'.open = box.open
  BY <1>3
<1>5. k.words = box.words /\ k.at = "sent" /\ k.mine = TRUE
  BY <1>16
<1>6. k \in Call
  BY <1>16, TypesOfBox DEF Call
<1>7. \A c \in calls : ~c.mine
  BY <1>1, EachIsSound DEF CallIsSound
<1>8. \A w \in box.words : posted[w] = 0
  BY <1>1, TypesOfBox DEF BoxIsSound
<1>9. \A c \in calls' : CallIsSound(c)'
  <2>1. ASSUME NEW c \in calls PROVE CallIsSound(c)'
    BY <1>1, <1>4, <1>7, EachIsSound DEF CallIsSound
  <2>2. CallIsSound(k)'
    <3>1. box.words \subseteq 1..typed
      BY TypesOfBox DEF BoxIsSound
    <3>2. QED
      BY <1>1, <1>4, <1>5, <1>8, <3>1 DEF CallIsSound
  <2>3. QED
    BY <1>2, <2>1, <2>2
<1>10. \A c \in calls : c.words \cap k.words = {}
  BY <1>5, <1>7, EachIsSound DEF CallIsSound
<1>11. \A c \in calls', d \in calls' : c # d => c.words \cap d.words = {} /\ ~(c.mine /\ d.mine)
  BY <1>2, <1>7, <1>10, EachIsSound
<1>12. CallsAreSound' /\ \A c \in calls' : c.words \subseteq 1..typed'
  BY <1>9, <1>11 DEF CallIsSound, CallsAreSound
<1>13. BoxIsSound'
  BY <1>1, <1>4, <1>12, TypesOfBox DEF BoxIsSound
<1>14. typed' \in 0..WordBound /\ calls' \subseteq Call /\ posted' \in [Word -> Nat] /\ gone' \subseteq Word
  BY <1>1, <1>2, <1>6, TypesOfBox, ComposerAssumption
<1>15. QED
  BY <1>1, <1>3, <1>12, <1>13, <1>14, TypesOfBox, PostingKeeps

LEMMA ServePostKeeps ==
    ASSUME ComposerInv, NEW c \in calls, ServePost(c)
    PROVE  ComposerInv'
<1>1. Posting /\ c.at = "sent" /\ UNCHANGED <<typed, box, gone, writing>>
  BY DEF ServePost, Posting
<1>2. PICK at \in {"APPROVED", "PENDING", "refused"} :
          /\ calls' = (calls \ {c}) \cup {[c EXCEPT !.at = at]}
          /\ posted' = IF at = "refused" THEN posted
                       ELSE [w \in Word |-> posted[w] + (IF w \in c.words THEN 1 ELSE 0)]
  BY DEF ServePost
<1> DEFINE k == [c EXCEPT !.at = at]
<1>3. c \in Call
  BY TypesOfBox
<1>4. k = [words |-> c.words, at |-> at, mine |-> c.mine] /\ k \in Call
  BY <1>3 DEF Call
<1>5. k.words = c.words /\ k.at = at /\ k.mine = c.mine
  BY <1>4
<1>6. calls' = (calls \ {c}) \cup {k}
  BY <1>2
<1> HIDE DEF k
<1>7. CallIsSound(c) /\ c.words \subseteq Word
  BY <1>3, EachIsSound, CallFields
<1>8. \A w \in c.words : posted[w] = 0
  BY <1>1, <1>7 DEF CallIsSound
<1>9. PICK up \in BOOLEAN : up <=> at # "refused"
  OBVIOUS
<1>10. /\ posted' \in [Word -> Nat]
       /\ \A w \in Word : posted'[w] = IF up /\ w \in c.words THEN posted[w] + 1 ELSE posted[w]
  <2>1. CASE at = "refused"
    BY <1>2, <1>9, <2>1, TypesOfBox
  <2>2. CASE at # "refused"
    <3>1. posted' = [w \in Word |-> posted[w] + (IF w \in c.words THEN 1 ELSE 0)]
      BY <1>2, <2>2
    <3>2. \A w \in Word : posted'[w] = IF w \in c.words THEN posted[w] + 1 ELSE posted[w]
      BY <3>1, TypesOfBox
    <3>3. posted' \in [Word -> Nat]
      BY <3>1, TypesOfBox
    <3>4. QED
      BY <1>9, <2>2, <3>2, <3>3
  <2>3. QED
    BY <2>1, <2>2
<1>11. /\ \A w \in c.words : posted'[w] = IF up THEN 1 ELSE 0
       /\ \A w \in Word : w \notin c.words => posted'[w] = posted[w]
       /\ \A w \in Word : posted[w] > 0 => posted'[w] > 0
  BY <1>7, <1>8, <1>10, TypesOfBox
<1>12. \A d \in calls \ {c} : d.words \cap c.words = {} /\ d.words \subseteq Word
  BY EachIsSound, TypesOfBox, CallFields
<1>13. \A d \in calls' : CallIsSound(d)'
  <2>1. ASSUME NEW d \in calls \ {c} PROVE CallIsSound(d)'
    <3>1. CallIsSound(d) /\ \A w \in d.words : posted'[w] = posted[w]
      BY <1>11, <1>12, EachIsSound
    <3>2. d.mine => ~c.mine
      BY EachIsSound
    <3>3. d.mine => \A w \in box.words : posted'[w] = posted[w]
      BY <1>7, <1>11, <3>2, TypesOfBox DEF CallIsSound
    <3>4. /\ d.words # {} /\ d.words \subseteq 1..typed
          /\ d.at \in {"sent", "refused"} => \A w \in d.words : posted'[w] = 0
          /\ d.at \in {"APPROVED", "PENDING"} => \A w \in d.words : posted'[w] > 0
      BY <3>1 DEF CallIsSound
    <3>5. d.mine => /\ box.pending /\ d.words \subseteq box.words
                    /\ box.words \subseteq d.words \cup gone
                    /\ \A w \in box.words \ d.words : posted'[w] = 0
      BY <3>1, <3>3 DEF CallIsSound
    <3>6. ~d.mine => d.words \cap box.words = {} /\ box.words \subseteq gone
      BY <3>1 DEF CallIsSound
    <3>7. QED
      BY <1>1, <3>4, <3>5, <3>6 DEF CallIsSound
  <2>2. CallIsSound(k)'
    <3>1. k.words # {} /\ k.words \subseteq 1..typed
      BY <1>5, <1>7 DEF CallIsSound
    <3>2. k.at \in {"sent", "refused"} => \A w \in k.words : posted'[w] = 0
      BY <1>5, <1>9, <1>11
    <3>3. k.at \in {"APPROVED", "PENDING"} => \A w \in k.words : posted'[w] > 0
      BY <1>5, <1>9, <1>11
    <3>4. k.mine => /\ box.pending /\ k.words \subseteq box.words
                    /\ box.words \subseteq k.words \cup gone
      BY <1>5, <1>7 DEF CallIsSound
    <3>5. k.mine => \A w \in box.words \ k.words : posted'[w] = 0
      BY <1>5, <1>7, <1>11, TypesOfBox DEF CallIsSound
    <3>6. ~k.mine => k.words \cap box.words = {} /\ box.words \subseteq gone
      BY <1>5, <1>7 DEF CallIsSound
    <3>7. QED
      BY <1>1, <3>1, <3>2, <3>3, <3>4, <3>5, <3>6 DEF CallIsSound
  <2>3. QED
    BY <1>6, <2>1, <2>2
<1>14. \A d \in calls \ {c} : d.words \cap k.words = {} /\ ~(d.mine /\ k.mine)
  BY <1>5, EachIsSound
<1>15. \A d \in calls', e \in calls' : d # e => d.words \cap e.words = {} /\ ~(d.mine /\ e.mine)
  BY <1>6, <1>14, EachIsSound
<1>16. CallsAreSound' /\ \A d \in calls' : d.words \subseteq 1..typed'
  BY <1>13, <1>15 DEF CallIsSound, CallsAreSound
<1>17. BoxIsSound'
  <2>1. ~box.pending => \A w \in box.words : posted'[w] = 0
    BY <1>7, <1>11, TypesOfBox DEF BoxIsSound, CallIsSound
  <2>2. \A w \in Word : posted'[w] <= 1
    BY <1>7, <1>11, TypesOfBox DEF BoxIsSound
  <2>3. \A w \in Word : w > typed => posted'[w] = 0
    <3>1. \A w \in c.words : w <= typed
      BY <1>7, TypesOfBox DEF CallIsSound
    <3>2. QED
      BY <1>11, <3>1, TypesOfBox DEF BoxIsSound
  <2>4. writing # "edit" => \A w \in 1..typed : posted'[w] > 0 \/ w \in box.words \cup gone
    <3>1. \A w \in 1..typed : w \in Word
      BY TypesOfBox, ComposerAssumption DEF Word
    <3>2. QED
      BY <1>11, <3>1, TypesOfBox DEF BoxIsSound
  <2>5. QED
    BY <1>1, <1>16, <2>1, <2>2, <2>3, <2>4, TypesOfBox DEF BoxIsSound
<1>18. typed' \in 0..WordBound /\ calls' \subseteq Call /\ gone' \subseteq Word
  BY <1>1, <1>4, <1>6, TypesOfBox, ComposerAssumption
<1>19. box' = [open |-> box.open, words |-> box.words, pending |-> box.pending]
  BY <1>1, TypesOfBox
<1>20. QED
  BY <1>1, <1>10, <1>16, <1>17, <1>18, <1>19, TypesOfBox, PostingKeeps

\* A call that was answered, or lost, leaves the others as they are.
LEMMA CallGoes ==
    ASSUME ComposerInv, Posting, NEW c \in calls, calls' = calls \ {c},
           UNCHANGED <<typed, posted, gone, writing, box>>
    PROVE  ComposerInv'
<1>1. CallsAreSound'
  BY TypesOfBox DEF CallsAreSound
<1>2. BoxIsSound'
  BY TypesOfBox DEF BoxIsSound
<1>3. typed' \in 0..WordBound /\ calls' \subseteq Call /\ posted' \in [Word -> Nat] /\ gone' \subseteq Word
  BY TypesOfBox, ComposerAssumption
<1>4. box' = [open |-> box.open, words |-> box.words, pending |-> box.pending]
  BY TypesOfBox
<1>5. QED
  BY <1>1, <1>2, <1>3, <1>4, TypesOfBox, PostingKeeps

\* The form is closed with what is in it: that is posted, or discarded, and the
\* calls that are left are nobody's.
LEMMA BoxCloses ==
    ASSUME ComposerInv, Posting, NEW D \in SUBSET calls, calls' = {[d EXCEPT !.mine = FALSE] : d \in D},
           box' = [open |-> FALSE, words |-> {}, pending |-> FALSE], gone \subseteq gone', gone' \subseteq Word,
           UNCHANGED <<typed, posted, writing>>, \A w \in box.words : posted[w] > 0 \/ w \in gone'
    PROVE  ComposerInv'
<1>1. ASSUME NEW d \in D
      PROVE  /\ [d EXCEPT !.mine = FALSE] \in Call /\ [d EXCEPT !.mine = FALSE].words = d.words
             /\ [d EXCEPT !.mine = FALSE].at = d.at /\ [d EXCEPT !.mine = FALSE].mine = FALSE
             /\ CallIsSound(d) /\ d \in Call
  <2>1. d \in Call /\ CallIsSound(d)
    BY TypesOfBox, EachIsSound
  <2>2. [d EXCEPT !.mine = FALSE] = [words |-> d.words, at |-> d.at, mine |-> FALSE]
    <3>1. PICK m \in BOOLEAN : m = FALSE
      OBVIOUS
    <3>2. [d EXCEPT !.mine = m] = [words |-> d.words, at |-> d.at, mine |-> m]
      BY <2>1 DEF Call
    <3>3. QED
      BY <3>1, <3>2
  <2>3. QED
    BY <2>1, <2>2, CallFields DEF Call
<1>2. \A e \in calls' : \E d \in D : /\ e = [d EXCEPT !.mine = FALSE] /\ e \in Call
                                     /\ e.words = d.words /\ e.at = d.at /\ e.mine = FALSE /\ CallIsSound(d)
  BY <1>1
<1>3. box'.words = {} /\ ~box'.open /\ ~box'.pending
  OBVIOUS
<1>4. \A e \in calls' : CallIsSound(e)'
  <2>1. ASSUME NEW e \in calls' PROVE CallIsSound(e)'
    <3>1. PICK d \in D : e.words = d.words /\ e.at = d.at /\ e.mine = FALSE /\ CallIsSound(d)
      BY <1>2
    <3>2. QED
      BY <1>3, <3>1 DEF CallIsSound
  <2>2. QED
    BY <2>1
<1>5. ASSUME NEW e \in calls', NEW f \in calls', e # f
      PROVE  e.words \cap f.words = {} /\ ~(e.mine /\ f.mine)
  <2>1. PICK d \in D : e = [d EXCEPT !.mine = FALSE] /\ e.words = d.words /\ e.mine = FALSE
    BY <1>2
  <2>2. PICK g \in D : f = [g EXCEPT !.mine = FALSE] /\ f.words = g.words
    BY <1>2
  <2>3. d # g
    BY <1>5, <2>1, <2>2
  <2>4. d.words \cap g.words = {}
    BY <2>3, EachIsSound
  <2>5. QED
    BY <2>1, <2>2, <2>4
<1>6. CallsAreSound' /\ \A e \in calls' : e.words \subseteq 1..typed'
  BY <1>4, <1>5 DEF CallIsSound, CallsAreSound
<1>7. BoxIsSound'
  <2>1. writing # "edit" => \A w \in 1..typed : posted[w] > 0 \/ w \in gone'
    BY TypesOfBox DEF BoxIsSound
  <2>2. \A w \in Word : (w > typed => posted[w] = 0) /\ posted[w] <= 1
    BY TypesOfBox DEF BoxIsSound
  <2>3. QED
    BY <1>3, <1>6, <2>1, <2>2 DEF BoxIsSound
<1>8. typed' \in 0..WordBound /\ calls' \subseteq Call /\ posted' \in [Word -> Nat]
  BY <1>2, TypesOfBox, ComposerAssumption
<1>9. QED
  BY <1>6, <1>7, <1>8, PostingKeeps

LEMMA AnswerPostKeeps ==
    ASSUME ComposerInv, NEW c \in calls, AnswerPost(c)
    PROVE  ComposerInv'
<1>1. Posting /\ c.at # "sent" /\ UNCHANGED <<typed, posted, gone, writing>>
  BY DEF AnswerPost, Posting
<1>2. c \in Call /\ CallIsSound(c)
  BY EachIsSound, TypesOfBox
<1>3. typed' \in 0..WordBound /\ posted' \in [Word -> Nat] /\ gone' \subseteq Word
  BY <1>1, TypesOfBox, ComposerAssumption
<1>4. CASE c.at = "APPROVED" /\ writing = "reply"
  <2>1. calls' = {[d EXCEPT !.mine = FALSE] : d \in calls \ {c}}
    BY <1>4 DEF AnswerPost
  <2>2. box' = [open |-> FALSE, words |-> {}, pending |-> FALSE]
    BY <1>4 DEF AnswerPost, EmptyBox
  <2>3. \A w \in box.words : posted[w] > 0 \/ w \in gone
    BY <1>2, <1>4 DEF CallIsSound
  <2>4. ComposerInv'
    BY <1>1, <1>3, <2>1, <2>2, <2>3, BoxCloses
  <2>5. QED
    BY <2>4
<1>5. CASE ~(c.at = "APPROVED" /\ writing = "reply")
  <2>1. calls' = calls \ {c}
    BY <1>5 DEF AnswerPost
  <2>2. CASE c.at # "refused" /\ c.mine
    <3>1. box' = [open |-> TRUE, words |-> {}, pending |-> FALSE]
      BY <1>5, <2>2 DEF AnswerPost, EmptyBox
    <3>2. c.at \in {"APPROVED", "PENDING"}
      BY <1>1, <1>2, <2>2, CallFields
    <3>3. \A w \in box.words : posted[w] > 0 \/ w \in gone
      BY <1>2, <2>2, <3>2 DEF CallIsSound
    <3>4. \A d \in calls' : d \in calls /\ ~d.mine
      BY <2>1, <2>2, EachIsSound
    <3>5. CallsAreSound'
      BY <1>1, <3>1, <3>4, TypesOfBox DEF CallsAreSound
    <3>6. BoxIsSound'
      <4>1. writing # "edit" => \A w \in 1..typed : posted[w] > 0 \/ w \in gone
        BY <3>3, TypesOfBox DEF BoxIsSound
      <4>2. box'.words = {} /\ box'.open /\ \A d \in calls' : d.words \subseteq 1..typed
        BY <3>1, <3>4, TypesOfBox DEF BoxIsSound
      <4>3. \A w \in Word : (w > typed => posted[w] = 0) /\ posted[w] <= 1
        BY TypesOfBox DEF BoxIsSound
      <4>4. QED
        BY <1>1, <4>1, <4>2, <4>3 DEF BoxIsSound
    <3>7. QED
      BY <1>1, <1>3, <2>1, <3>1, <3>5, <3>6, TypesOfBox, PostingKeeps
  <2>3. CASE c.at = "refused" /\ c.mine
    <3>1. box' = [open |-> box.open, words |-> box.words, pending |-> FALSE]
      <4>1. box' = [box EXCEPT !.pending = FALSE]
        BY <1>5, <2>3 DEF AnswerPost
      <4>2. QED
        BY <4>1, TypesOfBox
    <3>2. \A d \in calls' : d \in calls /\ ~d.mine
      BY <2>1, <2>3, EachIsSound
    <3>3. \A w \in box.words : posted[w] = 0
      BY <1>2, <2>3 DEF CallIsSound
    <3>4. box'.words = box.words /\ box'.open = box.open /\ box'.pending = FALSE
      BY <3>1
    <3>5. CallsAreSound'
      BY <1>1, <3>2, <3>4, TypesOfBox DEF CallsAreSound
    <3>6. BoxIsSound'
      BY <1>1, <3>2, <3>3, <3>4, TypesOfBox DEF BoxIsSound
    <3>7. QED
      BY <1>1, <1>3, <2>1, <3>1, <3>5, <3>6, TypesOfBox, PostingKeeps
  <2>4. CASE ~c.mine
    <3>1. UNCHANGED box
      BY <1>5, <2>4 DEF AnswerPost
    <3>2. QED
      BY <1>1, <1>3, <2>1, <3>1, CallGoes
  <2>5. QED
    BY <1>2, <2>2, <2>3, <2>4, CallFields
<1>6. QED
  BY <1>4, <1>5

LEMMA LosePostKeeps ==
    ASSUME ComposerInv, NEW c \in calls, LosePost(c)
    PROVE  ComposerInv'
<1>1. Posting /\ UNCHANGED <<typed, posted, gone, writing, box>> /\ calls' = calls \ {c}
  BY DEF LosePost, Posting
<1>2. QED
  BY <1>1, CallGoes

LEMMA CancelReplyKeeps == ComposerInv /\ CancelReply => ComposerInv'
<1> SUFFICES ASSUME ComposerInv, CancelReply
             PROVE  ComposerInv'
  OBVIOUS
<1>1. Posting /\ UNCHANGED <<typed, posted, writing>> /\ gone' = gone \cup box.words
  BY DEF CancelReply, Posting
<1>2. box' = [open |-> FALSE, words |-> {}, pending |-> FALSE]
  BY DEF CancelReply, EmptyBox
<1>3. calls' = {[d EXCEPT !.mine = FALSE] : d \in calls}
  BY DEF CancelReply
<1>4. \A w \in box.words : posted[w] > 0 \/ w \in gone'
  BY <1>1
<1>5. gone \subseteq gone' /\ gone' \subseteq Word
  BY <1>1, TypesOfBox
<1>6. QED
  BY <1>1, <1>2, <1>3, <1>4, <1>5, BoxCloses

LEMMA EditFields ==
    ASSUME ComposerInv
    PROVE  /\ edit = [open |-> edit.open, draft |-> edit.draft, pending |-> edit.pending, sent |-> edit.sent,
                      at |-> edit.at]
           /\ edit.open \in BOOLEAN /\ edit.draft \in 0..WordBound /\ edit.pending \in BOOLEAN
           /\ edit.sent \in 0..WordBound /\ edit.at \in {"none", "sent", "ok", "refused"}
           /\ comment = [text |-> comment.text, shown |-> comment.shown]
           /\ comment.text \in 0..WordBound /\ comment.shown \in 0..WordBound /\ hasty \in BOOLEAN
           /\ typed \in 0..WordBound /\ EditIsSound
<1>1. ComposerTypeOK /\ hasty \in BOOLEAN /\ EditIsSound
  BY DEF ComposerInv, ComposerTyped
<1>2. edit \in [open : BOOLEAN, draft : 0..WordBound, pending : BOOLEAN, sent : 0..WordBound,
                at : {"none", "sent", "ok", "refused"}]
  BY <1>1 DEF ComposerTypeOK
<1>3. comment \in [text : 0..WordBound, shown : 0..WordBound] /\ typed \in 0..WordBound
  BY <1>1 DEF ComposerTypeOK
<1>4. /\ edit.open \in BOOLEAN /\ edit.draft \in 0..WordBound /\ edit.pending \in BOOLEAN
      /\ edit.sent \in 0..WordBound /\ edit.at \in {"none", "sent", "ok", "refused"}
      /\ edit = [open |-> edit.open, draft |-> edit.draft, pending |-> edit.pending, sent |-> edit.sent,
                 at |-> edit.at]
  BY <1>2
<1>5. /\ comment = [text |-> comment.text, shown |-> comment.shown]
      /\ comment.text \in 0..WordBound /\ comment.shown \in 0..WordBound
  BY <1>3
<1>6. QED
  BY <1>1, <1>3, <1>4, <1>5

\* Where comments are corrected the boxes of new ones stand still.
LEMMA EditingKeeps ==
    ASSUME ComposerInv, Editing, typed' \in typed..WordBound, hasty' \in BOOLEAN,
           NEW o \in BOOLEAN, NEW d \in 0..WordBound, NEW p \in BOOLEAN, NEW s \in 0..WordBound,
           NEW at \in {"none", "sent", "ok", "refused"}, NEW t \in 0..WordBound, NEW h \in 0..WordBound,
           edit' = [open |-> o, draft |-> d, pending |-> p, sent |-> s, at |-> at],
           comment' = [text |-> t, shown |-> h],
           at # "none" => p, ~hasty' /\ p => o /\ d = s, ~hasty' /\ at = "ok" => t = s,
           ~hasty' /\ ~o /\ ~p => d = t
    PROVE  ComposerInv'
<1>1. UNCHANGED <<writing, box, calls, posted, gone>> /\ writing = "edit"
  BY DEF Editing, postVars
<1>2. EditIsSound'
  BY DEF EditIsSound
<1>3. typed' \in 0..WordBound /\ typed <= typed' /\ typed \in Nat /\ typed' \in Nat
  BY TypesOfBox, ComposerAssumption
<1>4. ComposerTyped'
  <2>1. edit' \in [open : BOOLEAN, draft : 0..WordBound, pending : BOOLEAN, sent : 0..WordBound,
                   at : {"none", "sent", "ok", "refused"}]
    OBVIOUS
  <2>2. comment' \in [text : 0..WordBound, shown : 0..WordBound]
    OBVIOUS
  <2>3. QED
    BY <1>1, <1>3, <2>1, <2>2 DEF ComposerInv, ComposerTyped, ComposerTypeOK
<1>5. CallsAreSound'
  BY <1>1, TypesOfBox DEF CallsAreSound
<1>6. BoxIsSound'
  <2>1. 1..typed \subseteq 1..typed'
    BY <1>3
  <2>2. \A w \in Word : w > typed' => posted[w] = 0
    BY <1>3, TypesOfBox DEF BoxIsSound
  <2>3. QED
    BY <1>1, <2>1, <2>2, TypesOfBox DEF BoxIsSound
<1>7. QED
  BY <1>2, <1>4, <1>5, <1>6 DEF ComposerInv

LEMMA EditStarts ==
    ASSUME ComposerInv, Hasty
    PROVE  /\ hasty' \in BOOLEAN
           /\ ~hasty' => ~hasty /\ ~edit.pending /\ comment.shown = comment.text /\ edit.at = "none"
BY EditFields DEF Hasty, EditIsSound

LEMMA OpenEditKeeps == ComposerInv /\ OpenEdit => ComposerInv'
<1> SUFFICES ASSUME ComposerInv, OpenEdit
             PROVE  ComposerInv'
  OBVIOUS
<1>1. Editing /\ ~edit.open /\ Hasty /\ UNCHANGED <<typed, comment>>
  BY DEF OpenEdit
<1>2. PICK o \in BOOLEAN : o = TRUE
  OBVIOUS
<1>3. edit' = [open |-> o, draft |-> edit.draft, pending |-> edit.pending, sent |-> edit.sent, at |-> edit.at]
  <2>1. edit' = [edit EXCEPT !.open = o]
    BY <1>2 DEF OpenEdit
  <2>2. QED
    BY <2>1, EditFields
<1>4. typed' \in typed..WordBound
  BY <1>1, EditFields, ComposerAssumption
<1>5. edit.at # "none" => edit.pending
  BY EditFields DEF EditIsSound
<1>6. QED
  BY <1>1, <1>2, <1>3, <1>4, <1>5, EditFields, EditStarts, EditingKeeps

LEMMA TypeEditKeeps == ComposerInv /\ TypeEdit => ComposerInv'
<1> SUFFICES ASSUME ComposerInv, TypeEdit
             PROVE  ComposerInv'
  OBVIOUS
<1>1. Editing /\ edit.open /\ Hasty /\ UNCHANGED comment /\ typed' = typed + 1 /\ typed < WordBound
  BY DEF TypeEdit, Typing
<1>2. typed' \in typed..WordBound /\ typed' \in 0..WordBound
  BY <1>1, EditFields, ComposerAssumption
<1>3. edit' = [open |-> edit.open, draft |-> typed', pending |-> edit.pending, sent |-> edit.sent, at |-> edit.at]
  <2>1. edit' = [edit EXCEPT !.draft = typed']
    BY DEF TypeEdit
  <2>2. QED
    BY <2>1, EditFields
<1>4. edit.at # "none" => edit.pending
  BY EditFields DEF EditIsSound
<1>5. QED
  BY <1>1, <1>2, <1>3, <1>4, EditFields, EditStarts, EditingKeeps

LEMMA CancelEditKeeps == ComposerInv /\ CancelEdit => ComposerInv'
<1> SUFFICES ASSUME ComposerInv, CancelEdit
             PROVE  ComposerInv'
  OBVIOUS
<1>1. Editing /\ edit.open /\ Hasty /\ UNCHANGED <<typed, comment>>
  BY DEF CancelEdit
<1>2. PICK o \in BOOLEAN : o = FALSE
  OBVIOUS
<1>3. edit' = [open |-> o, draft |-> comment.shown, pending |-> edit.pending, sent |-> edit.sent, at |-> edit.at]
  <2>1. edit' = [edit EXCEPT !.open = o, !.draft = comment.shown]
    BY <1>2 DEF CancelEdit
  <2>2. QED
    BY <2>1, EditFields
<1>4. typed' \in typed..WordBound
  BY <1>1, EditFields, ComposerAssumption
<1>5. edit.at # "none" => edit.pending
  BY EditFields DEF EditIsSound
<1>6. QED
  BY <1>1, <1>2, <1>3, <1>4, <1>5, EditFields, EditStarts, EditingKeeps

LEMMA SaveEditKeeps == ComposerInv /\ SaveEdit => ComposerInv'
<1> SUFFICES ASSUME ComposerInv, SaveEdit
             PROVE  ComposerInv'
  OBVIOUS
<1>1. Editing /\ edit.open /\ ~edit.pending /\ UNCHANGED <<typed, comment, hasty>>
  BY DEF SaveEdit
<1>2. PICK p \in BOOLEAN : p = TRUE
  OBVIOUS
<1>3. edit' = [open |-> edit.open, draft |-> edit.draft, pending |-> p, sent |-> edit.draft, at |-> "sent"]
  <2>1. edit' = [edit EXCEPT !.pending = p, !.sent = edit.draft, !.at = "sent"]
    BY <1>2 DEF SaveEdit
  <2>2. QED
    BY <2>1, EditFields
<1>4. typed' \in typed..WordBound
  BY <1>1, EditFields, ComposerAssumption
<1>5. QED
  BY <1>1, <1>2, <1>3, <1>4, EditFields, EditingKeeps

LEMMA ServeEditKeeps == ComposerInv /\ ServeEdit => ComposerInv'
<1> SUFFICES ASSUME ComposerInv, ServeEdit
             PROVE  ComposerInv'
  OBVIOUS
<1>1. Editing /\ edit.at = "sent" /\ UNCHANGED <<typed, hasty>>
  BY DEF ServeEdit
<1>2. PICK at \in {"ok", "refused"} :
          /\ edit' = [edit EXCEPT !.at = at]
          /\ comment' = IF at = "ok" THEN [comment EXCEPT !.text = edit.sent] ELSE comment
  BY DEF ServeEdit
<1>3. edit' = [open |-> edit.open, draft |-> edit.draft, pending |-> edit.pending, sent |-> edit.sent, at |-> at]
  BY <1>2, EditFields
<1>4. PICK t \in 0..WordBound : /\ comment' = [text |-> t, shown |-> comment.shown]
                                /\ at = "ok" => t = edit.sent
  <2>1. CASE at = "ok"
    <3>1. comment' = [text |-> edit.sent, shown |-> comment.shown]
      BY <1>2, <2>1, EditFields
    <3>2. QED
      BY <3>1, EditFields
  <2>2. CASE at # "ok"
    BY <1>2, <2>2, EditFields
  <2>3. QED
    BY <2>1, <2>2
<1>5. typed' \in typed..WordBound
  BY <1>1, EditFields, ComposerAssumption
<1>6. edit.pending /\ (~hasty => edit.open /\ edit.draft = edit.sent)
  BY <1>1, EditFields DEF EditIsSound
<1>7. QED
  BY <1>1, <1>3, <1>4, <1>5, <1>6, EditFields, EditingKeeps

LEMMA AnswerEditKeeps == ComposerInv /\ AnswerEdit => ComposerInv'
<1> SUFFICES ASSUME ComposerInv, AnswerEdit
             PROVE  ComposerInv'
  OBVIOUS
<1>1. Editing /\ edit.at \in {"ok", "refused"} /\ UNCHANGED <<typed, comment, hasty>>
  BY DEF AnswerEdit
<1>2. PICK p \in BOOLEAN : p = FALSE
  OBVIOUS
<1>3. PICK o \in BOOLEAN : o <=> edit.open /\ edit.at = "refused"
  OBVIOUS
<1>4. edit' = [open |-> o, draft |-> edit.draft, pending |-> p, sent |-> edit.sent, at |-> "none"]
  <2>1. edit' = [edit EXCEPT !.pending = FALSE, !.at = "none", !.open = edit.open /\ edit.at = "refused"]
    BY EditFields DEF AnswerEdit
  <2>2. (edit.open /\ edit.at = "refused") = o
    BY <1>3
  <2>3. edit' = [edit EXCEPT !.pending = p, !.at = "none", !.open = o]
    BY <1>2, <2>1, <2>2, Zenon
  <2>4. QED
    BY <2>3, EditFields
<1>5. typed' \in typed..WordBound
  BY <1>1, EditFields, ComposerAssumption
<1>6. /\ edit.pending /\ (~hasty => edit.open /\ edit.draft = edit.sent)
      /\ ~hasty /\ edit.at = "ok" => comment.text = edit.sent
  BY <1>1, EditFields DEF EditIsSound
<1>7. ~hasty /\ ~o => edit.draft = comment.text
  BY <1>1, <1>3, <1>6
<1>8. QED
  BY <1>1, <1>2, <1>4, <1>5, <1>7, EditFields, EditingKeeps

LEMMA LoseEditKeeps == ComposerInv /\ LoseEdit => ComposerInv'
<1> SUFFICES ASSUME ComposerInv, LoseEdit
             PROVE  ComposerInv'
  OBVIOUS
<1>1. Editing /\ edit.at # "none" /\ UNCHANGED <<typed, comment, hasty>>
  BY DEF LoseEdit
<1>2. edit' = [open |-> edit.open, draft |-> edit.draft, pending |-> edit.pending, sent |-> edit.sent, at |-> "none"]
  BY EditFields DEF LoseEdit
<1>3. typed' \in typed..WordBound
  BY <1>1, EditFields, ComposerAssumption
<1>4. edit.pending /\ (~hasty => edit.open /\ edit.draft = edit.sent)
  BY <1>1, EditFields DEF EditIsSound
<1>5. QED
  BY <1>1, <1>2, <1>3, <1>4, EditFields, EditingKeeps

LEMMA RefreshCommentKeeps == ComposerInv /\ RefreshComment => ComposerInv'
<1> SUFFICES ASSUME ComposerInv, RefreshComment
             PROVE  ComposerInv'
  OBVIOUS
<1>1. Editing /\ UNCHANGED <<typed, edit, hasty>>
  BY DEF RefreshComment
<1>2. comment' = [text |-> comment.text, shown |-> comment.text]
  BY EditFields DEF RefreshComment
<1>3. typed' \in typed..WordBound
  BY <1>1, EditFields, ComposerAssumption
<1>4. /\ edit.at # "none" => edit.pending
      /\ ~hasty /\ edit.pending => edit.open /\ edit.draft = edit.sent
      /\ ~hasty /\ edit.at = "ok" => comment.text = edit.sent
      /\ ~hasty /\ ~edit.open /\ ~edit.pending => edit.draft = comment.text
  BY EditFields DEF EditIsSound
<1>5. QED
  BY <1>1, <1>2, <1>3, <1>4, EditFields, EditingKeeps

LEMMA EditElsewhereKeeps == ComposerInv /\ EditElsewhere => ComposerInv'
<1> SUFFICES ASSUME ComposerInv, EditElsewhere
             PROVE  ComposerInv'
  OBVIOUS
<1>1. Editing /\ hasty' = TRUE /\ UNCHANGED edit /\ typed' = typed + 1 /\ typed < WordBound
  BY DEF EditElsewhere, Typing
<1>2. typed' \in typed..WordBound /\ typed' \in 0..WordBound
  BY <1>1, EditFields, ComposerAssumption
<1>3. comment' = [text |-> typed', shown |-> comment.shown]
  BY EditFields DEF EditElsewhere
<1>4. edit.at # "none" => edit.pending
  BY EditFields DEF EditIsSound
<1>5. QED
  BY <1>1, <1>2, <1>3, <1>4, EditFields, EditingKeeps

LEMMA ComposerStep == ComposerInv /\ [ComposerNext]_composerVars => ComposerInv'
<1> SUFFICES ASSUME ComposerInv, [ComposerNext]_composerVars
             PROVE  ComposerInv'
  OBVIOUS
<1>1. CASE UNCHANGED composerVars
  BY <1>1 DEF composerVars, postVars, editVars, ComposerInv, ComposerTyped, ComposerTypeOK, CallsAreSound,
              BoxIsSound, EditIsSound
<1>2. CASE OpenReply \/ TypeWords \/ SubmitWords \/ CancelReply
  BY <1>2, OpenReplyKeeps, TypeWordsKeeps, SubmitWordsKeeps, CancelReplyKeeps
<1>3. CASE \E c \in calls : ServePost(c) \/ AnswerPost(c) \/ LosePost(c)
  BY <1>3, ServePostKeeps, AnswerPostKeeps, LosePostKeeps
<1>4. CASE OpenEdit \/ TypeEdit \/ CancelEdit \/ SaveEdit \/ ServeEdit \/ AnswerEdit \/ LoseEdit
  BY <1>4, OpenEditKeeps, TypeEditKeeps, CancelEditKeeps, SaveEditKeeps, ServeEditKeeps, AnswerEditKeeps,
     LoseEditKeeps
<1>5. CASE RefreshComment \/ EditElsewhere
  BY <1>5, RefreshCommentKeeps, EditElsewhereKeeps
<1>6. QED
  BY <1>1, <1>2, <1>3, <1>4, <1>5 DEF ComposerNext

LEMMA ComposerInvImplies == ComposerInv => ComposerTypeOK /\ ComposerHolds
<1> SUFFICES ASSUME ComposerInv
             PROVE  ComposerTypeOK /\ ComposerHolds
  OBVIOUS
<1>1. ComposerTypeOK /\ CallsAreSound /\ BoxIsSound /\ EditIsSound
  BY DEF ComposerInv, ComposerTyped
<1>2. WordsArePostedOnce
  BY <1>1 DEF BoxIsSound, WordsArePostedOnce
<1>3. EditStartsFromTheComment
  BY <1>1 DEF EditIsSound, EditStartsFromTheComment
<1>4. QED
  BY <1>1, <1>2, <1>3 DEF ComposerHolds

LEMMA ComposerInvariance == ComposerSpec => []ComposerInv
  BY ComposerStart, ComposerStep, PTL DEF ComposerSpec

\* components/comments/CommentForm.tsx and CommentThread.tsx: what a reader
\* writes is posted once and stays in the box until the server has it, and a
\* correction starts from the comment as the page shows it.
THEOREM WordsArriveOnce == ComposerSpec => []ComposerHolds
  BY ComposerInvariance, ComposerInvImplies, PTL

LEMMA ComposerTypesStay == ComposerSpec => []ComposerTypeOK
  BY ComposerInvariance, ComposerInvImplies, PTL

---------------------------------------------------------------------------
(* Push: subscriptions, tabs and fan-out                                 *)

\* One delivery of a story: to which endpoint, by which row, and what came of it.
Sending == [e : Endpoint, id : Nat, came : {"sent", "gone", "failed"}]
Doing == {"idle", "post", "delete", "unsubscribe"}
TabRow == [shows : Shows, pc : Doing, e : Endpoint \cup {0}]

PushTyped ==
    /\ live \in Endpoint \cup {0} /\ used \in Nat /\ born \in Nat
    /\ subs \in [Endpoint -> SubRow] /\ tab \in [Tab -> TabRow]
    /\ fanout \in [Fanout -> SUBSET Sending]
    /\ \A t \in Tab : tab[t].pc # "idle" => tab[t].e # 0

\* Nothing is known of an endpoint before the push service hands it out, so
\* one that was given up is not handed out again.
InOrder ==
    /\ live <= used
    /\ \A e \in Endpoint : subs[e].id # 0 => e <= used
    /\ \A t \in Tab : tab[t].e <= used

\* A number belongs to one row.
RowsAreNumbered ==
    /\ \A e \in Endpoint : subs[e].id <= born
    /\ \A e, g \in Endpoint : subs[e].id = subs[g].id /\ subs[e].id # 0 => e = g

\* Whatever became of the rows while a story was sent out, a delivery speaks
\* of the row it was made by, and what it found gone is not in use.
SendingsAreTrue ==
    \A f \in Fanout : \A s \in fanout[f] :
        /\ s.id \in 1..born /\ s.e <= used
        /\ s.came = "gone" => s.e # live
        /\ \A g \in Endpoint : subs[g].id = s.id => g = s.e

\* A subscription without a row is in the hands of a tab.
SomebodyIsAtIt ==
    live # 0 /\ live \notin broken =>
        subs[live].id # 0 \/ \E t \in Tab : tab[t].pc # "idle" /\ tab[t].e = live

PushInv == PushTyped /\ InOrder /\ RowsAreNumbered /\ SendingsAreTrue /\ SomebodyIsAtIt

LEMMA PushStart == PushInit => PushInv
<1> SUFFICES ASSUME PushInit
             PROVE  PushInv
  OBVIOUS
<1>1. /\ live = 0 /\ used = 0 /\ born = 0 /\ subs = [e \in Endpoint |-> NoRow]
      /\ tab = [t \in Tab |-> [shows |-> "off", pc |-> "idle", e |-> 0]]
      /\ fanout = [f \in Fanout |-> {}]
  BY DEF PushInit
<1>2. PushTyped
  BY <1>1 DEF PushTyped, SubRow, NoRow, TabRow, Shows, Doing
<1>3. InOrder /\ RowsAreNumbered
  BY <1>1 DEF InOrder, RowsAreNumbered, NoRow
<1>4. SendingsAreTrue /\ SomebodyIsAtIt
  BY <1>1 DEF SendingsAreTrue, SomebodyIsAtIt
<1>5. QED
  BY <1>2, <1>3, <1>4 DEF PushInv

\* A row that is there keeps its number, a new one takes the next.
LEMMA UpsertNumbers ==
    ASSUME PushInv, NEW e \in Endpoint, NEW who \in {"nobody", "reader"}, Upsert(e, who)
    PROVE  /\ subs' \in [Endpoint -> SubRow] /\ born' \in Nat /\ born <= born'
           /\ subs'[e].id # 0
           /\ subs'[e].id = subs[e].id \/ (subs[e].id = 0 /\ subs'[e].id = born + 1 /\ born' = born + 1)
           /\ \A g \in Endpoint \ {e} : subs'[g] = subs[g]
<1>1. born \in Nat /\ born + 1 \in Nat
  BY DEF PushInv, PushTyped
<1>2. subs \in [Endpoint -> SubRow] /\ subs[e] \in SubRow
  BY DEF PushInv, PushTyped
<1>3. CASE subs[e].id = 0
  <2>1. born' = born + 1 /\ subs' = [subs EXCEPT ![e] = [id |-> born + 1, user |-> who, failed |-> "no"]]
    BY <1>3 DEF Upsert
  <2>2. [id |-> born + 1, user |-> who, failed |-> "no"] \in SubRow
    BY <1>1 DEF SubRow
  <2>3. QED
    BY <1>1, <1>2, <1>3, <2>1, <2>2
<1>4. CASE subs[e].id # 0
  <2>1. PICK v \in {"nobody", "reader"} : subs' = [subs EXCEPT ![e] = [subs[e] EXCEPT !.failed = "no", !.user = v]]
    <3>1. subs[e].user \in {"nobody", "reader"}
      BY <1>2 DEF SubRow
    <3>2. subs' = [subs EXCEPT ![e] = [subs[e] EXCEPT !.failed = "no",
                                          !.user = IF who = "nobody" THEN subs[e].user ELSE who]]
      BY <1>4 DEF Upsert
    <3>3. QED
      BY <3>1, <3>2
  <2>2. [subs[e] EXCEPT !.failed = "no", !.user = v] \in SubRow
    BY <1>2 DEF SubRow
  <2>3. [subs[e] EXCEPT !.failed = "no", !.user = v].id = subs[e].id
    BY <1>2 DEF SubRow
  <2>4. born' = born
    BY <1>4 DEF Upsert
  <2>5. QED
    BY <1>1, <1>2, <1>4, <2>1, <2>2, <2>3, <2>4
<1>5. QED
  BY <1>3, <1>4

\* So the numbers stay apart, and no delivery speaks of the new row.
LEMMA UpsertKeeps ==
    ASSUME PushInv, PushAssumption, NEW e \in Endpoint, NEW who \in {"nobody", "reader"}, Upsert(e, who),
           UNCHANGED fanout, used' \in Nat, used <= used', e <= used',
           \A f \in Fanout : \A s \in fanout[f] : s.came = "gone" => s.e # live'
    PROVE  /\ RowsAreNumbered' /\ SendingsAreTrue'
           /\ \A g \in Endpoint : subs'[g].id # 0 => g <= used'
<1>1. /\ subs' \in [Endpoint -> SubRow] /\ born' \in Nat /\ born <= born'
      /\ subs'[e].id = subs[e].id \/ (subs[e].id = 0 /\ subs'[e].id = born + 1 /\ born' = born + 1)
      /\ \A g \in Endpoint \ {e} : subs'[g] = subs[g]
  BY UpsertNumbers
<1>2. born \in Nat /\ used \in Nat /\ \A g \in Endpoint : subs[g].id \in Nat /\ subs'[g].id \in Nat /\ g \in Nat
  BY <1>1 DEF PushInv, PushTyped, SubRow, PushAssumption
<1>3. RowsAreNumbered'
  <2>1. \A g \in Endpoint : subs[g].id <= born
    BY DEF PushInv, RowsAreNumbered
  <2>2. \A g \in Endpoint : subs'[g].id <= born'
    BY <1>1, <1>2, <2>1
  <2>3. ASSUME NEW g \in Endpoint, NEW h \in Endpoint, subs'[g].id = subs'[h].id, subs'[g].id # 0
        PROVE  g = h
    <3>1. \A a, b \in Endpoint : subs[a].id = subs[b].id /\ subs[a].id # 0 => a = b
      BY DEF PushInv, RowsAreNumbered
    <3>2. CASE subs'[e].id = subs[e].id
      BY <1>1, <2>3, <3>1, <3>2
    <3>3. CASE subs'[e].id = born + 1
      <4>1. \A a \in Endpoint : a # e => subs'[a].id = subs[a].id /\ subs[a].id # born + 1
        BY <1>1, <1>2, <2>1
      <4>2. CASE g = e
        BY <2>3, <3>3, <4>1, <4>2
      <4>3. CASE g # e
        BY <2>3, <3>1, <3>3, <4>1, <4>3
      <4>4. QED
        BY <4>2, <4>3
    <3>4. QED
      BY <1>1, <3>2, <3>3
  <2>4. QED
    BY <2>2, <2>3 DEF RowsAreNumbered
<1>4. ASSUME NEW f \in Fanout, NEW s \in fanout[f]
      PROVE  /\ s.id \in 1..born' /\ s.e <= used'
             /\ \A g \in Endpoint : subs'[g].id = s.id => g = s.e
  <2>1. s \in Sending
    BY DEF PushInv, PushTyped
  <2>2. s.e \in Nat /\ s.id \in Nat
    BY <2>1 DEF Sending, PushAssumption
  <2>3. s.id \in 1..born /\ s.e <= used /\ \A g \in Endpoint : subs[g].id = s.id => g = s.e
    BY DEF PushInv, SendingsAreTrue
  <2>4. QED
    BY <1>1, <1>2, <2>2, <2>3
<1>5. SendingsAreTrue'
  BY <1>4 DEF SendingsAreTrue
<1>6. QED
  BY <1>1, <1>2, <1>3, <1>5 DEF PushInv, InOrder

\* The switch moves in one tab, and in no other.
LEMMA OneTabShifts ==
    ASSUME PushInv, NEW t \in Tab, NEW shows \in Shows,
           NEW pc \in Doing, NEW e \in Endpoint \cup {0},
           pc # "idle" => e # 0, e <= used', Shift(t, shows, pc, e),
           used <= used', used' \in Nat, PushAssumption
    PROVE  /\ tab' \in [Tab -> TabRow]
           /\ tab'[t].pc = pc /\ tab'[t].e = e
           /\ \A o \in Tab \ {t} : tab'[o] = tab[o]
           /\ \A o \in Tab : tab'[o].pc # "idle" => tab'[o].e # 0
           /\ \A o \in Tab : tab'[o].e <= used'
<1>1. tab \in [Tab -> TabRow] /\ used \in Nat
  BY DEF PushInv, PushTyped
<1>2. [shows |-> shows, pc |-> pc, e |-> e] \in TabRow
  BY DEF TabRow
<1>3. tab' = [tab EXCEPT ![t] = [shows |-> shows, pc |-> pc, e |-> e]]
  BY DEF Shift
<1>4. \A o \in Tab \ {t} : tab'[o] = tab[o]
  BY <1>1, <1>3
<1>5. tab'[t] = [shows |-> shows, pc |-> pc, e |-> e]
  BY <1>1, <1>3
<1>6. tab' \in [Tab -> TabRow]
  BY <1>1, <1>2, <1>3
<1>7. ASSUME NEW o \in Tab
      PROVE  (tab'[o].pc # "idle" => tab'[o].e # 0) /\ tab'[o].e <= used'
  <2>1. CASE o = t
    BY <1>5, <2>1
  <2>2. CASE o # t
    <3>1. tab'[o] = tab[o]
      BY <1>4, <2>2
    <3>2. tab[o] \in TabRow
      BY <1>1
    <3>3. tab[o].e \in Endpoint \cup {0}
      BY <3>2 DEF TabRow
    <3>4. Endpoint \cup {0} \subseteq Nat
      BY DEF PushAssumption
    <3>5. tab[o].e \in Nat
      BY <3>3, <3>4
    <3>6. tab[o].e <= used
      BY DEF PushInv, InOrder
    <3>7. tab[o].pc # "idle" => tab[o].e # 0
      BY DEF PushInv, PushTyped
    <3>8. QED
      BY <1>1, <3>1, <3>5, <3>6, <3>7
  <2>3. QED
    BY <2>1, <2>2
<1>8. QED
  BY <1>4, <1>5, <1>6, <1>7

LEMMA TypesOfAll ==
    PushInv /\ PushAssumption =>
        /\ live \in Endpoint \cup {0} /\ live \in Nat /\ used \in Nat /\ live <= used
        /\ tab \in [Tab -> TabRow] /\ subs \in [Endpoint -> SubRow]
        /\ \A t \in Tab : tab[t].e \in Endpoint \cup {0} /\ tab[t].e <= used
        /\ \A t \in Tab : tab[t].pc # "idle" => tab[t].e \in Endpoint
        /\ \A e \in Endpoint : e \in Nat /\ subs[e].id \in Nat /\ (subs[e].id # 0 => e <= used)
<1> SUFFICES ASSUME PushInv, PushAssumption
             PROVE  /\ live \in Endpoint \cup {0} /\ live \in Nat /\ used \in Nat /\ live <= used
                    /\ tab \in [Tab -> TabRow] /\ subs \in [Endpoint -> SubRow]
                    /\ \A t \in Tab : tab[t].e \in Endpoint \cup {0} /\ tab[t].e <= used
                    /\ \A t \in Tab : tab[t].pc # "idle" => tab[t].e \in Endpoint
                    /\ \A e \in Endpoint : e \in Nat /\ subs[e].id \in Nat /\ (subs[e].id # 0 => e <= used)
  OBVIOUS
<1>1. live \in Endpoint \cup {0} /\ live \in Nat /\ used \in Nat /\ live <= used
  BY DEF PushInv, PushTyped, InOrder, PushAssumption
<1>2. tab \in [Tab -> TabRow]
  BY DEF PushInv, PushTyped
<1>3. subs \in [Endpoint -> SubRow]
  BY DEF PushInv, PushTyped
<1>4. ASSUME NEW t \in Tab
      PROVE  /\ tab[t].e \in Endpoint \cup {0} /\ tab[t].e <= used
             /\ tab[t].pc # "idle" => tab[t].e \in Endpoint
  <2>1. tab[t] \in TabRow
    BY <1>2
  <2>2. tab[t].e \in Endpoint \cup {0}
    BY <2>1 DEF TabRow
  <2>3. tab[t].e <= used
    BY DEF PushInv, InOrder
  <2>4. tab[t].pc # "idle" => tab[t].e # 0
    BY DEF PushInv, PushTyped
  <2>5. QED
    BY <2>2, <2>3, <2>4
<1>5. ASSUME NEW e \in Endpoint
      PROVE  e \in Nat /\ subs[e].id \in Nat /\ (subs[e].id # 0 => e <= used)
  <2>1. subs[e] \in SubRow
    BY <1>3
  <2>2. subs[e].id \in Nat
    BY <2>1 DEF SubRow
  <2>3. subs[e].id # 0 => e <= used
    BY DEF PushInv, InOrder
  <2>4. QED
    BY <2>2, <2>3 DEF PushAssumption
<1>6. QED
  BY <1>1, <1>2, <1>3, <1>4, <1>5

\* Rows and deliveries stand still: what was known of them is still known.
LEMMA RowsStand ==
    ASSUME PushInv, PushAssumption, UNCHANGED <<subs, born, fanout>>, used <= used', used' \in Nat,
           \A f \in Fanout : \A s \in fanout[f] : s.came = "gone" => s.e # live'
    PROVE  /\ RowsAreNumbered' /\ SendingsAreTrue'
           /\ \A g \in Endpoint : subs'[g].id # 0 => g <= used'
<1>1. /\ used \in Nat
      /\ \A e \in Endpoint : e \in Nat /\ subs[e].id \in Nat /\ (subs[e].id # 0 => e <= used)
  BY TypesOfAll
<1>2. RowsAreNumbered'
  BY DEF PushInv, RowsAreNumbered
<1>3. ASSUME NEW f \in Fanout, NEW s \in fanout[f]
      PROVE  s.id \in 1..born /\ s.e <= used' /\ \A g \in Endpoint : subs[g].id = s.id => g = s.e
  <2>1. s \in Sending
    BY DEF PushInv, PushTyped
  <2>2. s.e \in Nat
    BY <2>1 DEF Sending, PushAssumption
  <2>3. s.id \in 1..born /\ s.e <= used
    BY DEF PushInv, SendingsAreTrue
  <2>4. \A g \in Endpoint : subs[g].id = s.id => g = s.e
    BY DEF PushInv, SendingsAreTrue
  <2>5. s.e <= used'
    BY <1>1, <2>2, <2>3
  <2>6. QED
    BY <2>3, <2>4, <2>5
<1>4. SendingsAreTrue'
  BY <1>3 DEF SendingsAreTrue
<1>5. QED
  BY <1>1, <1>2, <1>4

\* What was found gone is not in use, and is not taken up again.
LEMMA GoneStaysGone ==
    ASSUME PushInv, PushAssumption, live' \in {live, 0, used + 1}
    PROVE  \A f \in Fanout : \A s \in fanout[f] : s.came = "gone" => s.e # live'
<1>1. SUFFICES ASSUME NEW f \in Fanout, NEW s \in fanout[f], s.came = "gone"
               PROVE  s.e # live'
  OBVIOUS
<1>2. s \in Sending
  BY DEF PushInv, PushTyped
<1>3. s.e \in Nat \ {0} /\ used \in Nat
  BY <1>2, TypesOfAll DEF Sending, PushAssumption
<1>4. s.e <= used /\ s.e # live
  BY <1>1 DEF PushInv, SendingsAreTrue
<1>5. QED
  BY <1>3, <1>4

LEMMA EnableKeeps ==
    ASSUME PushInv, PushAssumption, NEW t \in Tab, Enable(t)
    PROVE  PushInv'
<1> USE TypesOfAll
<1>1. /\ live' \in Endpoint /\ used' \in Nat /\ used <= used' /\ live' <= used'
      /\ live' \in {live, used + 1}
  BY DEF Enable, Fresh, PushAssumption
<1>2. UNCHANGED <<born, subs, fanout, broken>> /\ Shift(t, "working", "post", live') /\ tab[t].pc = "idle"
  BY DEF Enable, InTab
<1>3. /\ tab' \in [Tab -> TabRow] /\ tab'[t].pc = "post" /\ tab'[t].e = live'
      /\ \A o \in Tab : tab'[o].pc # "idle" => tab'[o].e # 0
      /\ \A o \in Tab : tab'[o].e <= used'
  <2>1. live' # 0
    BY <1>1 DEF PushAssumption
  <2>2. QED
    BY <1>1, <1>2, <2>1, OneTabShifts DEF Shows, Doing
<1>4. RowsAreNumbered' /\ SendingsAreTrue' /\ \A g \in Endpoint : subs'[g].id # 0 => g <= used'
  BY <1>1, <1>2, GoneStaysGone, RowsStand
<1>5. PushTyped'
  BY <1>1, <1>2, <1>3 DEF PushInv, PushTyped
<1>6. InOrder'
  BY <1>1, <1>3, <1>4 DEF InOrder
<1>7. SomebodyIsAtIt'
  BY <1>3 DEF SomebodyIsAtIt
<1>8. QED
  BY <1>4, <1>5, <1>6, <1>7 DEF PushInv

\* The effect that runs once, the button that is pressed, and the calls that fail.
LEMMA TabOnlyKeeps ==
    ASSUME PushInv, PushAssumption, NEW t \in Tab,
           LoadTab(t) \/ Disable(t) \/ DisableFails(t)
    PROVE  PushInv'
<1> USE TypesOfAll
<1>1. UNCHANGED <<live, used, born, subs, fanout>>
  BY DEF LoadTab, Disable, DisableFails
<1>2. PICK shows \in Shows, pc \in Doing, e \in Endpoint \cup {0} :
          /\ Shift(t, shows, pc, e) /\ (pc # "idle" => e # 0) /\ e \in {0, live}
          /\ tab[t].pc # "idle" => tab[t].e \in broken'
  <2>1. CASE LoadTab(t)
    BY <2>1 DEF LoadTab, InTab, Shows, Doing
  <2>2. CASE Disable(t)
    BY <2>2 DEF Disable, InTab, Shows, Doing
  <2>3. CASE DisableFails(t)
    BY <2>3 DEF DisableFails, Shows, Doing
  <2>4. QED
    BY <2>1, <2>2, <2>3
<1>3. broken \subseteq broken'
  BY DEF LoadTab, Disable, DisableFails
<1>4. /\ tab' \in [Tab -> TabRow]
      /\ \A o \in Tab \ {t} : tab'[o] = tab[o]
      /\ \A o \in Tab : tab'[o].pc # "idle" => tab'[o].e # 0
      /\ \A o \in Tab : tab'[o].e <= used'
  <2>1. used' \in Nat /\ used <= used' /\ e <= used'
    <3>1. e \in {0, live} /\ live \in Nat /\ used \in Nat /\ live <= used
      BY <1>2
    <3>2. used' = used
      BY <1>1
    <3>3. QED
      BY <3>1, <3>2
  <2>2. Shift(t, shows, pc, e)
    BY <1>2
  <2>3. pc # "idle" => e # 0
    BY <1>2
  <2>4. QED
    BY <2>1, <2>2, <2>3, OneTabShifts
<1>5. RowsAreNumbered' /\ SendingsAreTrue' /\ \A g \in Endpoint : subs'[g].id # 0 => g <= used'
  BY <1>1, GoneStaysGone, RowsStand
<1>6. PushTyped'
  BY <1>1, <1>4 DEF PushInv, PushTyped
<1>7. InOrder'
  BY <1>1, <1>4, <1>5 DEF InOrder
<1>8. SomebodyIsAtIt'
  <2>1. SUFFICES ASSUME live # 0, live \notin broken', subs[live].id = 0
                 PROVE  \E o \in Tab : tab'[o].pc # "idle" /\ tab'[o].e = live
    BY <1>1 DEF SomebodyIsAtIt
  <2>2. PICK o \in Tab : tab[o].pc # "idle" /\ tab[o].e = live
    BY <1>3, <2>1 DEF PushInv, SomebodyIsAtIt
  <2>3. o # t
    BY <1>2, <2>1, <2>2
  <2>4. QED
    BY <1>4, <2>2, <2>3
<1>9. QED
  BY <1>5, <1>6, <1>7, <1>8 DEF PushInv

LEMMA SubscribeKeeps ==
    ASSUME PushInv, PushAssumption, NEW t \in Tab, Subscribe(t) \/ SubscribeFails(t)
    PROVE  PushInv'
<1> USE TypesOfAll
<1>1. UNCHANGED <<live, used, fanout>> /\ tab[t].pc = "post"
  BY DEF Subscribe, SubscribeFails, InTab
<1>2. tab[t].e \in Endpoint /\ tab[t].e <= used
  BY <1>1
<1>3. Shift(t, "on", "idle", 0) \/ Shift(t, "error", "idle", 0)
  BY DEF Subscribe, SubscribeFails
<1>4. /\ tab' \in [Tab -> TabRow]
      /\ \A o \in Tab \ {t} : tab'[o] = tab[o]
      /\ \A o \in Tab : tab'[o].pc # "idle" => tab'[o].e # 0
      /\ \A o \in Tab : tab'[o].e <= used'
  <2>1. used' \in Nat /\ used <= used' /\ 0 <= used'
    BY <1>1
  <2>2. PICK shows \in Shows : Shift(t, shows, "idle", 0)
    BY <1>3 DEF Shows
  <2>3. "idle" \in Doing /\ 0 \in Endpoint \cup {0}
    BY DEF Doing
  <2>4. QED
    BY <2>1, <2>2, <2>3, OneTabShifts
<1>5. /\ subs' \in [Endpoint -> SubRow] /\ born' \in Nat
      /\ \A g \in Endpoint \ {tab[t].e} : subs'[g] = subs[g]
      /\ Subscribe(t) => subs'[tab[t].e].id # 0
      /\ RowsAreNumbered' /\ SendingsAreTrue' /\ \A g \in Endpoint : subs'[g].id # 0 => g <= used'
  <2>1. \A f \in Fanout : \A s \in fanout[f] : s.came = "gone" => s.e # live'
    BY <1>1, GoneStaysGone
  <2>2. used' \in Nat /\ used <= used' /\ tab[t].e <= used'
    BY <1>1, <1>2
  <2>3. CASE \E who \in {"nobody", "reader"} : Upsert(tab[t].e, who)
    <3>1. PICK who \in {"nobody", "reader"} : Upsert(tab[t].e, who)
      BY <2>3
    <3>2. PICK e \in Endpoint : e = tab[t].e
      BY <1>2
    <3>3. Upsert(e, who)
      BY <3>1, <3>2
    <3>4. /\ subs' \in [Endpoint -> SubRow] /\ born' \in Nat /\ subs'[e].id # 0
          /\ \A g \in Endpoint \ {e} : subs'[g] = subs[g]
      BY <3>3, UpsertNumbers
    <3>5. e <= used' /\ UNCHANGED fanout
      BY <1>1, <2>2, <3>2
    <3>6. RowsAreNumbered' /\ SendingsAreTrue' /\ \A g \in Endpoint : subs'[g].id # 0 => g <= used'
      BY <2>1, <2>2, <3>3, <3>5, UpsertKeeps
    <3>7. QED
      BY <3>2, <3>4, <3>6
  <2>4. CASE SubscribeFails(t) /\ UNCHANGED <<subs, born>>
    <3>1. ~Subscribe(t) \/ \E who \in {"nobody", "reader"} : Upsert(tab[t].e, who)
      BY DEF Subscribe
    <3>2. RowsAreNumbered' /\ SendingsAreTrue' /\ \A g \in Endpoint : subs'[g].id # 0 => g <= used'
      BY <1>1, <2>1, <2>2, <2>4, RowsStand
    <3>3. born \in Nat
      BY DEF PushInv, PushTyped
    <3>4. QED
      BY <2>3, <2>4, <3>1, <3>2, <3>3
  <2>5. QED
    BY <2>3, <2>4 DEF Subscribe, SubscribeFails
<1>6. PushTyped'
  BY <1>1, <1>4, <1>5 DEF PushInv, PushTyped
<1>7. InOrder'
  BY <1>1, <1>4, <1>5 DEF InOrder
<1>8. SomebodyIsAtIt'
  <2>1. SUFFICES ASSUME live # 0, live \notin broken', subs'[live].id = 0
                 PROVE  \E o \in Tab : tab'[o].pc # "idle" /\ tab'[o].e = live
    BY <1>1 DEF SomebodyIsAtIt
  <2>2. live # tab[t].e
    <3>1. CASE Subscribe(t)
      BY <1>5, <2>1, <3>1
    <3>2. CASE SubscribeFails(t)
      BY <2>1, <3>2 DEF SubscribeFails
    <3>3. QED
      BY <3>1, <3>2
  <2>3. live \notin broken /\ subs[live].id = 0
    <3>1. live \in Endpoint
      BY <2>1
    <3>2. subs'[live] = subs[live]
      BY <1>5, <2>2, <3>1
    <3>3. QED
      BY <2>1, <2>2, <3>2 DEF Subscribe, SubscribeFails
  <2>4. PICK o \in Tab : tab[o].pc # "idle" /\ tab[o].e = live
    BY <2>1, <2>3 DEF PushInv, SomebodyIsAtIt
  <2>5. QED
    BY <1>4, <2>2, <2>4
<1>9. QED
  BY <1>5, <1>6, <1>7, <1>8 DEF PushInv

\* Rows that are left as they are, give up what failed or go: their numbers
\* stay theirs.
LEMMA RowsGo ==
    ASSUME PushInv, PushAssumption, UNCHANGED <<used, born>>,
           subs' \in [Endpoint -> SubRow],
           \A e \in Endpoint : subs'[e].id \in {0, subs[e].id},
           \A f \in Fanout : fanout'[f] \in {fanout[f], {}},
           \A f \in Fanout : \A s \in fanout[f] : s.came = "gone" => s.e # live'
    PROVE  /\ RowsAreNumbered' /\ SendingsAreTrue'
           /\ \A g \in Endpoint : subs'[g].id # 0 => g <= used'
<1>1. /\ \A e \in Endpoint : e \in Nat /\ subs[e].id \in Nat /\ (subs[e].id # 0 => e <= used)
  BY TypesOfAll
<1>2. born \in Nat
  BY DEF PushInv, PushTyped
<1>3. RowsAreNumbered'
  <2>1. \A e \in Endpoint : subs[e].id <= born
    BY DEF PushInv, RowsAreNumbered
  <2>2. \A e, g \in Endpoint : subs[e].id = subs[g].id /\ subs[e].id # 0 => e = g
    BY DEF PushInv, RowsAreNumbered
  <2>3. \A e \in Endpoint : subs'[e].id <= born
    BY <1>1, <1>2, <2>1
  <2>4. \A e, g \in Endpoint : subs'[e].id = subs'[g].id /\ subs'[e].id # 0 => e = g
    BY <2>2
  <2>5. QED
    BY <2>3, <2>4 DEF RowsAreNumbered
<1>4. ASSUME NEW f \in Fanout, NEW s \in fanout'[f]
      PROVE  /\ s.id \in 1..born /\ s.e <= used /\ (s.came = "gone" => s.e # live')
             /\ \A g \in Endpoint : subs'[g].id = s.id => g = s.e
  <2>1. s \in fanout[f]
    OBVIOUS
  <2>2. s.id \in 1..born /\ s.e <= used
    BY <2>1 DEF PushInv, SendingsAreTrue
  <2>3. \A g \in Endpoint : subs[g].id = s.id => g = s.e
    BY <2>1 DEF PushInv, SendingsAreTrue
  <2>4. s.id # 0
    BY <1>2, <2>2
  <2>5. QED
    BY <2>1, <2>2, <2>3, <2>4
<1>5. SendingsAreTrue'
  BY <1>4 DEF SendingsAreTrue
<1>6. QED
  BY <1>1, <1>3, <1>5

LEMMA DeleteRowKeeps ==
    ASSUME PushInv, PushAssumption, NEW t \in Tab, DeleteRow(t)
    PROVE  PushInv'
<1> USE TypesOfAll
<1>1. UNCHANGED <<live, used, born, fanout, broken>> /\ tab[t].pc = "delete"
      /\ Shift(t, "working", "unsubscribe", tab[t].e)
  BY DEF DeleteRow, InTab
<1>2. tab[t].e \in Endpoint /\ tab[t].e <= used
  BY <1>1
<1>3. /\ tab' \in [Tab -> TabRow]
      /\ tab'[t].pc = "unsubscribe" /\ tab'[t].e = tab[t].e
      /\ \A o \in Tab \ {t} : tab'[o] = tab[o]
      /\ \A o \in Tab : tab'[o].pc # "idle" => tab'[o].e # 0
      /\ \A o \in Tab : tab'[o].e <= used'
  <2>1. used' \in Nat /\ used <= used' /\ tab[t].e <= used' /\ tab[t].e # 0
    BY <1>1, <1>2 DEF PushAssumption
  <2>2. QED
    BY <1>1, <1>2, <2>1, OneTabShifts DEF Shows, Doing
<1>4. /\ subs' \in [Endpoint -> SubRow]
      /\ \A g \in Endpoint : subs'[g].id \in {0, subs[g].id}
      /\ \A g \in Endpoint \ {tab[t].e} : subs'[g] = subs[g]
  <2>1. CASE subs' = [subs EXCEPT ![tab[t].e] = NoRow]
    <3>1. NoRow \in SubRow /\ NoRow.id = 0
      BY DEF NoRow, SubRow
    <3>2. QED
      BY <1>2, <2>1, <3>1
  <2>2. CASE UNCHANGED subs
    BY <2>2
  <2>3. QED
    BY <2>1, <2>2 DEF DeleteRow
<1>5. RowsAreNumbered' /\ SendingsAreTrue' /\ \A g \in Endpoint : subs'[g].id # 0 => g <= used'
  BY <1>1, <1>4, GoneStaysGone, RowsGo
<1>6. PushTyped'
  BY <1>1, <1>3, <1>4 DEF PushInv, PushTyped
<1>7. InOrder'
  BY <1>1, <1>3, <1>5 DEF InOrder
<1>8. SomebodyIsAtIt'
  <2>1. SUFFICES ASSUME live # 0, live \notin broken, subs'[live].id = 0, live # tab[t].e
                 PROVE  \E o \in Tab : tab'[o].pc # "idle" /\ tab'[o].e = live
    BY <1>1, <1>3 DEF SomebodyIsAtIt
  <2>2. subs[live].id = 0
    BY <1>4, <2>1
  <2>3. PICK o \in Tab : tab[o].pc # "idle" /\ tab[o].e = live
    BY <2>1, <2>2 DEF PushInv, SomebodyIsAtIt
  <2>4. QED
    BY <1>3, <2>1, <2>3
<1>9. QED
  BY <1>5, <1>6, <1>7, <1>8 DEF PushInv

LEMMA UnsubscribeKeeps ==
    ASSUME PushInv, PushAssumption, NEW t \in Tab, Unsubscribe(t)
    PROVE  PushInv'
<1> USE TypesOfAll
<1>1. UNCHANGED <<used, born, subs, fanout, broken>> /\ Shift(t, "off", "idle", 0)
      /\ live' = IF live = tab[t].e THEN 0 ELSE live
  BY DEF Unsubscribe
<1>2. live' \in Endpoint \cup {0} /\ live' <= used' /\ live' \in {live, 0, used + 1}
  BY <1>1
<1>3. /\ tab' \in [Tab -> TabRow]
      /\ \A o \in Tab \ {t} : tab'[o] = tab[o]
      /\ \A o \in Tab : tab'[o].pc # "idle" => tab'[o].e # 0
      /\ \A o \in Tab : tab'[o].e <= used'
  <2>1. used' \in Nat /\ used <= used' /\ 0 <= used'
    BY <1>1
  <2>2. QED
    BY <1>1, <2>1, OneTabShifts DEF Shows, Doing
<1>4. RowsAreNumbered' /\ SendingsAreTrue' /\ \A g \in Endpoint : subs'[g].id # 0 => g <= used'
  <2>1. used' \in Nat /\ used <= used'
    BY <1>1
  <2>2. QED
    BY <1>1, <1>2, <2>1, GoneStaysGone, RowsStand
<1>5. PushTyped'
  BY <1>1, <1>2, <1>3 DEF PushInv, PushTyped
<1>6. InOrder'
  BY <1>1, <1>2, <1>3, <1>4 DEF InOrder
<1>7. SomebodyIsAtIt'
  <2>1. SUFFICES ASSUME live # 0, live # tab[t].e, live \notin broken, subs[live].id = 0
                 PROVE  \E o \in Tab : tab'[o].pc # "idle" /\ tab'[o].e = live
    BY <1>1 DEF SomebodyIsAtIt
  <2>2. PICK o \in Tab : tab[o].pc # "idle" /\ tab[o].e = live
    BY <2>1 DEF PushInv, SomebodyIsAtIt
  <2>3. QED
    BY <1>3, <2>1, <2>2
<1>8. QED
  BY <1>4, <1>5, <1>6, <1>7 DEF PushInv

LEMMA RotateKeeps ==
    ASSUME PushInv, PushAssumption, NEW held \in BOOLEAN, Rotate(held)
    PROVE  PushInv'
<1> USE TypesOfAll
<1>1. UNCHANGED <<tab, fanout>> /\ used' = used + 1 /\ live' = used + 1
  BY DEF Rotate
<1>2. live' \in Endpoint
  BY <1>1 DEF Rotate, Fresh
<1>3. used' \in Nat /\ used <= used' /\ live' <= used'
  BY <1>1
<1>4. \A f \in Fanout : \A s \in fanout[f] : s.came = "gone" => s.e # live'
  BY <1>1, GoneStaysGone
<1>5. /\ subs' \in [Endpoint -> SubRow] /\ born' \in Nat
      /\ subs'[live'].id # 0 \/ live' \in broken'
      /\ RowsAreNumbered' /\ SendingsAreTrue' /\ \A g \in Endpoint : subs'[g].id # 0 => g <= used'
  <2>1. CASE Upsert(live', "nobody")
    <3>1. PICK e \in Endpoint : e = live'
      BY <1>2
    <3>2. Upsert(e, "nobody")
      BY <2>1, <3>1 DEF Upsert
    <3>3. subs' \in [Endpoint -> SubRow] /\ born' \in Nat /\ subs'[e].id # 0
      BY <3>2, UpsertNumbers
    <3>4. RowsAreNumbered' /\ SendingsAreTrue' /\ \A g \in Endpoint : subs'[g].id # 0 => g <= used'
      BY <1>1, <1>3, <1>4, <3>1, <3>2, UpsertKeeps
    <3>5. QED
      BY <3>1, <3>3, <3>4
  <2>2. CASE ~held
    <3>1. UNCHANGED <<subs, born>> /\ live' \in broken'
      BY <2>2 DEF Rotate
    <3>2. RowsAreNumbered' /\ SendingsAreTrue' /\ \A g \in Endpoint : subs'[g].id # 0 => g <= used'
      BY <1>1, <1>3, <1>4, <3>1, RowsStand
    <3>3. born \in Nat
      BY DEF PushInv, PushTyped
    <3>4. QED
      BY <3>1, <3>2, <3>3
  <2>3. QED
    BY <2>1, <2>2 DEF Rotate
<1>6. PushTyped'
  BY <1>1, <1>2, <1>3, <1>5 DEF PushInv, PushTyped
<1>7. InOrder'
  <2>1. \A o \in Tab : tab'[o].e <= used'
    <3>1. SUFFICES ASSUME NEW o \in Tab
                   PROVE  tab[o].e <= used + 1
      BY <1>1
    <3>2. tab[o].e \in Endpoint \cup {0} /\ tab[o].e <= used
      OBVIOUS
    <3>3. Endpoint \cup {0} \subseteq Nat
      BY DEF PushAssumption
    <3>4. tab[o].e \in Nat
      BY <3>2, <3>3
    <3>5. QED
      BY <3>2, <3>4
  <2>2. QED
    BY <1>3, <1>5, <2>1 DEF InOrder
<1>8. SomebodyIsAtIt'
  BY <1>5 DEF SomebodyIsAtIt
<1>9. QED
  BY <1>5, <1>6, <1>7, <1>8 DEF PushInv

\* Deliveries are made by the rows there are, and only what is in use is served.
LEMMA SendOutKeeps ==
    ASSUME PushInv, PushAssumption, NEW f \in Fanout, SendOut(f)
    PROVE  PushInv'
<1> USE TypesOfAll
<1>1. UNCHANGED <<live, used, born, subs, tab, broken>>
  BY DEF SendOut
<1>2. PICK came \in [{e \in Endpoint : subs[e].id # 0} -> {"sent", "gone", "failed"}] :
          /\ \A e \in {g \in Endpoint : subs[g].id # 0} : came[e] \in Outcomes(e)
          /\ fanout' = [fanout EXCEPT ![f] =
                 {[e |-> e, id |-> subs[e].id, came |-> came[e]] : e \in {g \in Endpoint : subs[g].id # 0}}]
  BY DEF SendOut
<1> DEFINE sends == {[e |-> e, id |-> subs[e].id, came |-> came[e]] : e \in {g \in Endpoint : subs[g].id # 0}}
<1>3. ASSUME NEW s \in sends
      PROVE  /\ s \in Sending /\ s.id \in 1..born /\ s.e <= used
             /\ s.came = "gone" => s.e # live
             /\ \A g \in Endpoint : subs[g].id = s.id => g = s.e
  <2>1. PICK e \in Endpoint : subs[e].id # 0 /\ s = [e |-> e, id |-> subs[e].id, came |-> came[e]]
    OBVIOUS
  <2>2. came[e] \in {"sent", "gone", "failed"} /\ came[e] \in Outcomes(e)
    BY <1>2, <2>1
  <2>3. subs[e].id \in Nat /\ e <= used
    BY <2>1
  <2>4. subs[e].id <= born /\ born \in Nat
    BY DEF PushInv, RowsAreNumbered, PushTyped
  <2>5. \A g \in Endpoint : subs[g].id = subs[e].id => g = e
    BY <2>1 DEF PushInv, RowsAreNumbered
  <2>6. s.e = e /\ s.id = subs[e].id /\ s.came = came[e]
    BY <2>1
  <2>7. s \in Sending
    BY <2>1, <2>2, <2>3 DEF Sending
  <2>8. s.came = "gone" => s.e # live
    BY <2>2, <2>6 DEF Outcomes
  <2>9. s.id \in 1..born
    BY <2>1, <2>3, <2>4, <2>6
  <2>10. QED
    BY <2>3, <2>5, <2>6, <2>7, <2>8, <2>9
<1>4. fanout' = [fanout EXCEPT ![f] = sends]
  BY <1>2
<1>5. fanout \in [Fanout -> SUBSET Sending]
  BY DEF PushInv, PushTyped
<1> HIDE DEF sends
<1>6. fanout' \in [Fanout -> SUBSET Sending]
  BY <1>3, <1>4, <1>5
<1>7. SendingsAreTrue'
  <2>1. ASSUME NEW o \in Fanout, NEW s \in fanout'[o]
        PROVE  /\ s.id \in 1..born /\ s.e <= used
               /\ s.came = "gone" => s.e # live
               /\ \A g \in Endpoint : subs[g].id = s.id => g = s.e
    <3>1. CASE o = f
      BY <1>3, <1>4, <1>5, <3>1
    <3>2. CASE o # f
      <4>1. s \in fanout[o]
        BY <1>4, <1>5, <3>2
      <4>2. QED
        BY <4>1 DEF PushInv, SendingsAreTrue
    <3>3. QED
      BY <3>1, <3>2
  <2>2. QED
    BY <1>1, <2>1 DEF SendingsAreTrue
<1>8. PushTyped'
  BY <1>1, <1>6 DEF PushInv, PushTyped
<1>9. InOrder' /\ RowsAreNumbered' /\ SomebodyIsAtIt'
  BY <1>1 DEF PushInv, InOrder, RowsAreNumbered, SomebodyIsAtIt
<1>10. QED
  BY <1>7, <1>8, <1>9 DEF PushInv

\* Tidying up drops no row that is in use, for no delivery found it gone.
LEMMA TidyKeeps ==
    ASSUME PushInv, PushAssumption, NEW f \in Fanout, Tidy(f)
    PROVE  PushInv'
<1> USE TypesOfAll
<1>1. /\ UNCHANGED <<live, used, born, tab, broken>>
      /\ fanout' = [fanout EXCEPT ![f] = {}]
      /\ subs' = [e \in Endpoint |-> IF subs[e].id = 0 THEN NoRow ELSE Tidied(subs[e], fanout[f])]
  BY DEF Tidy
<1>2. NoRow \in SubRow /\ NoRow.id = 0
  BY DEF NoRow, SubRow
<1>3. ASSUME NEW one \in SubRow, NEW sends
      PROVE  Tidied(one, sends) \in SubRow /\ Tidied(one, sends).id \in {0, one.id}
  <2>1. \A v \in {"no", "once"} : [one EXCEPT !.failed = v] \in SubRow /\ [one EXCEPT !.failed = v].id = one.id
    BY DEF SubRow
  <2>2. QED
    BY <1>2, <2>1 DEF Tidied
<1>4. ASSUME NEW e \in Endpoint
      PROVE  subs'[e] \in SubRow /\ subs'[e].id \in {0, subs[e].id}
  <2>1. subs[e] \in SubRow
    OBVIOUS
  <2>2. QED
    BY <1>1, <1>2, <1>3, <2>1
<1>5. fanout \in [Fanout -> SUBSET Sending]
  BY DEF PushInv, PushTyped
<1>6. fanout' \in [Fanout -> SUBSET Sending] /\ \A o \in Fanout : fanout'[o] \in {fanout[o], {}}
  BY <1>1, <1>5
<1>7. subs' \in [Endpoint -> SubRow]
  BY <1>1, <1>4
<1>8. RowsAreNumbered' /\ SendingsAreTrue' /\ \A g \in Endpoint : subs'[g].id # 0 => g <= used'
  BY <1>1, <1>4, <1>6, <1>7, GoneStaysGone, RowsGo
<1>9. PushTyped'
  BY <1>1, <1>6, <1>7 DEF PushInv, PushTyped
<1>10. InOrder'
  BY <1>1, <1>8 DEF PushInv, InOrder
<1>11. SomebodyIsAtIt'
  <2>1. SUFFICES ASSUME live \in Endpoint, subs[live].id # 0
                 PROVE  subs'[live].id # 0
    BY <1>1 DEF PushInv, SomebodyIsAtIt
  <2>2. ~\E s \in fanout[f] : s.id = subs[live].id /\ s.came = "gone"
    <3>1. SUFFICES ASSUME NEW s \in fanout[f], s.id = subs[live].id, s.came = "gone"
                   PROVE  FALSE
      OBVIOUS
    <3>2. s.e # live
      BY <3>1 DEF PushInv, SendingsAreTrue
    <3>3. \A g \in Endpoint : subs[g].id = s.id => g = s.e
      BY DEF PushInv, SendingsAreTrue
    <3>4. QED
      BY <2>1, <3>1, <3>2, <3>3
  <2>3. subs[live] \in SubRow
    BY <2>1
  <2>4. \A v \in {"no", "once"} : [subs[live] EXCEPT !.failed = v].id = subs[live].id
    BY <2>3 DEF SubRow
  <2>5. Tidied(subs[live], fanout[f]).id = subs[live].id
    BY <2>2, <2>4 DEF Tidied
  <2>6. subs'[live] = Tidied(subs[live], fanout[f])
    BY <1>1, <2>1
  <2>7. QED
    BY <2>1, <2>5, <2>6
<1>12. QED
  BY <1>8, <1>9, <1>10, <1>11 DEF PushInv

\* A row of which nothing was heard for a month, and one that is purged.
LEMMA TimeKeeps ==
    ASSUME PushInv, PushAssumption, MonthPasses \/ Purge
    PROVE  PushInv'
<1> USE TypesOfAll
<1>1. UNCHANGED <<live, used, born, tab, fanout>>
  BY DEF MonthPasses, Purge
<1>2. NoRow \in SubRow /\ NoRow.id = 0
  BY DEF NoRow, SubRow
<1>3. ASSUME NEW one \in SubRow
      PROVE  [one EXCEPT !.failed = "a month"] \in SubRow /\ [one EXCEPT !.failed = "a month"].id = one.id
  BY DEF SubRow
<1>4. /\ subs' \in [Endpoint -> SubRow] /\ broken \subseteq broken'
      /\ \A e \in Endpoint : subs'[e].id \in {0, subs[e].id} /\ (subs'[e].id # subs[e].id => e \in broken')
  <2>1. CASE MonthPasses
    <3>1. subs' = [e \in Endpoint |-> IF subs[e].failed = "once" THEN [subs[e] EXCEPT !.failed = "a month"] ELSE subs[e]]
      BY <2>1 DEF MonthPasses
    <3>2. \A e \in Endpoint : subs'[e] \in SubRow /\ subs'[e].id = subs[e].id
      BY <1>3, <3>1
    <3>3. QED
      BY <2>1, <3>1, <3>2 DEF MonthPasses
  <2>2. CASE Purge
    <3>1. PICK lost : /\ subs' = [e \in Endpoint |-> IF e \in lost THEN NoRow ELSE subs[e]]
                      /\ broken' = broken \cup lost
      BY <2>2 DEF Purge
    <3>2. QED
      BY <1>2, <3>1
  <2>3. QED
    BY <2>1, <2>2
<1>5. RowsAreNumbered' /\ SendingsAreTrue' /\ \A g \in Endpoint : subs'[g].id # 0 => g <= used'
  BY <1>1, <1>4, GoneStaysGone, RowsGo
<1>6. PushTyped'
  BY <1>1, <1>4 DEF PushInv, PushTyped
<1>7. InOrder'
  BY <1>1, <1>5 DEF PushInv, InOrder
<1>8. SomebodyIsAtIt'
  BY <1>1, <1>4 DEF PushInv, SomebodyIsAtIt
<1>9. QED
  BY <1>5, <1>6, <1>7, <1>8 DEF PushInv

LEMMA PushStep == PushInv /\ [PushNext]_pushVars => PushInv'
<1> SUFFICES ASSUME PushInv, [PushNext]_pushVars
             PROVE  PushInv'
  OBVIOUS
<1> USE PushAssumption
<1>1. ASSUME NEW t \in Tab, LoadTab(t) \/ Disable(t) \/ DisableFails(t)
      PROVE  PushInv'
  BY <1>1, TabOnlyKeeps
<1>2. ASSUME NEW t \in Tab, Enable(t)
      PROVE  PushInv'
  BY <1>2, EnableKeeps
<1>3. ASSUME NEW t \in Tab, Subscribe(t) \/ SubscribeFails(t)
      PROVE  PushInv'
  BY <1>3, SubscribeKeeps
<1>4. ASSUME NEW t \in Tab, DeleteRow(t)
      PROVE  PushInv'
  BY <1>4, DeleteRowKeeps
<1>5. ASSUME NEW t \in Tab, Unsubscribe(t)
      PROVE  PushInv'
  BY <1>5, UnsubscribeKeeps
<1>6. ASSUME NEW held \in BOOLEAN, Rotate(held)
      PROVE  PushInv'
  BY <1>6, RotateKeeps
<1>7. ASSUME NEW f \in Fanout, SendOut(f)
      PROVE  PushInv'
  BY <1>7, SendOutKeeps
<1>8. ASSUME NEW f \in Fanout, Tidy(f)
      PROVE  PushInv'
  BY <1>8, TidyKeeps
<1>9. CASE MonthPasses \/ Purge
  BY <1>9, TimeKeeps
<1>10. CASE UNCHANGED pushVars
  BY <1>10 DEF pushVars, PushInv, PushTyped, InOrder, RowsAreNumbered, SendingsAreTrue, SomebodyIsAtIt
<1>11. QED
  BY <1>1, <1>2, <1>3, <1>4, <1>5, <1>6, <1>7, <1>8, <1>9, <1>10 DEF PushNext

LEMMA PushInvariance == PushSpec => []PushInv
BY PushStart, PushStep, PTL DEF PushSpec

LEMMA ReachedByRow == PushInv => SubscribedIsReached
BY DEF PushInv, SomebodyIsAtIt, SubscribedIsReached, InTab

\* enable, disable and the worker of sw.js change two systems in turn: a
\* browser at rest that is subscribed has a row, whatever was sent out and
\* tidied up meanwhile (lib/push.ts) and in whatever order its tabs worked.
THEOREM SubscribersAreReached == PushSpec => []SubscribedIsReached
BY PushInvariance, ReachedByRow, PTL

LEMMA PushTypesStay == PushSpec => []PushTypeOK
<1>1. PushInv => PushTypeOK
  BY DEF PushInv, PushTyped, PushTypeOK, TabRow
<1>2. QED
  BY <1>1, PushInvariance, PTL

---------------------------------------------------------------------------
(* Engagement: likes and bookmarks                                       *)

Button == [shows : BOOLEAN, before : BOOLEAN, pc : {"idle", "find", "write", "answer", "thrown"},
           found : Nat, active : BOOLEAN]

Deciding == {p \in Page : button[p].pc \in {"find", "write"}}

ButtonsTyped ==
    /\ kind \in Kinds /\ marks \subseteq 1..(PressBound + 1) /\ presses \in 0..PressBound
    /\ button \in [Page -> Button] /\ freshest \in Page /\ met \in BOOLEAN /\ ignored \in BOOLEAN

\* Every row came of a press, so there is a number left for the next.
PressesSuffice ==
    IsFiniteSet(Deciding) /\ Cardinality(marks) + Cardinality(Deciding) <= presses

\* A like has its key, and what does not meet another request counts once.
OneMark == kind = "like" \/ ~met => \A a, b \in marks : a = b

\* A request that is alone finds what is stored, and it stays so.
AloneIsRight ==
    ~met =>
        /\ \A p, q \in UnderWay : p = q
        /\ \A p \in Page : button[p].pc = "write" =>
               IF marks = {} THEN button[p].found = 0 ELSE button[p].found \in marks
        /\ \A p \in Page : button[p].pc = "answer" => (button[p].active <=> marks # {})

\* The page that was answered last shows what is stored, or goes back to it
\* when it is refused.
FreshestShows ==
    ~met /\ ~ignored =>
        /\ UnderWay = {} => (button[freshest].shows <=> marks # {})
        /\ \A p \in Page : button[p].pc = "find" =>
               IF p = freshest THEN button[p].before <=> marks # {}
               ELSE button[freshest].shows <=> marks # {}

EngagementInv == ButtonsTyped /\ PressesSuffice /\ OneMark /\ AloneIsRight /\ FreshestShows

LEMMA EngagementStart == EngagementInit => EngagementInv
<1> SUFFICES ASSUME EngagementInit
             PROVE  EngagementInv
  OBVIOUS
<1>1. /\ kind \in Kinds /\ marks = {} /\ presses = 0 /\ met = FALSE /\ ignored = FALSE
      /\ freshest \in Page /\ button = [p \in Page |-> AtRest]
  BY DEF EngagementInit
<1>2. AtRest \in Button /\ AtRest.pc = "idle" /\ AtRest.shows = FALSE
  BY DEF AtRest, Button
<1>3. ButtonsTyped
  <2>1. presses \in 0..PressBound
    BY <1>1, EngagementAssumption
  <2>2. button \in [Page -> Button]
    BY <1>1, <1>2
  <2>3. QED
    BY <1>1, <2>1, <2>2 DEF ButtonsTyped
<1>4. \A p \in Page : button[p].pc = "idle" /\ button[p].shows = FALSE
  BY <1>1, <1>2
<1>5. Deciding = {} /\ UnderWay = {}
  BY <1>4 DEF Deciding, UnderWay
<1>6. PressesSuffice
  BY <1>1, <1>5, FS_EmptySet DEF PressesSuffice
<1>7. OneMark /\ AloneIsRight
  BY <1>1, <1>4, <1>5 DEF OneMark, AloneIsRight
<1>8. FreshestShows
  BY <1>1, <1>4 DEF FreshestShows
<1>9. QED
  BY <1>3, <1>6, <1>7, <1>8 DEF EngagementInv

\* One page changes, and no other.
LEMMA OnePageChanges ==
    ASSUME EngagementInv, NEW p \in Page, NEW b \in Button, Change(p, b)
    PROVE  /\ button' \in [Page -> Button] /\ button'[p] = b
           /\ \A q \in Page \ {p} : button'[q] = button[q]
<1>1. button \in [Page -> Button]
  BY DEF EngagementInv, ButtonsTyped
<1>2. button' = [button EXCEPT ![p] = b]
  BY DEF Change
<1>3. QED
  BY <1>1, <1>2

\* Who has decided, or gives up, is one less; who presses is one more.
LEMMA DecidingCounted ==
    ASSUME EngagementInv, NEW p \in Page, NEW b \in Button, Change(p, b)
    PROVE  /\ IsFiniteSet(Deciding) /\ IsFiniteSet(Deciding') /\ IsFiniteSet(marks)
           /\ Cardinality(marks) \in Nat /\ Cardinality(Deciding) \in Nat /\ Cardinality(Deciding') \in Nat
           /\ Cardinality(Deciding') <= Cardinality(Deciding) + 1
           /\ p \in Deciding => Cardinality(Deciding') <= Cardinality(Deciding)
           /\ p \in Deciding /\ b.pc \notin {"find", "write"} => Cardinality(Deciding') = Cardinality(Deciding) - 1
           /\ b.pc \notin {"find", "write"} => Cardinality(Deciding') <= Cardinality(Deciding)
<1>1. IsFiniteSet(Deciding) /\ marks \subseteq 1..(PressBound + 1)
  BY DEF EngagementInv, PressesSuffice, ButtonsTyped
<1>2. IsFiniteSet(marks)
  <2>1. IsFiniteSet(1..(PressBound + 1))
    BY EngagementAssumption, FS_Interval
  <2>2. QED
    BY <1>1, <2>1, FS_Subset
<1>3. button'[p] = b /\ \A q \in Page \ {p} : button'[q] = button[q]
  BY OnePageChanges
<1>4. Cardinality(marks) \in Nat /\ Cardinality(Deciding) \in Nat
  BY <1>1, <1>2, FS_CardinalityType
<1>5. CASE b.pc \in {"find", "write"}
  <2>1. Deciding' = Deciding \cup {p}
    BY <1>3, <1>5 DEF Deciding
  <2>2. /\ IsFiniteSet(Deciding')
        /\ Cardinality(Deciding') = IF p \in Deciding THEN Cardinality(Deciding) ELSE Cardinality(Deciding) + 1
    BY <1>1, <2>1, FS_AddElement
  <2>3. QED
    BY <1>1, <1>2, <1>4, <1>5, <2>2
<1>6. CASE b.pc \notin {"find", "write"}
  <2>1. Deciding' = Deciding \ {p}
    BY <1>3, <1>6 DEF Deciding
  <2>2. /\ IsFiniteSet(Deciding')
        /\ Cardinality(Deciding') = IF p \in Deciding THEN Cardinality(Deciding) - 1 ELSE Cardinality(Deciding)
    BY <1>1, <2>1, FS_RemoveElement
  <2>3. Cardinality(Deciding') \in Nat
    BY <2>2, FS_CardinalityType
  <2>4. QED
    BY <1>1, <1>2, <1>4, <1>6, <2>2, <2>3
<1>7. QED
  BY <1>5, <1>6

LEMMA PressKeeps ==
    ASSUME EngagementInv, NEW p \in Page, PressButton(p)
    PROVE  EngagementInv'
<1>1. UNCHANGED <<kind, marks, freshest, ignored>> /\ presses' = presses + 1 /\ presses < PressBound
      /\ button[p].pc = "idle" /\ met' = (met \/ UnderWay # {})
  BY DEF PressButton
<1>2. button[p] \in Button
  BY DEF EngagementInv, ButtonsTyped
<1>3. PICK b \in Button :
          Change(p, b) /\ b.pc = "find" /\ b.before = button[p].shows
  <2> DEFINE b == [button[p] EXCEPT !.pc = "find", !.before = button[p].shows,
                      !.shows = IF kind = "report" THEN button[p].shows ELSE ~button[p].shows]
  <2>1. Change(p, b)
    BY DEF PressButton
  <2>2. button[p].shows \in BOOLEAN
    BY <1>2 DEF Button
  <2>3. b \in Button
    BY <1>2, <2>2 DEF Button
  <2>4. b.pc = "find" /\ b.before = button[p].shows
    BY <1>2 DEF Button
  <2>5. QED
    BY <2>1, <2>3, <2>4
<1>4. button' \in [Page -> Button] /\ button'[p] = b /\ \A q \in Page \ {p} : button'[q] = button[q]
  BY <1>3, OnePageChanges
<1>5. ButtonsTyped'
  BY <1>1, <1>4, EngagementAssumption DEF EngagementInv, ButtonsTyped
<1>6. PressesSuffice'
  <2>1. presses \in Nat
    BY DEF EngagementInv, ButtonsTyped
  <2>2. Cardinality(marks) + Cardinality(Deciding) <= presses
    BY DEF EngagementInv, PressesSuffice
  <2>3. QED
    BY <1>1, <1>3, <2>1, <2>2, DecidingCounted DEF PressesSuffice
<1>7. OneMark'
  BY <1>1 DEF EngagementInv, OneMark
<1>8. ~met' => UnderWay = {} /\ UnderWay' = {p} /\ ~met
  BY <1>1, <1>4, <1>3 DEF UnderWay
<1>9. AloneIsRight'
  BY <1>1, <1>4, <1>3, <1>8 DEF AloneIsRight, UnderWay
<1>10. FreshestShows'
  <2>1. SUFFICES ASSUME ~met', ~ignored'
                 PROVE  /\ UnderWay' # {}
                        /\ \A q \in Page : button'[q].pc = "find" =>
                               IF q = freshest THEN button'[q].before <=> marks # {}
                               ELSE button'[freshest].shows <=> marks # {}
    BY <1>1 DEF FreshestShows
  <2>2. button[freshest].shows <=> marks # {}
    BY <1>1, <1>8, <2>1 DEF EngagementInv, FreshestShows
  <2>3. UnderWay' = {p}
    BY <1>8, <2>1
  <2>4. \A q \in Page : button'[q].pc = "find" => q = p
    BY <2>3 DEF UnderWay
  <2>5. CASE p = freshest
    <3>1. button'[p].before = button[freshest].shows
      BY <1>4, <1>3, <2>5
    <3>2. QED
      BY <2>2, <2>3, <2>4, <2>5, <3>1
  <2>6. CASE p # freshest
    <3>1. button'[freshest] = button[freshest]
      BY <1>4, <2>6 DEF EngagementInv, ButtonsTyped
    <3>2. QED
      BY <2>2, <2>3, <2>4, <2>6, <3>1
  <2>7. QED
    BY <2>5, <2>6
<1>11. QED
  BY <1>5, <1>6, <1>7, <1>9, <1>10 DEF EngagementInv

\* Whatever a page hears of its request, the rows are as they were.
LEMMA HearingKeeps ==
    ASSUME EngagementInv, NEW p \in Page, NEW b \in Button, Change(p, b),
           UNCHANGED <<kind, marks, presses, met>>, freshest' \in Page, ignored' \in BOOLEAN,
           p \in Deciding \/ b.pc \notin {"find", "write"}
    PROVE  ButtonsTyped' /\ PressesSuffice' /\ OneMark'
<1>1. button' \in [Page -> Button]
  BY OnePageChanges
<1>2. ButtonsTyped'
  BY <1>1 DEF EngagementInv, ButtonsTyped
<1>3. PressesSuffice'
  <2>1. presses \in Nat
    BY DEF EngagementInv, ButtonsTyped
  <2>2. Cardinality(marks) + Cardinality(Deciding) <= presses
    BY DEF EngagementInv, PressesSuffice
  <2>3. IsFiniteSet(Deciding') /\ Cardinality(Deciding') <= Cardinality(Deciding)
    BY DecidingCounted
  <2>4. Cardinality(marks) \in Nat /\ Cardinality(Deciding) \in Nat /\ Cardinality(Deciding') \in Nat
    BY DecidingCounted
  <2>5. Cardinality(marks)' = Cardinality(marks) /\ presses' = presses
    OBVIOUS
  <2>6. QED
    BY <2>1, <2>2, <2>3, <2>4, <2>5 DEF PressesSuffice
<1>4. OneMark'
  BY DEF EngagementInv, OneMark
<1>5. QED
  BY <1>2, <1>3, <1>4

LEMMA RefusedKeeps ==
    ASSUME EngagementInv, NEW p \in Page, Refused(p)
    PROVE  EngagementInv'
<1>1. UNCHANGED <<kind, marks, presses, freshest, met>> /\ ignored' = (ignored \/ kind = "report")
      /\ button[p].pc = "find"
  BY DEF Refused
<1>2. button[p] \in Button /\ button \in [Page -> Button] /\ freshest \in Page
  BY DEF EngagementInv, ButtonsTyped
<1>3. PICK b \in Button : Change(p, b) /\ b.pc = "idle" /\ (kind # "report" => b.shows = button[p].before)
  <2> DEFINE b == [button[p] EXCEPT !.pc = "idle", !.shows = IF kind = "report" THEN TRUE ELSE button[p].before]
  <2>1. Change(p, b)
    BY DEF Refused, TakeBack
  <2>2. button[p].before \in BOOLEAN
    BY <1>2 DEF Button
  <2>3. b \in Button
    BY <1>2, <2>2 DEF Button
  <2>4. b.pc = "idle" /\ (kind # "report" => b.shows = button[p].before)
    BY <1>2 DEF Button
  <2>5. QED
    BY <2>1, <2>3, <2>4
<1>4. button' \in [Page -> Button] /\ button'[p] = b /\ \A q \in Page \ {p} : button'[q] = button[q]
  BY <1>3, OnePageChanges
<1>5. ButtonsTyped' /\ PressesSuffice' /\ OneMark'
  <2>1. freshest' \in Page /\ ignored' \in BOOLEAN
    BY <1>1, <1>2
  <2>2. UNCHANGED <<kind, marks, presses, met>>
    BY <1>1
  <2>3. QED
    BY <1>3, <2>1, <2>2, HearingKeeps
<1>6. \A q \in Page : button'[q].pc # "idle" => q # p /\ button'[q] = button[q] /\ button[q].pc # "idle"
  BY <1>3, <1>4
<1>7. ~met => UnderWay' = {}
  BY <1>1, <1>6 DEF EngagementInv, AloneIsRight, UnderWay
<1>8. AloneIsRight'
  BY <1>1, <1>7 DEF AloneIsRight, UnderWay
<1>9. FreshestShows'
  <2>1. SUFFICES ASSUME ~met, ~ignored, kind # "report"
                 PROVE  (button'[freshest].shows <=> marks # {}) /\ UnderWay' = {}
    BY <1>1 DEF FreshestShows, UnderWay
  <2>2. IF p = freshest THEN button[p].before <=> marks # {} ELSE button[freshest].shows <=> marks # {}
    BY <1>1, <2>1 DEF EngagementInv, FreshestShows
  <2>3. CASE p = freshest
    BY <1>3, <1>4, <1>7, <2>1, <2>2, <2>3
  <2>4. CASE p # freshest
    BY <1>2, <1>4, <1>7, <2>1, <2>2, <2>4
  <2>5. QED
    BY <2>3, <2>4
<1>10. QED
  BY <1>5, <1>8, <1>9 DEF EngagementInv

LEMMA FindKeeps ==
    ASSUME EngagementInv, NEW p \in Page, Find(p)
    PROVE  EngagementInv'
<1>1. UNCHANGED <<kind, marks, presses, freshest, met, ignored>> /\ button[p].pc = "find"
  BY DEF Find
<1>2. button[p] \in Button /\ button \in [Page -> Button] /\ freshest \in Page
  BY DEF EngagementInv, ButtonsTyped
<1>3. PICK b \in Button : /\ Change(p, b) /\ b.pc = "write"
                          /\ IF marks = {} THEN b.found = 0 ELSE b.found \in marks
  <2>1. PICK id \in IF marks = {} THEN {0} ELSE marks :
            Change(p, [button[p] EXCEPT !.pc = "write", !.found = id])
    BY DEF Find
  <2>2. id \in Nat
    BY <2>1, EngagementAssumption DEF EngagementInv, ButtonsTyped
  <2>3. [button[p] EXCEPT !.pc = "write", !.found = id] \in Button
    BY <1>2, <2>2 DEF Button
  <2>4. /\ [button[p] EXCEPT !.pc = "write", !.found = id].pc = "write"
        /\ [button[p] EXCEPT !.pc = "write", !.found = id].found = id
    BY <1>2 DEF Button
  <2>5. QED
    BY <2>1, <2>3, <2>4
<1>4. button' \in [Page -> Button] /\ button'[p] = b /\ \A q \in Page \ {p} : button'[q] = button[q]
  BY <1>3, OnePageChanges
<1>5. ButtonsTyped' /\ PressesSuffice' /\ OneMark'
  <2>1. freshest' \in Page /\ ignored' \in BOOLEAN /\ p \in Deciding
    BY <1>1, <1>2 DEF EngagementInv, ButtonsTyped, Deciding
  <2>2. UNCHANGED <<kind, marks, presses, met>>
    BY <1>1
  <2>3. QED
    BY <1>3, <2>1, <2>2, HearingKeeps
<1>6. p \in UnderWay /\ p \in UnderWay' /\ UnderWay' = UnderWay
  BY <1>1, <1>3, <1>4 DEF UnderWay
<1>7. ~met => \A q \in Page : button'[q].pc # "idle" => q = p
  BY <1>6 DEF EngagementInv, AloneIsRight, UnderWay
<1>8. AloneIsRight'
  BY <1>1, <1>3, <1>4, <1>6, <1>7 DEF EngagementInv, AloneIsRight
<1>9. FreshestShows'
  BY <1>1, <1>3, <1>4, <1>6, <1>7 DEF FreshestShows
<1>10. QED
  BY <1>5, <1>8, <1>9 DEF EngagementInv

\* With a press to spare there is a number to spare.
LEMMA NumberIsNew ==
    ASSUME EngagementInv, NEW p \in Page, button[p].pc = "write"
    PROVE  NewMark \in 1..(PressBound + 1) /\ NewMark \notin marks
<1>1. IsFiniteSet(1..(PressBound + 1)) /\ Cardinality(1..(PressBound + 1)) = PressBound + 1
  BY EngagementAssumption, FS_Interval
<1>2. marks \subseteq 1..(PressBound + 1) /\ presses \in 0..PressBound
  BY DEF EngagementInv, ButtonsTyped
<1>3. IsFiniteSet(marks) /\ Cardinality(marks) \in Nat
  BY <1>1, <1>2, FS_Subset, FS_CardinalityType
<1>4. IsFiniteSet(Deciding) /\ Cardinality(marks) + Cardinality(Deciding) <= presses
  BY DEF EngagementInv, PressesSuffice
<1>5. Cardinality(Deciding) \in Nat
  BY <1>4, FS_CardinalityType
<1>6. marks # 1..(PressBound + 1)
  BY <1>1, <1>2, <1>3, <1>4, <1>5, EngagementAssumption
<1>7. \E k \in 1..(PressBound + 1) : k \notin marks
  BY <1>2, <1>6
<1>8. QED
  BY <1>7 DEF NewMark

\* A like is made when there is none, and what was found is deleted.
LEMMA WriteKeeps ==
    ASSUME EngagementInv, NEW p \in Page, Write(p)
    PROVE  EngagementInv'
<1>1. UNCHANGED <<kind, presses, freshest, met, ignored>> /\ button[p].pc = "write" /\ ~Impossible(button[p])
  BY DEF Write
<1>2. button[p] \in Button /\ button \in [Page -> Button] /\ freshest \in Page
  BY DEF EngagementInv, ButtonsTyped
<1>3. marks' = IF button[p].found = 0 THEN marks \cup {NewMark}
               ELSE IF kind = "report" THEN marks ELSE marks \ {button[p].found}
  BY DEF Write
<1>4. PICK b \in Button : /\ Change(p, b) /\ b.pc = "answer"
                          /\ b.active = (button[p].found = 0 \/ kind = "report")
  <2> DEFINE b == [button[p] EXCEPT !.pc = "answer", !.active = (button[p].found = 0 \/ kind = "report")]
  <2>1. Change(p, b)
    BY DEF Write
  <2>2. b \in Button
    BY <1>2 DEF Button
  <2>3. b.pc = "answer" /\ b.active = (button[p].found = 0 \/ kind = "report")
    BY <1>2 DEF Button
  <2>4. QED
    BY <2>1, <2>2, <2>3
<1>5. button' \in [Page -> Button] /\ button'[p] = b /\ \A q \in Page \ {p} : button'[q] = button[q]
  BY <1>4, OnePageChanges
<1>6. NewMark \in 1..(PressBound + 1) /\ NewMark \notin marks
  BY <1>1, NumberIsNew
<1>7. ButtonsTyped'
  <2>1. marks \subseteq 1..(PressBound + 1)
    BY DEF EngagementInv, ButtonsTyped
  <2>2. marks' \subseteq 1..(PressBound + 1)
    BY <1>3, <1>6, <2>1
  <2>3. QED
    BY <1>1, <1>5, <2>2 DEF EngagementInv, ButtonsTyped
<1>8. PressesSuffice'
  <2>1. /\ IsFiniteSet(marks) /\ Cardinality(marks) \in Nat
        /\ IsFiniteSet(Deciding') /\ Cardinality(Deciding) \in Nat
        /\ Cardinality(Deciding') = Cardinality(Deciding) - 1
    BY <1>1, <1>4, DecidingCounted DEF Deciding
  <2>2. Cardinality(marks') \in Nat /\ Cardinality(marks') <= Cardinality(marks) + 1
    <3>1. CASE marks' = marks \cup {NewMark}
      <4>1. Cardinality(marks \cup {NewMark}) = Cardinality(marks) + 1
        BY <1>6, <2>1, FS_AddElement
      <4>2. QED
        BY <2>1, <3>1, <4>1
    <3>2. CASE marks' = marks
      BY <2>1, <3>2
    <3>3. CASE marks' = marks \ {button[p].found}
      <4>1. IsFiniteSet(marks \ {button[p].found})
        BY <2>1, FS_RemoveElement
      <4>2. /\ Cardinality(marks \ {button[p].found}) \in Nat
            /\ Cardinality(marks \ {button[p].found}) <= Cardinality(marks)
        BY <2>1, <4>1, FS_CardinalityType, FS_Subset
      <4>3. QED
        BY <2>1, <3>3, <4>2
    <3>4. QED
      BY <1>3, <3>1, <3>2, <3>3
  <2>3. presses \in Nat /\ Cardinality(marks) + Cardinality(Deciding) <= presses
    BY DEF EngagementInv, ButtonsTyped, PressesSuffice
  <2>4. QED
    BY <1>1, <2>1, <2>2, <2>3 DEF PressesSuffice
<1>9. ~met => /\ \A q \in Page : button'[q].pc # "idle" => q = p
              /\ IF marks = {} THEN button[p].found = 0 ELSE button[p].found \in marks
  BY <1>1, <1>5 DEF EngagementInv, AloneIsRight, UnderWay
<1>10. 0 \notin marks
  BY EngagementAssumption DEF EngagementInv, ButtonsTyped
<1>11. OneMark'
  <2>1. SUFFICES ASSUME kind = "like" \/ ~met
                 PROVE  \A x, y \in marks' : x = y
    BY <1>1 DEF OneMark
  <2>2. \A x, y \in marks : x = y
    BY <2>1 DEF EngagementInv, OneMark
  <2>3. button[p].found = 0 => marks = {}
    BY <1>1, <1>9, <1>10, <2>1 DEF Impossible
  <2>4. QED
    BY <1>3, <2>2, <2>3
<1>12. AloneIsRight'
  <2>1. SUFFICES ASSUME ~met
                 PROVE  b.active <=> marks' # {}
    BY <1>1, <1>4, <1>5, <1>9 DEF AloneIsRight, UnderWay
  <2>2. \A x, y \in marks : x = y
    BY <2>1 DEF EngagementInv, OneMark
  <2>3. CASE button[p].found = 0
    BY <1>3, <1>4, <2>3
  <2>4. CASE button[p].found # 0 /\ kind = "report"
    BY <1>3, <1>4, <1>9, <2>1, <2>4
  <2>5. CASE button[p].found # 0 /\ kind # "report"
    <3>1. marks' = {}
      BY <1>3, <1>9, <2>1, <2>2, <2>5
    <3>2. QED
      BY <1>4, <2>5, <3>1
  <2>6. QED
    BY <2>3, <2>4, <2>5
<1>13. FreshestShows'
  BY <1>1, <1>4, <1>5, <1>9 DEF FreshestShows, UnderWay
<1>14. QED
  BY <1>7, <1>8, <1>11, <1>12, <1>13 DEF EngagementInv

LEMMA ThrowsKeeps ==
    ASSUME EngagementInv, NEW p \in Page, Throws(p)
    PROVE  EngagementInv'
<1>1. UNCHANGED <<kind, marks, presses, freshest, met, ignored>> /\ button[p].pc = "write" /\ Impossible(button[p])
  BY DEF Throws
<1>2. button[p] \in Button /\ button \in [Page -> Button] /\ freshest \in Page
  BY DEF EngagementInv, ButtonsTyped
<1>3. PICK b \in Button : Change(p, b) /\ b.pc = "thrown"
  <2>1. Change(p, [button[p] EXCEPT !.pc = "thrown"])
    BY DEF Throws
  <2>2. [button[p] EXCEPT !.pc = "thrown"] \in Button /\ [button[p] EXCEPT !.pc = "thrown"].pc = "thrown"
    BY <1>2 DEF Button
  <2>3. QED
    BY <2>1, <2>2
<1>4. ButtonsTyped' /\ PressesSuffice' /\ OneMark'
  <2>1. freshest' \in Page /\ ignored' \in BOOLEAN
    BY <1>1, <1>2 DEF EngagementInv, ButtonsTyped
  <2>2. UNCHANGED <<kind, marks, presses, met>>
    BY <1>1
  <2>3. QED
    BY <1>3, <2>1, <2>2, HearingKeeps
<1>5. met
  <2>1. SUFFICES ASSUME ~met
                 PROVE  FALSE
    BY DEF EngagementInv, ButtonsTyped
  <2>2. IF marks = {} THEN button[p].found = 0 ELSE button[p].found \in marks
    BY <1>1, <2>1 DEF EngagementInv, AloneIsRight
  <2>3. 0 \notin marks
    BY EngagementAssumption DEF EngagementInv, ButtonsTyped
  <2>4. QED
    BY <1>1, <2>2, <2>3 DEF Impossible
<1>6. AloneIsRight' /\ FreshestShows'
  BY <1>1, <1>5 DEF AloneIsRight, FreshestShows
<1>7. QED
  BY <1>4, <1>6 DEF EngagementInv

\* The page that is answered, or loaded, shows what is stored.
LEMMA ShowsAnew ==
    ASSUME EngagementInv, NEW p \in Page, NEW b \in Button, Change(p, b),
           UNCHANGED <<kind, marks, presses, met, ignored>>, freshest' = p,
           b.pc = "idle", ~met => (b.shows <=> marks # {})
    PROVE  EngagementInv'
<1>1. button' \in [Page -> Button] /\ button'[p] = b /\ \A q \in Page \ {p} : button'[q] = button[q]
  BY OnePageChanges
<1>2. ButtonsTyped' /\ PressesSuffice' /\ OneMark'
  <2>1. freshest' \in Page /\ ignored' \in BOOLEAN
    BY DEF EngagementInv, ButtonsTyped
  <2>2. QED
    BY <2>1, HearingKeeps
<1>3. \A q \in Page : button'[q].pc # "idle" => q # p /\ button'[q] = button[q] /\ button[q].pc # "idle"
  BY <1>1
<1>4. AloneIsRight'
  BY <1>3 DEF EngagementInv, AloneIsRight, UnderWay
<1>5. FreshestShows'
  BY <1>1, <1>3 DEF FreshestShows
<1>6. QED
  BY <1>2, <1>4, <1>5 DEF EngagementInv

LEMMA AnsweredKeeps ==
    ASSUME EngagementInv, NEW p \in Page, Answered(p)
    PROVE  EngagementInv'
<1>1. UNCHANGED <<kind, marks, presses, met, ignored>> /\ freshest' = p /\ button[p].pc = "answer"
  BY DEF Answered
<1>2. button[p] \in Button
  BY DEF EngagementInv, ButtonsTyped
<1>3. button[p].active \in BOOLEAN
  BY <1>2 DEF Button
<1> DEFINE b == [button[p] EXCEPT !.pc = "idle", !.shows = button[p].active]
<1>4. Change(p, b)
  BY DEF Answered
<1>5. b \in Button
  BY <1>2, <1>3 DEF Button
<1>6. b.pc = "idle" /\ b.shows = button[p].active
  BY <1>2 DEF Button
<1>7. ~met => (button[p].active <=> marks # {})
  BY <1>1 DEF EngagementInv, AloneIsRight
<1> HIDE DEF b
<1>8. QED
  BY <1>1, <1>4, <1>5, <1>6, <1>7, ShowsAnew

LEMMA ReloadKeeps ==
    ASSUME EngagementInv, NEW p \in Page, Reload(p)
    PROVE  EngagementInv'
<1>1. UNCHANGED <<kind, marks, presses, met, ignored>> /\ freshest' = p
  BY DEF Reload
<1> DEFINE b == [AtRest EXCEPT !.shows = (marks # {})]
<1>2. Change(p, b)
  BY DEF Reload
<1>3. b \in Button /\ b.pc = "idle" /\ b.shows = (marks # {})
  BY DEF AtRest, Button
<1> HIDE DEF b
<1>4. QED
  BY <1>1, <1>2, <1>3, ShowsAnew

LEMMA EngagementStep == EngagementInv /\ [EngagementNext]_engagementVars => EngagementInv'
<1> SUFFICES ASSUME EngagementInv, [EngagementNext]_engagementVars
             PROVE  EngagementInv'
  OBVIOUS
<1>1. ASSUME NEW p \in Page, PressButton(p) \/ Refused(p) \/ Find(p)
      PROVE  EngagementInv'
  BY <1>1, PressKeeps, RefusedKeeps, FindKeeps
<1>2. ASSUME NEW p \in Page, Write(p) \/ Throws(p)
      PROVE  EngagementInv'
  BY <1>2, WriteKeeps, ThrowsKeeps
<1>3. ASSUME NEW p \in Page, Answered(p) \/ Reload(p)
      PROVE  EngagementInv'
  BY <1>3, AnsweredKeeps, ReloadKeeps
<1>4. CASE UNCHANGED engagementVars
  BY <1>4 DEF engagementVars, EngagementInv, ButtonsTyped, PressesSuffice, OneMark, AloneIsRight,
              FreshestShows, Deciding, UnderWay
<1>5. QED
  BY <1>1, <1>2, <1>3, <1>4 DEF EngagementNext

LEMMA EngagementInvariance == EngagementSpec => []EngagementInv
BY EngagementStart, EngagementStep, PTL DEF EngagementSpec

LEMMA AtMostOne ==
    ASSUME NEW S, \A a, b \in S : a = b
    PROVE  Cardinality(S) <= 1
<1>1. CASE S = {}
  BY <1>1, FS_EmptySet
<1>2. ASSUME NEW a, S = {a}
      PROVE  Cardinality(S) <= 1
  <2>1. Cardinality({a}) = 1
    BY FS_Singleton
  <2>2. QED
    BY <1>2, <2>1
<1>3. S = {} \/ \E a : S = {a}
  OBVIOUS
<1>4. QED
  BY <1>1, <1>2, <1>3

LEMMA MarksAreOne == EngagementInv => CountedOnce
<1> SUFFICES ASSUME EngagementInv
             PROVE  CountedOnce
  OBVIOUS
<1>1. kind = "like" \/ ~met => Cardinality(marks) <= 1
  BY AtMostOne DEF EngagementInv, OneMark
<1>2. ASSUME ~met, ~ignored, UnderWay = {}
      PROVE  button[freshest].shows = (marks # {})
  <2>1. button[freshest].shows <=> marks # {}
    BY <1>2 DEF EngagementInv, FreshestShows
  <2>2. button[freshest] \in Button
    BY DEF EngagementInv, ButtonsTyped
  <2>3. button[freshest].shows \in BOOLEAN
    BY <2>2 DEF Button
  <2>4. QED
    BY <2>1, <2>3
<1>3. QED
  BY <1>1, <1>2 DEF CountedOnce

\* toggleLike, toggleBookmark, follow and reportComment look for a row and
\* then write: a reader counts once, and the page answered last shows it.
THEOREM ReadersCountOnce == EngagementSpec => []CountedOnce
BY EngagementInvariance, MarksAreOne, PTL

LEMMA EngagementTypesStay == EngagementSpec => []EngagementTypeOK
<1>1. EngagementInv => EngagementTypeOK
  BY DEF EngagementInv, ButtonsTyped, EngagementTypeOK, Button
<1>2. QED
  BY <1>1, EngagementInvariance, PTL

---------------------------------------------------------------------------
(* Reading: views, reading time and beacons                              *)

PageRow == [pc : {"unopened", "open", "left"}, shown : BOOLEAN, timed : BOOLEAN,
            active : Nat, real : Nat, turns : Nat, sent : Nat]
Beacon == [page : Sheet, n : Nat, seconds : Nat, real : Nat]

\* What may be left of counting a view, of a bot or of a reader.
Left == {<<>>, <<"views", "daily", "device">>, <<"daily", "device">>, <<"device">>,
         <<"views", "daily", "device", "country", "referrer">>,
         <<"daily", "device", "country", "referrer">>, <<"device", "country", "referrer">>,
         <<"country", "referrer">>, <<"referrer">>}

Opened == {p \in Sheet : open[p].pc # "unopened"}
PagesReported == {p \in Sheet : open[p].sent # 0}
ToCount(b) == {p \in Sheet : counting[p] # <<>> /\ Head(counting[p]) = b}

\* The bucket that is written before another, and what it holds.
Before(b) == CASE b = "daily" -> "views" [] b = "device" -> "daily"
               [] b = "country" -> "device" [] b = "referrer" -> "country" [] b = "views" -> "none"
Above(b) == IF b = "views" THEN Cardinality(Opened) ELSE totals[Before(b)]

ReadingTyped ==
    /\ totals \in [Bucket -> Nat]
    /\ reads \in [reads : Nat, seconds : Nat]
    /\ open \in [Sheet -> PageRow] /\ counting \in [Sheet -> Left]
    /\ beacons \subseteq Beacon /\ IsFiniteSet(beacons)

\* Who is about to be counted in a bucket was counted in the one before.
BucketsFollow == \A b \in Bucket : totals[b] + Cardinality(ToCount(b)) <= Above(b)

\* Until a page has reported, its clock runs when it is on the screen; and
\* every report is of a page of its own.
ClocksRun ==
    \A p \in Sheet :
        /\ open[p].sent = 0 => open[p].active = open[p].real /\ (open[p].shown => open[p].timed)
        /\ open[p].sent # 0 => open[p].pc # "unopened"

ReportsAreOwn ==
    /\ reads.reads + Cardinality(beacons) <= Cardinality(PagesReported)
    /\ \A b \in beacons : b.seconds = b.real

ReadingInv == ReadingTyped /\ BucketsFollow /\ ClocksRun /\ ReportsAreOwn

LEMMA LeftIsOrdered ==
    ASSUME NEW c \in Left, c # <<>>
    PROVE  /\ Head(c) \in Bucket /\ Tail(c) \in Left
           /\ Tail(c) # <<>> => Head(c) = Before(Head(Tail(c)))
<1>1. CASE c = <<"views", "daily", "device">>
  BY <1>1 DEF Left, Bucket, Before
<1>2. CASE c = <<"daily", "device">>
  BY <1>2 DEF Left, Bucket, Before
<1>3. CASE c = <<"device">>
  BY <1>3 DEF Left, Bucket, Before
<1>4. CASE c = <<"views", "daily", "device", "country", "referrer">>
  BY <1>4 DEF Left, Bucket, Before
<1>5. CASE c = <<"daily", "device", "country", "referrer">>
  BY <1>5 DEF Left, Bucket, Before
<1>6. CASE c = <<"device", "country", "referrer">>
  BY <1>6 DEF Left, Bucket, Before
<1>7. CASE c = <<"country", "referrer">>
  BY <1>7 DEF Left, Bucket, Before
<1>8. CASE c = <<"referrer">>
  BY <1>8 DEF Left, Bucket, Before
<1>9. QED
  BY <1>1, <1>2, <1>3, <1>4, <1>5, <1>6, <1>7, <1>8 DEF Left

LEMMA BeforeIsInjective ==
    ASSUME NEW a \in Bucket, NEW b \in Bucket
    PROVE  /\ Before(a) = Before(b) => a = b
           /\ a # "views" => Before(a) \in Bucket
           /\ a = "views" => Before(a) \notin Bucket
           /\ Before(a) # a
BY DEF Bucket, Before

\* Sets of pages are finite, and one page makes them no more than one larger.
LEMMA PagesAreFinite ==
    ASSUME NEW S \in SUBSET Sheet, NEW T \in SUBSET Sheet
    PROVE  /\ IsFiniteSet(S) /\ Cardinality(S) \in Nat
           /\ S \subseteq T => Cardinality(S) <= Cardinality(T)
           /\ \A p : S \subseteq T \cup {p} => Cardinality(S) <= Cardinality(T) + 1
           /\ \A p \in T : S \subseteq T \ {p} => Cardinality(S) <= Cardinality(T) - 1
           /\ \A p \in Sheet : p \notin T /\ T \cup {p} \subseteq S => Cardinality(T) + 1 <= Cardinality(S)
<1>1. IsFiniteSet(S) /\ IsFiniteSet(T)
  BY ReadingAssumption, FS_Subset DEF ReadingAssumption
<1>2. Cardinality(S) \in Nat /\ Cardinality(T) \in Nat
  BY <1>1, FS_CardinalityType
<1>3. S \subseteq T => Cardinality(S) <= Cardinality(T)
  BY <1>1, FS_Subset
<1>4. ASSUME NEW p, S \subseteq T \cup {p}
      PROVE  Cardinality(S) <= Cardinality(T) + 1
  <2>1. IsFiniteSet(T \cup {p}) /\ Cardinality(T \cup {p}) \in {Cardinality(T), Cardinality(T) + 1}
    BY <1>1, FS_AddElement
  <2>2. Cardinality(S) <= Cardinality(T \cup {p})
    BY <1>4, <2>1, FS_Subset
  <2>3. QED
    BY <1>2, <2>1, <2>2
<1>5. ASSUME NEW p \in T, S \subseteq T \ {p}
      PROVE  Cardinality(S) <= Cardinality(T) - 1
  <2>1. IsFiniteSet(T \ {p}) /\ Cardinality(T \ {p}) = Cardinality(T) - 1
    BY <1>1, FS_RemoveElement
  <2>2. Cardinality(S) <= Cardinality(T \ {p})
    BY <1>5, <2>1, FS_Subset
  <2>3. QED
    BY <2>1, <2>2
<1>6. ASSUME NEW p \in Sheet, p \notin T, T \cup {p} \subseteq S
      PROVE  Cardinality(T) + 1 <= Cardinality(S)
  <2>1. Cardinality(T \cup {p}) = Cardinality(T) + 1
    BY <1>1, <1>6, FS_AddElement
  <2>2. Cardinality(T \cup {p}) <= Cardinality(S)
    BY <1>1, <1>6, FS_Subset
  <2>3. QED
    BY <2>1, <2>2
<1>7. QED
  BY <1>1, <1>2, <1>3, <1>4, <1>5, <1>6

LEMMA ReadingStart == ReadingInit => ReadingInv
<1> SUFFICES ASSUME ReadingInit
             PROVE  ReadingInv
  OBVIOUS
<1>1. /\ totals = [b \in Bucket |-> 0] /\ reads = [reads |-> 0, seconds |-> 0]
      /\ open = [p \in Sheet |-> Unopened] /\ counting = [p \in Sheet |-> <<>>] /\ beacons = {}
  BY DEF ReadingInit
<1>2. Unopened \in PageRow /\ Unopened.pc = "unopened" /\ Unopened.sent = 0
      /\ Unopened.active = 0 /\ Unopened.real = 0 /\ Unopened.shown = FALSE
  BY DEF Unopened, PageRow
<1>3. ReadingTyped
  BY <1>1, <1>2, FS_EmptySet DEF ReadingTyped, Left
<1>4. Cardinality({}) = 0
  BY FS_EmptySet
<1>5. BucketsFollow
  <2>1. SUFFICES ASSUME NEW b \in Bucket
                 PROVE  totals[b] + Cardinality(ToCount(b)) <= Above(b)
    BY DEF BucketsFollow
  <2>2. ToCount(b) = {}
    BY <1>1 DEF ToCount
  <2>3. Opened = {}
    BY <1>1, <1>2 DEF Opened
  <2>4. Above(b) = 0
    BY <1>1, <1>4, <2>3, BeforeIsInjective DEF Above
  <2>5. QED
    BY <1>1, <1>4, <2>2, <2>4
<1>6. ClocksRun
  BY <1>1, <1>2 DEF ClocksRun
<1>7. ReportsAreOwn
  <2>1. PagesReported = {}
    BY <1>1, <1>2 DEF PagesReported
  <2>2. QED
    BY <1>1, <1>4, <2>1 DEF ReportsAreOwn
<1>8. QED
  BY <1>3, <1>5, <1>6, <1>7 DEF ReadingInv

\* Where no page is opened and nothing is counted, the buckets stay as they are.
LEMMA BucketsStand ==
    ASSUME ReadingInv, UNCHANGED <<totals, counting>>, Opened' = Opened
    PROVE  BucketsFollow'
<1>1. ASSUME NEW b \in Bucket
      PROVE  totals'[b] + Cardinality(ToCount(b)') <= Above(b)'
  <2>1. ToCount(b)' = ToCount(b)
    BY DEF ToCount
  <2>2. Above(b)' = Above(b)
    BY DEF Above
  <2>3. totals[b] + Cardinality(ToCount(b)) <= Above(b)
    BY DEF ReadingInv, BucketsFollow
  <2>4. QED
    BY <2>1, <2>2, <2>3
<1>2. QED
  BY <1>1 DEF BucketsFollow

LEMMA BeaconArrivesKeeps ==
    ASSUME ReadingInv, BeaconArrives
    PROVE  ReadingInv'
<1>1. UNCHANGED <<totals, open, counting>>
  BY DEF BeaconArrives
<1>2. PICK b \in beacons : /\ beacons' = beacons \ {b}
                           /\ \/ reads' = [reads |-> reads.reads + 1, seconds |-> reads.seconds + b.seconds]
                              \/ UNCHANGED reads
  BY DEF BeaconArrives
<1>3. b \in Beacon /\ beacons \subseteq Beacon /\ IsFiniteSet(beacons)
  BY DEF ReadingInv, ReadingTyped
<1>4. b.seconds \in Nat
  BY <1>3 DEF Beacon
<1>5. reads \in [reads : Nat, seconds : Nat]
  BY DEF ReadingInv, ReadingTyped
<1>6. reads.reads \in Nat /\ reads.seconds \in Nat
  BY <1>5
<1>7. reads' \in [reads : Nat, seconds : Nat] /\ reads'.reads <= reads.reads + 1 /\ reads'.reads \in Nat
  <2>1. CASE reads' = [reads |-> reads.reads + 1, seconds |-> reads.seconds + b.seconds]
    BY <1>4, <1>6, <2>1
  <2>2. CASE reads' = reads
    BY <1>5, <1>6, <2>2
  <2>3. QED
    BY <1>2, <2>1, <2>2
<1>8. /\ IsFiniteSet(beacons') /\ Cardinality(beacons') = Cardinality(beacons) - 1
      /\ Cardinality(beacons) \in Nat
  BY <1>2, <1>3, FS_RemoveElement, FS_CardinalityType
<1>9. ReadingTyped'
  <2>1. beacons' \subseteq Beacon
    BY <1>2, <1>3
  <2>2. QED
    BY <1>1, <1>7, <1>8, <2>1 DEF ReadingInv, ReadingTyped
<1>10. BucketsFollow'
  BY <1>1, BucketsStand DEF Opened
<1>11. ClocksRun'
  BY <1>1 DEF ReadingInv, ClocksRun
<1>12. ReportsAreOwn'
  <2>1. PagesReported' = PagesReported
    BY <1>1 DEF PagesReported
  <2>2. reads.reads + Cardinality(beacons) <= Cardinality(PagesReported)
    BY DEF ReadingInv, ReportsAreOwn
  <2>3. Cardinality(PagesReported) \in Nat
    BY PagesAreFinite DEF PagesReported
  <2>4. reads'.reads + Cardinality(beacons') <= Cardinality(PagesReported)
    BY <1>6, <1>7, <1>8, <2>2, <2>3
  <2>5. \A c \in beacons' : c.seconds = c.real
    BY <1>2 DEF ReadingInv, ReportsAreOwn
  <2>6. QED
    BY <2>1, <2>4, <2>5 DEF ReportsAreOwn
<1>13. QED
  BY <1>9, <1>10, <1>11, <1>12 DEF ReadingInv

\* A page that is opened is one more, and waits to be counted.
LEMMA ViewKeeps ==
    ASSUME ReadingInv, NEW p \in Sheet, View(p)
    PROVE  ReadingInv'
<1>1. UNCHANGED <<totals, reads, beacons>> /\ open[p].pc = "unopened"
  BY DEF View
<1>2. PICK bot \in BOOLEAN, shown \in BOOLEAN :
          /\ open' = [open EXCEPT ![p] = [Unopened EXCEPT !.pc = "open", !.shown = shown, !.timed = shown]]
          /\ counting' = [counting EXCEPT ![p] =
                 IF bot THEN <<"views", "daily", "device">>
                 ELSE <<"views", "daily", "device", "country", "referrer">>]
  BY DEF View
<1>3. open \in [Sheet -> PageRow] /\ counting \in [Sheet -> Left] /\ totals \in [Bucket -> Nat]
  BY DEF ReadingInv, ReadingTyped
<1> DEFINE next == [Unopened EXCEPT !.pc = "open", !.shown = shown, !.timed = shown]
<1>4. /\ next \in PageRow /\ next.pc = "open" /\ next.sent = 0 /\ next.active = 0 /\ next.real = 0
      /\ next.shown = next.timed
  BY DEF Unopened, PageRow
<1>5. open' = [open EXCEPT ![p] = next]
  BY <1>2
<1> HIDE DEF next
<1>6. open'[p] = next /\ \A q \in Sheet \ {p} : open'[q] = open[q]
  BY <1>3, <1>5
<1>7. PICK left \in Left : counting' = [counting EXCEPT ![p] = left] /\ left # <<>> /\ Head(left) = "views"
  <2>1. CASE bot
    BY <1>2, <2>1 DEF Left
  <2>2. CASE ~bot
    BY <1>2, <2>2 DEF Left
  <2>3. QED
    BY <2>1, <2>2
<1>8. counting'[p] = left /\ \A q \in Sheet \ {p} : counting'[q] = counting[q]
  BY <1>3, <1>7
<1>9. ReadingTyped'
  <2>1. open' \in [Sheet -> PageRow]
    BY <1>3, <1>4, <1>5
  <2>2. counting' \in [Sheet -> Left]
    BY <1>3, <1>7
  <2>3. QED
    BY <1>1, <2>1, <2>2 DEF ReadingInv, ReadingTyped
<1>10. BucketsFollow'
  <2>1. ASSUME NEW b \in Bucket
        PROVE  totals'[b] + Cardinality(ToCount(b)') <= Above(b)'
    <3>1. totals[b] + Cardinality(ToCount(b)) <= Above(b) /\ totals[b] \in Nat
      BY <1>3 DEF ReadingInv, BucketsFollow
    <3>2. Cardinality(ToCount(b)) \in Nat /\ Cardinality(ToCount(b)') \in Nat
      BY PagesAreFinite DEF ToCount
    <3>3. CASE b = "views"
      <4>1. ToCount(b)' \subseteq ToCount(b) \cup {p}
        BY <1>8 DEF ToCount
      <4>2. Cardinality(ToCount(b)') <= Cardinality(ToCount(b)) + 1
        BY <4>1, PagesAreFinite DEF ToCount
      <4>3. p \notin Opened /\ Opened \cup {p} \subseteq Opened'
        BY <1>1, <1>4, <1>6 DEF Opened
      <4>4. Opened \in SUBSET Sheet /\ Opened' \in SUBSET Sheet
        BY DEF Opened
      <4>5. Cardinality(Opened) + 1 <= Cardinality(Opened') /\ Cardinality(Opened) \in Nat /\ Cardinality(Opened') \in Nat
        BY <4>3, <4>4, PagesAreFinite
      <4>6. Above(b) = Cardinality(Opened) /\ Above(b)' = Cardinality(Opened')
        BY <3>3 DEF Above
      <4>7. QED
        BY <1>1, <3>1, <3>2, <4>2, <4>5, <4>6
    <3>4. CASE b # "views"
      <4>1. ToCount(b)' \subseteq ToCount(b)
        BY <1>7, <1>8, <3>4 DEF ToCount
      <4>2. Cardinality(ToCount(b)') <= Cardinality(ToCount(b))
        BY <4>1, PagesAreFinite DEF ToCount
      <4>3. Above(b)' = Above(b) /\ Above(b) = totals[Before(b)]
        BY <1>1, <3>4 DEF Above
      <4>4. Above(b) \in Nat
        BY <1>3, <3>4, <4>3, BeforeIsInjective
      <4>5. QED
        BY <1>1, <3>1, <3>2, <4>2, <4>3, <4>4
    <3>5. QED
      BY <3>3, <3>4
  <2>2. QED
    BY <2>1 DEF BucketsFollow
<1>11. ClocksRun'
  <2>1. ASSUME NEW q \in Sheet
        PROVE  /\ open'[q].sent = 0 => open'[q].active = open'[q].real /\ (open'[q].shown => open'[q].timed)
               /\ open'[q].sent # 0 => open'[q].pc # "unopened"
    <3>1. CASE q = p
      BY <1>4, <1>6, <3>1
    <3>2. CASE q # p
      BY <1>6, <3>2 DEF ReadingInv, ClocksRun
    <3>3. QED
      BY <3>1, <3>2
  <2>2. QED
    BY <2>1 DEF ClocksRun
<1>12. ReportsAreOwn'
  <2>1. open[p].sent = 0
    BY <1>1 DEF ReadingInv, ClocksRun
  <2>2. PagesReported' = PagesReported
    BY <1>4, <1>6, <2>1 DEF PagesReported
  <2>3. QED
    BY <1>1, <2>2 DEF ReadingInv, ReportsAreOwn
<1>13. QED
  BY <1>9, <1>10, <1>11, <1>12 DEF ReadingInv

\* A count goes up by one page that was waiting for it, which then waits for
\* the next bucket; or the page waits no longer.
LEMMA CountOneKeeps ==
    ASSUME ReadingInv, NEW p \in Sheet, CountOne(p)
    PROVE  ReadingInv'
<1>1. UNCHANGED <<reads, open, beacons>> /\ counting[p] # <<>>
  BY DEF CountOne
<1>2. counting \in [Sheet -> Left] /\ totals \in [Bucket -> Nat]
  BY DEF ReadingInv, ReadingTyped
<1>3. PICK h : h = Head(counting[p])
  OBVIOUS
<1>4. /\ h \in Bucket /\ Tail(counting[p]) \in Left
      /\ Tail(counting[p]) # <<>> => h = Before(Head(Tail(counting[p])))
  BY <1>1, <1>2, <1>3, LeftIsOrdered
<1>5. PICK left \in Left, n \in {totals[h], totals[h] + 1} :
          /\ counting' = [counting EXCEPT ![p] = left] /\ totals' = [totals EXCEPT ![h] = n]
          /\ left # <<>> => h = Before(Head(left)) /\ n = totals[h] + 1
  <2>1. CASE totals' = [totals EXCEPT ![h] = totals[h] + 1] /\ counting' = [counting EXCEPT ![p] = Tail(counting[p])]
    BY <1>4, <2>1
  <2>2. CASE counting' = [counting EXCEPT ![p] = <<>>] /\ UNCHANGED totals
    <3>1. totals = [totals EXCEPT ![h] = totals[h]]
      BY <1>2
    <3>2. <<>> \in Left
      BY DEF Left
    <3>3. QED
      BY <2>2, <3>1, <3>2
  <2>3. QED
    BY <1>3, <2>1, <2>2 DEF CountOne
<1>6. totals[h] \in Nat /\ n \in Nat
  BY <1>2, <1>4, <1>5
<1>7. counting'[p] = left /\ \A q \in Sheet \ {p} : counting'[q] = counting[q]
  BY <1>2, <1>5
<1>8. totals'[h] = n /\ \A b \in Bucket \ {h} : totals'[b] = totals[b]
  BY <1>2, <1>4, <1>5
<1>9. ReadingTyped'
  <2>1. counting' \in [Sheet -> Left]
    BY <1>2, <1>5
  <2>2. totals' \in [Bucket -> Nat]
    BY <1>2, <1>5, <1>6
  <2>3. QED
    BY <1>1, <2>1, <2>2 DEF ReadingInv, ReadingTyped
<1>10. BucketsFollow'
  <2>1. ASSUME NEW b \in Bucket
        PROVE  totals'[b] + Cardinality(ToCount(b)') <= Above(b)'
    <3>1. totals[b] + Cardinality(ToCount(b)) <= Above(b) /\ totals[b] \in Nat
      BY <1>2 DEF ReadingInv, BucketsFollow
    <3>2. /\ Cardinality(ToCount(b)) \in Nat /\ Cardinality(ToCount(b)') \in Nat
          /\ ToCount(b) \in SUBSET Sheet /\ ToCount(b)' \in SUBSET Sheet
      BY PagesAreFinite DEF ToCount
    <3>3. Opened' = Opened /\ Cardinality(Opened) \in Nat
      BY <1>1, PagesAreFinite DEF Opened
    <3>4. Above(b) \in Nat
      BY <1>2, <3>3, BeforeIsInjective DEF Above
    <3>5. CASE b = h
      <4>1. p \in ToCount(b)
        BY <1>1, <1>3, <3>5 DEF ToCount
      <4>2. left = <<>> \/ Head(left) # b
        <5>1. SUFFICES ASSUME left # <<>>, Head(left) = b
                       PROVE  FALSE
          OBVIOUS
        <5>2. Before(b) = b
          BY <1>5, <3>5, <5>1
        <5>3. QED
          BY <5>2, BeforeIsInjective
      <4>3. ToCount(b)' \subseteq ToCount(b) \ {p}
        BY <1>7, <4>2 DEF ToCount
      <4>4. Cardinality(ToCount(b)') <= Cardinality(ToCount(b)) - 1
        BY <3>2, <4>1, <4>3, PagesAreFinite
      <4>5. Above(b)' = Above(b)
        <5>1. CASE b = "views"
          BY <3>3, <5>1 DEF Above
        <5>2. CASE b # "views"
          <6>1. Before(b) \in Bucket \ {h}
            BY <3>5, <5>2, BeforeIsInjective
          <6>2. totals'[Before(b)] = totals[Before(b)]
            BY <1>8, <6>1
          <6>3. QED
            BY <5>2, <6>2 DEF Above
        <5>3. QED
          BY <5>1, <5>2
      <4>6. totals'[b] \in Nat /\ totals'[b] <= totals[b] + 1
        BY <1>5, <1>6, <1>8, <3>5
      <4>7. QED
        BY <3>1, <3>2, <3>4, <4>4, <4>5, <4>6
    <3>6. CASE b # h /\ Before(b) = h
      <4>1. Above(b) = totals[h] /\ Above(b)' = n
        BY <1>4, <1>8, <3>6, BeforeIsInjective DEF Above
      <4>2. CASE left = <<>>
        <5>1. ToCount(b)' \subseteq ToCount(b)
          BY <1>7, <4>2 DEF ToCount
        <5>2. Cardinality(ToCount(b)') <= Cardinality(ToCount(b))
          BY <3>2, <5>1, PagesAreFinite
        <5>3. totals'[b] = totals[b]
          BY <1>8, <3>6
        <5>4. QED
          BY <1>5, <1>6, <3>1, <3>2, <4>1, <5>2, <5>3
      <4>3. CASE left # <<>>
        <5>1. ToCount(b)' \subseteq ToCount(b) \cup {p}
          BY <1>7 DEF ToCount
        <5>2. Cardinality(ToCount(b)') <= Cardinality(ToCount(b)) + 1
          BY <3>2, <5>1, PagesAreFinite
        <5>3. totals'[b] = totals[b]
          BY <1>8, <3>6
        <5>4. n = totals[h] + 1
          BY <1>5, <4>3
        <5>5. QED
          BY <1>6, <3>1, <3>2, <4>1, <5>2, <5>3, <5>4
      <4>4. QED
        BY <4>2, <4>3
    <3>7. CASE b # h /\ Before(b) # h
      <4>1. left = <<>> \/ Head(left) # b
        BY <1>5, <3>7
      <4>2. ToCount(b)' \subseteq ToCount(b)
        BY <1>7, <4>1 DEF ToCount
      <4>3. Cardinality(ToCount(b)') <= Cardinality(ToCount(b))
        BY <3>2, <4>2, PagesAreFinite
      <4>4. totals'[b] = totals[b]
        BY <1>8, <3>7
      <4>5. Above(b)' = Above(b)
        <5>1. CASE b = "views"
          BY <3>3, <5>1 DEF Above
        <5>2. CASE b # "views"
          <6>1. Before(b) \in Bucket \ {h}
            BY <3>7, <5>2, BeforeIsInjective
          <6>2. totals'[Before(b)] = totals[Before(b)]
            BY <1>8, <6>1
          <6>3. QED
            BY <5>2, <6>2 DEF Above
        <5>3. QED
          BY <5>1, <5>2
      <4>6. QED
        BY <3>1, <3>2, <3>4, <4>3, <4>4, <4>5
    <3>8. QED
      BY <3>5, <3>6, <3>7
  <2>2. QED
    BY <2>1 DEF BucketsFollow
<1>11. ClocksRun' /\ ReportsAreOwn'
  BY <1>1 DEF ReadingInv, ClocksRun, ReportsAreOwn, PagesReported
<1>12. QED
  BY <1>9, <1>10, <1>11 DEF ReadingInv

\* An open page whose clock goes on, or that is shown again, counts as before.
LEMMA PageGoesOn ==
    ASSUME ReadingInv, NEW p \in Sheet, NEW next \in PageRow,
           open[p].pc = "open", open' = [open EXCEPT ![p] = next], next.pc = "open", next.sent = open[p].sent,
           next.sent = 0 => next.active = next.real /\ (next.shown => next.timed),
           UNCHANGED <<totals, reads, counting, beacons>>
    PROVE  ReadingInv'
<1>1. open \in [Sheet -> PageRow]
  BY DEF ReadingInv, ReadingTyped
<1>2. open'[p] = next /\ \A q \in Sheet \ {p} : open'[q] = open[q]
  BY <1>1
<1>3. ReadingTyped'
  <2>1. open' \in [Sheet -> PageRow]
    BY <1>1
  <2>2. QED
    BY <2>1 DEF ReadingInv, ReadingTyped
<1>4. BucketsFollow'
  BY <1>2, BucketsStand DEF Opened
<1>5. ClocksRun'
  <2>1. ASSUME NEW q \in Sheet
        PROVE  /\ open'[q].sent = 0 => open'[q].active = open'[q].real /\ (open'[q].shown => open'[q].timed)
               /\ open'[q].sent # 0 => open'[q].pc # "unopened"
    <3>1. CASE q = p
      BY <1>2, <3>1
    <3>2. CASE q # p
      BY <1>2, <3>2 DEF ReadingInv, ClocksRun
    <3>3. QED
      BY <3>1, <3>2
  <2>2. QED
    BY <2>1 DEF ClocksRun
<1>6. ReportsAreOwn'
  <2>1. PagesReported' = PagesReported
    BY <1>2 DEF PagesReported
  <2>2. QED
    BY <2>1 DEF ReadingInv, ReportsAreOwn
<1>7. QED
  BY <1>3, <1>4, <1>5, <1>6 DEF ReadingInv

LEMMA RowsKeepTheirShape ==
    ASSUME NEW o \in PageRow, NEW a \in Nat, NEW n \in Nat
    PROVE  /\ [o EXCEPT !.real = n, !.active = a] \in PageRow
           /\ [o EXCEPT !.shown = TRUE, !.timed = TRUE, !.turns = n] \in PageRow
BY DEF PageRow

LEMMA SecondPassesKeeps ==
    ASSUME ReadingInv, NEW p \in Sheet, SecondPasses(p)
    PROVE  ReadingInv'
<1>1. UNCHANGED <<totals, reads, counting, beacons>> /\ open[p].pc = "open" /\ open[p].shown
  BY DEF SecondPasses
<1>2. open[p] \in PageRow /\ open \in [Sheet -> PageRow]
  BY DEF ReadingInv, ReadingTyped
<1>3. open[p].sent = 0 => open[p].active = open[p].real /\ open[p].timed
  BY <1>1 DEF ReadingInv, ClocksRun
<1> DEFINE next == [open[p] EXCEPT !.real = open[p].real + 1,
                                  !.active = IF open[p].timed THEN open[p].active + 1 ELSE open[p].active]
<1>4. open' = [open EXCEPT ![p] = next]
  BY <1>2 DEF SecondPasses, PageRow
<1>5. open[p].real \in Nat /\ open[p].active \in Nat
  BY <1>2 DEF PageRow
<1>6. next \in PageRow
  <2>1. open[p].real + 1 \in Nat /\ (IF open[p].timed THEN open[p].active + 1 ELSE open[p].active) \in Nat
    BY <1>5
  <2>2. QED
    BY <1>2, <2>1, RowsKeepTheirShape
<1>7. /\ next.pc = open[p].pc /\ next.sent = open[p].sent /\ next.timed = open[p].timed
      /\ next.real = open[p].real + 1 /\ (open[p].timed => next.active = open[p].active + 1)
  BY <1>2 DEF PageRow
<1> HIDE DEF next
<1>8. QED
  BY <1>1, <1>3, <1>4, <1>6, <1>7, PageGoesOn

LEMMA ShowKeeps ==
    ASSUME ReadingInv, NEW p \in Sheet, Show(p)
    PROVE  ReadingInv'
<1>1. UNCHANGED <<totals, reads, counting, beacons>> /\ open[p].pc = "open"
  BY DEF Show
<1>2. open[p] \in PageRow /\ open \in [Sheet -> PageRow]
  BY DEF ReadingInv, ReadingTyped
<1>3. open[p].sent = 0 => open[p].active = open[p].real
  BY DEF ReadingInv, ClocksRun
<1> DEFINE next == [open[p] EXCEPT !.shown = TRUE, !.timed = TRUE, !.turns = open[p].turns + 1]
<1>4. open' = [open EXCEPT ![p] = next]
  BY <1>2 DEF Show, PageRow
<1>5. open[p].turns \in Nat
  BY <1>2 DEF PageRow
<1>6. next \in PageRow
  <2>1. open[p].turns + 1 \in Nat
    BY <1>5
  <2>2. QED
    BY <1>2, <2>1, RowsKeepTheirShape
<1>7. /\ next.pc = open[p].pc /\ next.sent = open[p].sent /\ next.timed
      /\ next.real = open[p].real /\ next.active = open[p].active
  BY <1>2 DEF PageRow
<1> HIDE DEF next
<1>8. QED
  BY <1>1, <1>3, <1>4, <1>6, <1>7, PageGoesOn

\* send: a page that is hidden or left reports once, what its clock shows.
LEMMA ReportKeeps ==
    ASSUME ReadingInv, NEW p \in Sheet, NEW o \in PageRow, open[p].pc = "open", Report(p, o),
           o.pc # "unopened", ~o.shown, o.sent = open[p].sent, o.active = open[p].active, o.real = open[p].real
    PROVE  ReadingInv'
<1>1. UNCHANGED <<totals, reads, counting>>
  BY DEF Report
<1>2. open \in [Sheet -> PageRow] /\ beacons \subseteq Beacon /\ IsFiniteSet(beacons)
  BY DEF ReadingInv, ReadingTyped
<1>3. o.sent = 0 => o.active = o.real
  BY DEF ReadingInv, ClocksRun
<1>4. o.sent \in Nat /\ o.active \in Nat /\ o.real \in Nat /\ o.timed \in BOOLEAN
  BY DEF PageRow
<1> DEFINE next == [o EXCEPT !.timed = IF o.sent = 0 THEN FALSE ELSE o.timed,
                            !.sent = IF Sends(o) THEN o.sent + 1 ELSE o.sent]
           beacon == [page |-> p, n |-> o.sent, seconds |-> o.active, real |-> o.real]
<1>5. open' = [open EXCEPT ![p] = next] /\ beacons' = IF Sends(o) THEN beacons \cup {beacon} ELSE beacons
  BY DEF Report, PageRow
<1>6. next \in PageRow
  <2>1. PICK t \in BOOLEAN : t = IF o.sent = 0 THEN FALSE ELSE o.timed
    BY <1>4
  <2>2. PICK n \in Nat : n = IF Sends(o) THEN o.sent + 1 ELSE o.sent
    BY <1>4
  <2>3. next = [o EXCEPT !.timed = t, !.sent = n]
    BY <2>1, <2>2
  <2>4. [o EXCEPT !.timed = t, !.sent = n] \in PageRow
    BY DEF PageRow
  <2>5. QED
    BY <2>3, <2>4
<1>7. /\ next.pc = o.pc /\ next.shown = o.shown /\ next.active = o.active /\ next.real = o.real
      /\ next.sent = IF Sends(o) THEN o.sent + 1 ELSE o.sent
  BY DEF PageRow
<1>8. beacon \in Beacon /\ beacon.seconds = o.active /\ beacon.real = o.real
  BY <1>4 DEF Beacon
<1> HIDE DEF next, beacon
<1>9. open'[p] = next /\ \A q \in Sheet \ {p} : open'[q] = open[q]
  BY <1>2, <1>5
<1>10. /\ IsFiniteSet(beacons') /\ Cardinality(beacons) \in Nat /\ Cardinality(beacons') \in Nat
       /\ Cardinality(beacons') <= Cardinality(beacons) + 1
       /\ ~Sends(o) => Cardinality(beacons') = Cardinality(beacons)
  <2>1. Cardinality(beacons) \in Nat
    BY <1>2, FS_CardinalityType
  <2>2. CASE Sends(o)
    <3>1. beacons' = beacons \cup {beacon}
      BY <1>5, <2>2
    <3>2. IsFiniteSet(beacons') /\ Cardinality(beacons') \in {Cardinality(beacons), Cardinality(beacons) + 1}
      BY <1>2, <3>1, FS_AddElement
    <3>3. QED
      BY <2>1, <2>2, <3>2
  <2>3. CASE ~Sends(o)
    BY <1>2, <1>5, <2>1, <2>3
  <2>4. QED
    BY <2>2, <2>3
<1>11. ReadingTyped'
  <2>1. open' \in [Sheet -> PageRow]
    BY <1>2, <1>5, <1>6
  <2>2. beacons' \subseteq Beacon
    BY <1>2, <1>5, <1>8
  <2>3. QED
    BY <1>1, <1>10, <2>1, <2>2 DEF ReadingInv, ReadingTyped
<1>12. BucketsFollow'
  <2>1. Opened' = Opened
    BY <1>7, <1>9 DEF Opened
  <2>2. QED
    BY <1>1, <2>1, BucketsStand
<1>13. ClocksRun'
  <2>1. ASSUME NEW q \in Sheet
        PROVE  /\ open'[q].sent = 0 => open'[q].active = open'[q].real /\ (open'[q].shown => open'[q].timed)
               /\ open'[q].sent # 0 => open'[q].pc # "unopened"
    <3>1. CASE q = p
      BY <1>3, <1>4, <1>7, <1>9, <3>1
    <3>2. CASE q # p
      BY <1>9, <3>2 DEF ReadingInv, ClocksRun
    <3>3. QED
      BY <3>1, <3>2
  <2>2. QED
    BY <2>1 DEF ClocksRun
<1>14. ReportsAreOwn'
  <2>1. reads.reads + Cardinality(beacons) <= Cardinality(PagesReported)
    BY DEF ReadingInv, ReportsAreOwn
  <2>2. reads.reads \in Nat
    BY DEF ReadingInv, ReadingTyped
  <2>3. PagesReported \in SUBSET Sheet /\ PagesReported' \in SUBSET Sheet
    BY DEF PagesReported
  <2>4. Cardinality(PagesReported) \in Nat /\ Cardinality(PagesReported') \in Nat
    BY <2>3, PagesAreFinite
  <2>5. reads.reads + Cardinality(beacons') <= Cardinality(PagesReported')
    <3>1. CASE Sends(o)
      <4>1. o.sent = 0 /\ next.sent = 1
        BY <1>7, <3>1 DEF Sends
      <4>2. open[p].sent = 0 /\ open'[p].sent = 1
        BY <1>9, <4>1
      <4>3. p \notin PagesReported /\ p \in PagesReported'
        BY <4>2 DEF PagesReported
      <4>4. \A q \in PagesReported : q \in PagesReported'
        BY <1>9, <4>3 DEF PagesReported
      <4>5. p \notin PagesReported /\ PagesReported \cup {p} \subseteq PagesReported'
        BY <4>3, <4>4
      <4>6. Cardinality(PagesReported) + 1 <= Cardinality(PagesReported')
        BY <2>3, <4>5, PagesAreFinite
      <4>7. QED
        BY <1>10, <2>1, <2>2, <2>4, <4>6
    <3>2. CASE ~Sends(o)
      <4>1. PagesReported' = PagesReported
        BY <1>7, <1>9, <3>2 DEF PagesReported
      <4>2. QED
        BY <1>10, <2>1, <3>2, <4>1
    <3>3. QED
      BY <3>1, <3>2
  <2>6. \A b \in beacons' : b.seconds = b.real
    <3>1. \A b \in beacons : b.seconds = b.real
      BY DEF ReadingInv, ReportsAreOwn
    <3>2. Sends(o) => beacon.seconds = beacon.real
      BY <1>3, <1>8 DEF Sends
    <3>3. QED
      BY <1>5, <3>1, <3>2
  <2>7. QED
    BY <1>1, <2>5, <2>6 DEF ReportsAreOwn
<1>15. QED
  BY <1>11, <1>12, <1>13, <1>14 DEF ReadingInv

LEMMA LeavingReports ==
    ASSUME ReadingInv, NEW p \in Sheet, Hide(p) \/ PageHide(p) \/ Unmount(p)
    PROVE  \E o \in PageRow :
               /\ Report(p, o) /\ o.pc # "unopened" /\ ~o.shown
               /\ o.sent = open[p].sent /\ o.active = open[p].active /\ o.real = open[p].real
<1>1. open[p].pc = "open"
  BY DEF Hide, PageHide, Unmount
<1>2. open[p] \in PageRow
  BY DEF ReadingInv, ReadingTyped
<1>3. QED
  <2>1. CASE Hide(p)
    <3> DEFINE o == [open[p] EXCEPT !.shown = FALSE, !.timed = FALSE]
    <3>1. Report(p, o)
      BY <2>1 DEF Hide
    <3>2. /\ o \in PageRow /\ o.pc = open[p].pc /\ ~o.shown
          /\ o.sent = open[p].sent /\ o.active = open[p].active /\ o.real = open[p].real
      BY <1>2 DEF PageRow
    <3> HIDE DEF o
    <3>3. QED
      BY <1>1, <3>1, <3>2
  <2>2. CASE PageHide(p)
    <3> DEFINE o == [open[p] EXCEPT !.shown = FALSE]
    <3>1. Report(p, o)
      BY <2>2 DEF PageHide
    <3>2. /\ o \in PageRow /\ o.pc = open[p].pc /\ ~o.shown
          /\ o.sent = open[p].sent /\ o.active = open[p].active /\ o.real = open[p].real
      BY <1>2 DEF PageRow
    <3> HIDE DEF o
    <3>3. QED
      BY <1>1, <3>1, <3>2
  <2>3. CASE Unmount(p)
    <3> DEFINE o == [open[p] EXCEPT !.pc = "left", !.shown = FALSE]
    <3>1. Report(p, o)
      BY <2>3 DEF Unmount
    <3>2. /\ o \in PageRow /\ o.pc = "left" /\ ~o.shown
          /\ o.sent = open[p].sent /\ o.active = open[p].active /\ o.real = open[p].real
      BY <1>2 DEF PageRow
    <3> HIDE DEF o
    <3>3. QED
      BY <3>1, <3>2
  <2>4. QED
    BY <2>1, <2>2, <2>3

LEMMA LeavingKeeps ==
    ASSUME ReadingInv, NEW p \in Sheet, Hide(p) \/ PageHide(p) \/ Unmount(p)
    PROVE  ReadingInv'
<1>1. open[p].pc = "open"
  BY DEF Hide, PageHide, Unmount
<1>2. QED
  BY <1>1, LeavingReports, ReportKeeps

LEMMA ReadingStep == ReadingInv /\ [ReadingNext]_readingVars => ReadingInv'
<1> SUFFICES ASSUME ReadingInv, [ReadingNext]_readingVars
             PROVE  ReadingInv'
  OBVIOUS
<1>1. CASE TakeOffline \/ UNCHANGED readingVars
  <2>1. UNCHANGED <<totals, reads, open, counting, beacons>>
    BY <1>1 DEF TakeOffline, readingVars
  <2>2. BucketsFollow'
    BY <2>1, BucketsStand DEF Opened
  <2>3. ReadingTyped' /\ ClocksRun' /\ ReportsAreOwn'
    BY <2>1 DEF ReadingInv, ReadingTyped, ClocksRun, ReportsAreOwn, PagesReported
  <2>4. QED
    BY <2>2, <2>3 DEF ReadingInv
<1>2. CASE BeaconArrives
  BY <1>2, BeaconArrivesKeeps
<1>3. ASSUME NEW p \in Sheet, View(p) \/ CountOne(p)
      PROVE  ReadingInv'
  BY <1>3, ViewKeeps, CountOneKeeps
<1>4. ASSUME NEW p \in Sheet, SecondPasses(p) \/ Show(p)
      PROVE  ReadingInv'
  BY <1>4, SecondPassesKeeps, ShowKeeps
<1>5. ASSUME NEW p \in Sheet, Hide(p) \/ PageHide(p) \/ Unmount(p)
      PROVE  ReadingInv'
  BY <1>5, LeavingKeeps
<1>6. QED
  BY <1>1, <1>2, <1>3, <1>4, <1>5 DEF ReadingNext

LEMMA ReadingInvariance == ReadingSpec => []ReadingInv
BY ReadingStart, ReadingStep, PTL DEF ReadingSpec

LEMMA CountsAreOfReaders == ReadingInv => ReadingIsCounted
<1> SUFFICES ASSUME ReadingInv
             PROVE  ReadingIsCounted
  OBVIOUS
<1>1. \A b \in Bucket : Cardinality(ToCount(b)) \in Nat
  BY PagesAreFinite DEF ToCount
<1>2. totals \in [Bucket -> Nat]
  BY DEF ReadingInv, ReadingTyped
<1>3. Cardinality(Opened) \in Nat /\ Cardinality(PagesReported) \in Nat
  BY PagesAreFinite DEF Opened, PagesReported
<1>4. \A b \in Bucket : totals[b] + Cardinality(ToCount(b)) <= Above(b)
  BY DEF ReadingInv, BucketsFollow
<1>5. BucketsAgree
  <2>1. \A b \in Bucket \ {"views"} : Above(b) = totals[Before(b)] /\ totals[Before(b)] \in Nat
    BY <1>2, BeforeIsInjective DEF Above
  <2>2. \A b \in Bucket \ {"views"} : totals[b] <= totals[Before(b)]
    BY <1>1, <1>2, <1>4, <2>1
  <2>3. totals["views"] <= Cardinality(Opened)
    BY <1>1, <1>2, <1>3, <1>4 DEF Above, Bucket
  <2>4. /\ totals["daily"] <= totals["views"] /\ totals["device"] <= totals["daily"]
        /\ totals["country"] <= totals["device"] /\ totals["referrer"] <= totals["country"]
    BY <2>2 DEF Bucket, Before
  <2>5. QED
    BY <1>2, <1>3, <2>3, <2>4 DEF BucketsAgree, Bucket, Opened
<1>6. ReadOnce
  <2>1. PagesReported \subseteq Opened
    BY DEF ReadingInv, ClocksRun, PagesReported, Opened
  <2>2. Cardinality(PagesReported) <= Cardinality(Opened)
    BY <2>1, PagesAreFinite DEF Opened, PagesReported
  <2>3. reads.reads + Cardinality(beacons) <= Cardinality(PagesReported) /\ \A b \in beacons : b.seconds = b.real
    BY DEF ReadingInv, ReportsAreOwn
  <2>4. reads.reads \in Nat /\ IsFiniteSet(beacons)
    BY DEF ReadingInv, ReadingTyped
  <2>5. Cardinality(beacons) \in Nat
    BY <2>4, FS_CardinalityType
  <2>6. reads.reads + Cardinality(beacons) <= Cardinality(Opened)
    BY <1>3, <2>2, <2>3, <2>4, <2>5
  <2>7. QED
    BY <2>3, <2>6 DEF ReadOnce, Opened
<1>7. QED
  BY <1>5, <1>6 DEF ReadingIsCounted

\* lib/viewCount.ts, lib/analyticsCapture.ts and the beacon of each page count
\* after the answer, and each write may be lost: no figure tells of more
\* reading than there was.
THEOREM ReadingIsTrue == ReadingSpec => []ReadingIsCounted
BY ReadingInvariance, CountsAreOfReaders, PTL

\* The clock of a page shows no more than it was on the screen.
ClocksAreBounded ==
    /\ public \in BOOLEAN
    /\ \A p \in Sheet : open[p].active <= open[p].real /\ open[p].real <= ReadingBound

LEMMA ReportLeavesClocks ==
    ASSUME ReadingInv, NEW p \in Sheet, Hide(p) \/ PageHide(p) \/ Unmount(p)
    PROVE  /\ public' = public
           /\ \A q \in Sheet : open'[q].active = open[q].active /\ open'[q].real = open[q].real
<1>1. open \in [Sheet -> PageRow]
  BY DEF ReadingInv, ReadingTyped
<1>2. PICK o \in PageRow : Report(p, o) /\ o.active = open[p].active /\ o.real = open[p].real
  BY LeavingReports
<1>3. PICK t : t = IF o.sent = 0 THEN FALSE ELSE o.timed
  OBVIOUS
<1>4. PICK n : n = IF Sends(o) THEN o.sent + 1 ELSE o.sent
  OBVIOUS
<1>5. open' = [open EXCEPT ![p] = [o EXCEPT !.timed = t, !.sent = n]]
  BY <1>2, <1>3, <1>4 DEF Report
<1>6. PICK reported : reported = [o EXCEPT !.timed = t, !.sent = n]
  OBVIOUS
<1>7. reported.active = o.active /\ reported.real = o.real
  BY <1>6 DEF PageRow
<1>8. open'[p] = reported /\ \A q \in Sheet \ {p} : open'[q] = open[q]
  BY <1>1, <1>5, <1>6
<1>9. public' = public
  BY <1>2 DEF Report
<1>10. QED
  BY <1>2, <1>7, <1>8, <1>9

LEMMA ClocksStayBounded == ReadingInv /\ ClocksAreBounded /\ [ReadingNext]_readingVars => ClocksAreBounded'
<1> SUFFICES ASSUME ReadingInv, ClocksAreBounded, [ReadingNext]_readingVars
             PROVE  ClocksAreBounded'
  OBVIOUS
<1>1. open \in [Sheet -> PageRow]
  BY DEF ReadingInv, ReadingTyped
<1>2. CASE TakeOffline \/ BeaconArrives \/ UNCHANGED readingVars
  BY <1>2 DEF TakeOffline, BeaconArrives, readingVars, ClocksAreBounded
<1>3. ASSUME NEW p \in Sheet, View(p)
      PROVE  ClocksAreBounded'
  <2>1. PICK shown \in BOOLEAN : open' = [open EXCEPT ![p] = [Unopened EXCEPT !.pc = "open", !.shown = shown, !.timed = shown]]
    BY <1>3 DEF View
  <2>2. PICK n : n = [Unopened EXCEPT !.pc = "open", !.shown = shown, !.timed = shown]
    OBVIOUS
  <2>3. n.active = 0 /\ n.real = 0
    BY <2>2 DEF Unopened
  <2>4. \A q \in Sheet : open'[q] = open[q] \/ open'[q] = n
    BY <1>1, <2>1, <2>2
  <2>5. public' = public
    BY <1>3 DEF View
  <2>6. QED
    BY <2>3, <2>4, <2>5, ReadingAssumption DEF ClocksAreBounded
<1>4. ASSUME NEW p \in Sheet, CountOne(p)
      PROVE  ClocksAreBounded'
  BY <1>4 DEF CountOne, ClocksAreBounded
<1>5. ASSUME NEW p \in Sheet, SecondPasses(p)
      PROVE  ClocksAreBounded'
  <2>1. /\ open' = [open EXCEPT ![p].real = @ + 1, ![p].active = IF open[p].timed THEN @ + 1 ELSE @]
        /\ open[p].real < ReadingBound /\ public' = public
    BY <1>5 DEF SecondPasses
  <2>2. open[p] \in PageRow /\ open[p].active \in Nat /\ open[p].real \in Nat
    BY <1>1 DEF PageRow
  <2>3. /\ open'[p].real = open[p].real + 1
        /\ open'[p].active = open[p].active \/ open'[p].active = open[p].active + 1
        /\ \A q \in Sheet : q # p => open'[q] = open[q]
    BY <1>1, <2>1, <2>2 DEF PageRow
  <2>4. \A q \in Sheet : open[q].active <= open[q].real /\ open[q].real <= ReadingBound
    BY DEF ClocksAreBounded
  <2>5. open'[p].active <= open'[p].real /\ open'[p].real <= ReadingBound
    BY <2>1, <2>2, <2>3, <2>4, ReadingAssumption
  <2>6. QED
    BY <2>1, <2>3, <2>4, <2>5 DEF ClocksAreBounded
<1>6. ASSUME NEW p \in Sheet, Show(p)
      PROVE  ClocksAreBounded'
  <2>1. \A q \in Sheet : open'[q].active = open[q].active /\ open'[q].real = open[q].real
    BY <1>1, <1>6 DEF Show, PageRow
  <2>2. public' = public
    BY <1>6 DEF Show
  <2>3. QED
    BY <2>1, <2>2 DEF ClocksAreBounded
<1>7. ASSUME NEW p \in Sheet, Hide(p) \/ PageHide(p) \/ Unmount(p)
      PROVE  ClocksAreBounded'
  BY <1>7, ReportLeavesClocks DEF ClocksAreBounded
<1>8. QED
  BY <1>2, <1>3, <1>4, <1>5, <1>6, <1>7 DEF ReadingNext

LEMMA ReadingTypesStay == ReadingSpec => []ReadingTypeOK
<1>1. ReadingInit => ClocksAreBounded
  BY ReadingAssumption DEF ReadingInit, ClocksAreBounded, Unopened
<1>2. ReadingInv /\ ClocksAreBounded => ReadingTypeOK
  <2> SUFFICES ASSUME ReadingInv, ClocksAreBounded
               PROVE  ReadingTypeOK
    OBVIOUS
  <2>1. totals \in [Bucket -> Nat] /\ open \in [Sheet -> PageRow]
    BY DEF ReadingInv, ReadingTyped
  <2>2. BucketsAgree
    BY CountsAreOfReaders DEF ReadingIsCounted
  <2>3. {p \in Sheet : open[p].pc # "unopened"} = Opened /\ Cardinality(Opened) \in Nat /\ Cardinality(Sheet) \in Nat
        /\ Cardinality(Opened) <= Cardinality(Sheet)
    <3>1. Opened \subseteq Sheet /\ IsFiniteSet(Sheet)
      BY ReadingAssumption DEF Opened
    <3>2. QED
      BY <3>1, FS_Subset, FS_CardinalityType DEF Opened
  <2>4. \A b \in Bucket : totals[b] \in Nat /\ totals[b] <= Cardinality(Sheet)
    BY <2>1, <2>2, <2>3 DEF BucketsAgree, Bucket
  <2>5. totals \in [Bucket -> 0..Cardinality(Sheet)]
    BY <2>1, <2>3, <2>4
  <2>6. \A p \in Sheet : open[p].active \in 0..ReadingBound
    <3>1. \A p \in Sheet : open[p].active \in Nat /\ open[p].real \in Nat
      BY <2>1 DEF PageRow
    <3>2. QED
      BY <3>1, ReadingAssumption DEF ClocksAreBounded
  <2>7. QED
    BY <2>5, <2>6 DEF ReadingTypeOK, ClocksAreBounded
<1>3. QED
  BY <1>1, <1>2, ClocksStayBounded, ReadingInvariance, PTL DEF ReadingSpec

---------------------------------------------------------------------------
(* Limits: the limiter in memory                                         *)

PassedRow == [key : Key, at : Nat, n : Nat]

\* The requests of one key, of those in the set, let through from one moment
\* and before another.
Span(rows, k, from, to) ==
    {r \in rows : r.key = k /\ r.at >= from /\ r.at < to}

\* Nothing of the key is remembered: no window of it is open.
NeverAsked(k) ==
    /\ \A r \in passed : r.key # k
    /\ windows[k].resetAt <= clock

\* The key's last window opened at the moment o, with a request let through;
\* the one before it leaves room for the stretches that reach into it.
OpenedAt(k, o) ==
    /\ \E r \in passed : r.key = k /\ r.at = o
    /\ \A r \in passed : r.key = k => r.at < o + WindowLength
    /\ Cardinality(Span(passed, k, o, o + WindowLength)) <= Limit
    /\ \A from \in Nat :
           from + WindowLength > o => Cardinality(Span(passed, k, from, o)) <= Limit - 1
    /\ windows[k].resetAt <= clock => o + WindowLength <= clock
    /\ windows[k].resetAt > clock =>
           /\ windows[k].resetAt = o + WindowLength
           /\ Cardinality(Span(passed, k, o, o + WindowLength))
                  = IF windows[k].count <= Limit THEN windows[k].count ELSE Limit

LimitsTyped ==
    /\ clock \in Nat \ {0} /\ attempts \in Nat
    /\ windows \in [Key -> [count : Nat, resetAt : Nat]]
    /\ IsFiniteSet(passed)
    /\ \A r \in passed : r \in PassedRow /\ r.at \in 1..clock /\ r.n < attempts

WindowsStand == \A k \in Key : NeverAsked(k) \/ \E o \in 1..clock : OpenedAt(k, o)

StretchesHold ==
    \A k \in Key, from \in Nat :
        Cardinality(Span(passed, k, from, from + WindowLength)) <= 2 * Limit - 1

LimitsInv == LimitsTyped /\ WindowsStand /\ StretchesHold /\ ~unjust

LEMMA SpanIsFinite ==
    ASSUME NEW P, IsFiniteSet(P), NEW k, NEW a \in Nat, NEW b \in Nat
    PROVE  /\ IsFiniteSet(Span(P, k, a, b))
           /\ Cardinality(Span(P, k, a, b)) \in Nat
<1>1. Span(P, k, a, b) \subseteq P
  BY DEF Span
<1>2. IsFiniteSet(Span(P, k, a, b))
  BY <1>1, FS_Subset
<1>3. QED
  BY <1>2, FS_CardinalityType

\* A request let through is one more in every span of its key that has its
\* moment, and none more in the others.
LEMMA SpanGrows ==
    ASSUME NEW P, IsFiniteSet(P), NEW x, x \notin P, NEW Q, Q = P \cup {x},
           NEW k, NEW a \in Nat, NEW b \in Nat
    PROVE  Cardinality(Span(Q, k, a, b)) =
               IF x.key = k /\ x.at >= a /\ x.at < b
               THEN Cardinality(Span(P, k, a, b)) + 1
               ELSE Cardinality(Span(P, k, a, b))
<1>1. CASE x.key = k /\ x.at >= a /\ x.at < b
  <2>1. Span(Q, k, a, b) = Span(P, k, a, b) \cup {x}
    BY <1>1 DEF Span
  <2>2. x \notin Span(P, k, a, b)
    BY DEF Span
  <2>3. IsFiniteSet(Span(P, k, a, b))
    BY SpanIsFinite
  <2>4. Cardinality(Span(P, k, a, b) \cup {x}) = Cardinality(Span(P, k, a, b)) + 1
    BY <2>2, <2>3, FS_AddElement
  <2>5. QED
    BY <1>1, <2>1, <2>4
<1>2. CASE ~(x.key = k /\ x.at >= a /\ x.at < b)
  <2>1. Span(Q, k, a, b) = Span(P, k, a, b)
    BY <1>2 DEF Span
  <2>2. QED
    BY <1>2, <2>1
<1>3. QED
  BY <1>1, <1>2

\* A span is no larger than the two it is cut into.
LEMMA SpanIsCut ==
    ASSUME NEW P, IsFiniteSet(P), NEW k, NEW a \in Nat, NEW b \in Nat, NEW c \in Nat,
           \A r \in P : r.at \in Nat
    PROVE  Cardinality(Span(P, k, a, c)) <=
               Cardinality(Span(P, k, a, b)) + Cardinality(Span(P, k, b, c))
<1> DEFINE Sooner == Span(P, k, a, b)
           Later == Span(P, k, b, c)
<1>1. IsFiniteSet(Sooner) /\ IsFiniteSet(Later) /\ Cardinality(Sooner) \in Nat /\ Cardinality(Later) \in Nat
  BY SpanIsFinite
<1>2. Span(P, k, a, c) \subseteq Sooner \cup Later
  BY DEF Span
<1> HIDE DEF Sooner, Later
<1>3. /\ IsFiniteSet(Sooner \cup Later)
      /\ Cardinality(Sooner \cup Later) =
             Cardinality(Sooner) + Cardinality(Later) - Cardinality(Sooner \cap Later)
  BY <1>1, FS_Union
<1>4. Cardinality(Sooner \cap Later) \in Nat
  BY <1>1, FS_Intersection, FS_CardinalityType
<1>5. Cardinality(Span(P, k, a, c)) <= Cardinality(Sooner \cup Later)
  BY <1>2, <1>3, FS_Subset
<1>6. Cardinality(Span(P, k, a, c)) \in Nat
  BY SpanIsFinite
<1>7. Cardinality(Span(P, k, a, c)) <= Cardinality(Sooner) + Cardinality(Later)
  BY <1>1, <1>3, <1>4, <1>5, <1>6
<1>8. QED
  BY <1>7 DEF Sooner, Later

\* The span of a set is as large as the larger's at most.
LEMMA SpanIsWithin ==
    ASSUME NEW P, IsFiniteSet(P), NEW k, NEW a \in Nat, NEW b \in Nat,
           NEW c \in Nat, NEW d \in Nat,
           Span(P, k, a, b) \subseteq Span(P, k, c, d)
    PROVE  Cardinality(Span(P, k, a, b)) <= Cardinality(Span(P, k, c, d))
  BY SpanIsFinite, FS_Subset

LEMMA LimitsTypes ==
    ASSUME LimitsInv, NEW k \in Key
    PROVE  /\ windows[k].count \in Nat /\ windows[k].resetAt \in Nat
           /\ windows[k] \in [count : Nat, resetAt : Nat]
           /\ clock \in Nat /\ clock > 0 /\ attempts \in Nat /\ IsFiniteSet(passed)
           /\ \A r \in passed : r.at \in Nat
           /\ Limit \in Nat /\ Limit > 0 /\ WindowLength \in Nat /\ WindowLength > 0
           /\ Closed(windows[k]) <=> windows[k].resetAt <= clock
<1>1. windows[k] \in [count : Nat, resetAt : Nat] /\ clock \in Nat /\ clock > 0
  BY DEF LimitsInv, LimitsTyped
<1>2. windows[k] = NoWindow => windows[k].resetAt = 0
  BY DEF NoWindow
<1>3. Closed(windows[k]) <=> windows[k].resetAt <= clock
  BY <1>1, <1>2 DEF Closed
<1>4. attempts \in Nat /\ IsFiniteSet(passed) /\ \A r \in passed : r.at \in Nat
  BY DEF LimitsInv, LimitsTyped
<1>5. QED
  BY <1>1, <1>3, <1>4, LimitsAssumption DEF LimitsAssumption

\* What a stretch over the last window lets through is bounded by what the
\* window before it left room for.
LEMMA StretchOverWindow ==
    ASSUME NEW P, IsFiniteSet(P), \A r \in P : r.at \in Nat,
           NEW k, NEW o \in Nat, NEW from \in Nat,
           \A r \in P : r.key = k => r.at < o + WindowLength,
           Cardinality(Span(P, k, o, o + WindowLength)) <= Limit,
           Cardinality(Span(P, k, from, o)) <= Limit - 1
    PROVE  Cardinality(Span(P, k, from, from + WindowLength)) <= 2 * Limit - 1
<1>1. Limit \in Nat /\ WindowLength \in Nat
  BY LimitsAssumption DEF LimitsAssumption
<1>2. o + WindowLength \in Nat /\ from + WindowLength \in Nat
  BY <1>1
<1>3. Cardinality(Span(P, k, from, from + WindowLength)) <=
          Cardinality(Span(P, k, from, o)) + Cardinality(Span(P, k, o, from + WindowLength))
  BY <1>2, SpanIsCut
<1>4. Span(P, k, o, from + WindowLength) \subseteq Span(P, k, o, o + WindowLength)
  BY DEF Span
<1>5. Cardinality(Span(P, k, o, from + WindowLength)) <= Cardinality(Span(P, k, o, o + WindowLength))
  BY <1>2, <1>4, SpanIsWithin
<1>6. /\ Cardinality(Span(P, k, from, from + WindowLength)) \in Nat
      /\ Cardinality(Span(P, k, from, o)) \in Nat
      /\ Cardinality(Span(P, k, o, from + WindowLength)) \in Nat
      /\ Cardinality(Span(P, k, o, o + WindowLength)) \in Nat
  BY <1>2, SpanIsFinite
<1>7. QED
  BY <1>1, <1>3, <1>5, <1>6

LEMMA LimitsStart == LimitsInit => LimitsInv
<1> SUFFICES ASSUME LimitsInit PROVE LimitsInv
  OBVIOUS
<1>1. clock = 1 /\ attempts = 0 /\ unjust = FALSE /\ passed = {} /\ windows = [k \in Key |-> NoWindow]
  BY DEF LimitsInit
<1>2. NoWindow \in [count : Nat, resetAt : Nat] /\ NoWindow.resetAt = 0
  BY DEF NoWindow
<1>3. IsFiniteSet(passed)
  BY <1>1, FS_EmptySet
<1>4. LimitsTyped
  BY <1>1, <1>2, <1>3 DEF LimitsTyped
<1>5. WindowsStand
  BY <1>1, <1>2 DEF WindowsStand, NeverAsked
<1>6. \A k \in Key, from \in Nat : Span(passed, k, from, from + WindowLength) = {}
  BY <1>1 DEF Span
<1>7. Cardinality({}) = 0 /\ 0 <= 2 * Limit - 1
  BY FS_EmptySet, LimitsAssumption DEF LimitsAssumption
<1>8. StretchesHold
  BY <1>6, <1>7 DEF StretchesHold
<1>9. QED
  BY <1>1, <1>4, <1>5, <1>8 DEF LimitsInv

LEMMA TimePassesKeeps ==
    ASSUME LimitsInv, TimePasses
    PROVE  LimitsInv'
<1>1. clock' = clock + 1 /\ UNCHANGED <<windows, passed, attempts, unjust>>
  BY DEF TimePasses
<1>2. clock \in Nat /\ clock > 0
  BY DEF LimitsInv, LimitsTyped
<1>3. LimitsTyped'
  BY <1>1, <1>2 DEF LimitsInv, LimitsTyped
<1>4. ASSUME NEW k \in Key
      PROVE  (NeverAsked(k) \/ \E o \in 1..clock : OpenedAt(k, o))'
  <2>1. windows[k].resetAt \in Nat /\ WindowLength \in Nat
    BY LimitsTypes
  <2>2. CASE NeverAsked(k)
    BY <1>1, <1>2, <2>1, <2>2 DEF NeverAsked
  <2>3. ASSUME NEW o \in 1..clock, OpenedAt(k, o)
        PROVE  o \in 1..clock' /\ OpenedAt(k, o)'
    <3>1. o \in Nat /\ o \in 1..clock'
      BY <1>1, <1>2
    <3>2. windows[k].resetAt <= clock + 1 => o + WindowLength <= clock + 1
      BY <1>2, <2>1, <2>3, <3>1 DEF OpenedAt
    <3>3. windows[k].resetAt > clock + 1 => windows[k].resetAt > clock
      BY <1>2, <2>1
    <3>4. QED
      BY <1>1, <2>3, <3>1, <3>2, <3>3 DEF OpenedAt
  <2>4. QED
    BY <2>2, <2>3 DEF LimitsInv, WindowsStand
<1>5. WindowsStand'
  BY <1>4 DEF WindowsStand
<1>6. StretchesHold' /\ ~unjust'
  BY <1>1 DEF LimitsInv, StretchesHold
<1>7. QED
  BY <1>3, <1>5, <1>6 DEF LimitsInv

LEMMA SweepKeeps ==
    ASSUME LimitsInv, Sweep
    PROVE  LimitsInv'
<1>1. /\ windows' = [k \in Key |-> IF windows[k].resetAt <= clock THEN NoWindow ELSE windows[k]]
      /\ UNCHANGED <<clock, passed, attempts, unjust>>
  BY DEF Sweep
<1>2. NoWindow \in [count : Nat, resetAt : Nat] /\ NoWindow.resetAt = 0
  BY DEF NoWindow
<1>3. windows' \in [Key -> [count : Nat, resetAt : Nat]]
  BY <1>1, <1>2 DEF LimitsInv, LimitsTyped
<1>4. LimitsTyped'
  BY <1>1, <1>3 DEF LimitsInv, LimitsTyped
<1>5. ASSUME NEW k \in Key
      PROVE  (NeverAsked(k) \/ \E o \in 1..clock : OpenedAt(k, o))'
  <2>1. windows[k].resetAt \in Nat /\ clock \in Nat
    BY LimitsTypes
  <2>2. (windows[k].resetAt <= clock)' <=> windows[k].resetAt <= clock
    BY <1>1, <1>2, <2>1
  <2>3. windows[k].resetAt > clock => windows'[k] = windows[k]
    BY <1>1, <2>1
  <2>4. (windows[k].resetAt > clock)' => windows[k].resetAt > clock
    BY <1>1, <1>2, <2>1
  <2>5. CASE NeverAsked(k)
    BY <1>1, <2>2, <2>5 DEF NeverAsked
  <2>6. ASSUME NEW o \in 1..clock, OpenedAt(k, o)
        PROVE  OpenedAt(k, o)'
    BY <1>1, <2>2, <2>3, <2>4, <2>6 DEF OpenedAt
  <2>7. QED
    BY <1>1, <2>5, <2>6 DEF LimitsInv, WindowsStand
<1>6. WindowsStand'
  BY <1>5 DEF WindowsStand
<1>7. StretchesHold' /\ ~unjust'
  BY <1>1 DEF LimitsInv, StretchesHold
<1>8. QED
  BY <1>4, <1>6, <1>7 DEF LimitsInv

LEMMA RestartKeeps ==
    ASSUME LimitsInv, ProcessRestarts
    PROVE  LimitsInv'
<1>1. windows' = [k \in Key |-> NoWindow] /\ passed' = {} /\ UNCHANGED <<clock, attempts, unjust>>
  BY DEF ProcessRestarts
<1>2. NoWindow \in [count : Nat, resetAt : Nat] /\ NoWindow.resetAt = 0
  BY DEF NoWindow
<1>3. IsFiniteSet(passed')
  BY <1>1, FS_EmptySet
<1>4. LimitsTyped'
  BY <1>1, <1>2, <1>3 DEF LimitsInv, LimitsTyped
<1>5. WindowsStand'
  BY <1>1, <1>2 DEF LimitsInv, LimitsTyped, WindowsStand, NeverAsked
<1>6. \A k \in Key, from \in Nat : Span(passed', k, from, from + WindowLength) = {}
  BY <1>1 DEF Span
<1>7. Cardinality({}) = 0 /\ 0 <= 2 * Limit - 1
  BY FS_EmptySet, LimitsAssumption DEF LimitsAssumption
<1>8. StretchesHold'
  BY <1>6, <1>7 DEF StretchesHold
<1>9. QED
  BY <1>1, <1>4, <1>5, <1>8 DEF LimitsInv
\* A request let through opens a window or is counted in the one that is open,
\* and the window leaves room for it.
LEMMA LetThroughKeepsTheWindow ==
    ASSUME LimitsInv, NEW k \in Key, NEW x, x \notin passed, x.key = k, x.at = clock,
           NEW w, passed' = passed \cup {x}, windows' = [windows EXCEPT ![k] = w],
           UNCHANGED clock,
           IF windows[k].resetAt <= clock
           THEN w = [count |-> 1, resetAt |-> clock + WindowLength]
           ELSE /\ w = [windows[k] EXCEPT !.count = @ + 1]
                /\ w.count <= Limit
    PROVE  \E o \in 1..clock : OpenedAt(k, o)'
<1>1. /\ windows[k].count \in Nat /\ windows[k].resetAt \in Nat
      /\ windows[k] \in [count : Nat, resetAt : Nat]
      /\ clock \in Nat /\ clock > 0 /\ IsFiniteSet(passed)
      /\ Limit \in Nat /\ Limit > 0 /\ WindowLength \in Nat /\ WindowLength > 0
  BY LimitsTypes
<1>2. windows'[k] = w
  BY DEF LimitsInv, LimitsTyped
<1>3. \A r \in passed : r.at \in Nat /\ r.at <= clock
  BY <1>1 DEF LimitsInv, LimitsTyped
<1>4. x \in passed'
  OBVIOUS
<1>5. CASE windows[k].resetAt <= clock
  <2>1. w.count = 1 /\ w.resetAt = clock + WindowLength /\ w.resetAt > clock
    BY <1>1, <1>5
  <2>2. Cardinality(Span(passed, k, clock, clock + WindowLength)) = 0
    <3>1. \A r \in passed : r.key = k => r.at < clock
      <4>1. CASE NeverAsked(k)
        BY <4>1 DEF NeverAsked
      <4>2. ASSUME NEW o \in 1..clock, OpenedAt(k, o)
            PROVE  \A r \in passed : r.key = k => r.at < clock
        BY <1>1, <1>3, <1>5, <4>2 DEF OpenedAt
      <4>3. QED
        BY <4>1, <4>2 DEF LimitsInv, WindowsStand
    <3>2. Span(passed, k, clock, clock + WindowLength) = {}
      BY <1>1, <1>3, <3>1 DEF Span
    <3>3. QED
      BY <3>2, FS_EmptySet
  <2>3. Cardinality(Span(passed', k, clock, clock + WindowLength)) = 1
    BY <1>1, <2>2, SpanGrows
  <2>4. ASSUME NEW from \in Nat, from + WindowLength > clock
        PROVE  Cardinality(Span(passed', k, from, clock)) <= Limit - 1
    <3>1. Cardinality(Span(passed', k, from, clock)) = Cardinality(Span(passed, k, from, clock))
      <4>1. PICK b \in Nat : b = clock
        BY <1>1
      <4>2. ~(x.at < b)
        BY <1>1, <4>1
      <4>3. Cardinality(Span(passed', k, from, b)) = Cardinality(Span(passed, k, from, b))
        BY <1>1, <4>2, SpanGrows
      <4>4. QED
        BY <4>1, <4>3
    <3>2. CASE NeverAsked(k)
      <4>1. Span(passed, k, from, clock) = {}
        BY <3>2 DEF NeverAsked, Span
      <4>2. QED
        BY <1>1, <3>1, <4>1, FS_EmptySet
    <3>3. ASSUME NEW o \in 1..clock, OpenedAt(k, o)
          PROVE  Cardinality(Span(passed', k, from, clock)) <= Limit - 1
      <4>1. o \in Nat /\ o + WindowLength \in Nat /\ o + WindowLength <= clock /\ from > o
        BY <1>1, <1>5, <2>4, <3>3 DEF OpenedAt
      <4>2. PICK y \in passed : y.key = k /\ y.at = o
        BY <3>3 DEF OpenedAt
      <4>3. y \in Span(passed, k, o, o + WindowLength) /\ y \notin Span(passed, k, from, clock)
        BY <1>1, <4>1, <4>2 DEF Span
      <4>4. Span(passed, k, from, clock) \subseteq Span(passed, k, o, o + WindowLength)
        BY <1>3, <3>3, <4>1 DEF Span, OpenedAt
      <4>5. Cardinality(Span(passed, k, from, clock)) < Cardinality(Span(passed, k, o, o + WindowLength))
        <5>1. IsFiniteSet(Span(passed, k, o, o + WindowLength))
          BY <1>1, <4>1, SpanIsFinite
        <5>2. Span(passed, k, from, clock) # Span(passed, k, o, o + WindowLength)
          BY <4>3
        <5>3. /\ Cardinality(Span(passed, k, from, clock)) \in Nat
              /\ Cardinality(Span(passed, k, o, o + WindowLength)) \in Nat
          BY <1>1, <4>1, SpanIsFinite
        <5>4. Cardinality(Span(passed, k, from, clock)) <= Cardinality(Span(passed, k, o, o + WindowLength))
          BY <4>4, <5>1, FS_Subset
        <5>5. Cardinality(Span(passed, k, from, clock)) # Cardinality(Span(passed, k, o, o + WindowLength))
          BY <4>4, <5>1, <5>2, FS_Subset
        <5>6. QED
          BY <5>3, <5>4, <5>5
      <4>6. /\ Cardinality(Span(passed, k, o, o + WindowLength)) <= Limit
            /\ Cardinality(Span(passed, k, o, o + WindowLength)) \in Nat
            /\ Cardinality(Span(passed, k, from, clock)) \in Nat
        BY <1>1, <3>3, <4>1, SpanIsFinite DEF OpenedAt
      <4>7. QED
        BY <1>1, <3>1, <4>5, <4>6
    <3>4. QED
      BY <3>2, <3>3 DEF LimitsInv, WindowsStand
  <2>5. \A r \in passed' : r.key = k => r.at < clock + WindowLength
    BY <1>1, <1>3
  <2>6. PICK o \in 1..clock : o = clock
    BY <1>1
  <2>7. \E r \in passed' : r.key = k /\ r.at = o
    BY <1>4, <2>6
  <2>8. \A r \in passed' : r.key = k => r.at < o + WindowLength
    BY <2>5, <2>6
  <2>9. Cardinality(Span(passed', k, o, o + WindowLength)) = 1
    BY <2>3, <2>6
  <2>10. \A from \in Nat :
             from + WindowLength > o => Cardinality(Span(passed', k, from, o)) <= Limit - 1
    BY <2>4, <2>6
  <2>11. windows'[k].resetAt = o + WindowLength /\ windows'[k].resetAt > clock' /\ windows'[k].count = 1
    BY <1>1, <1>2, <2>1, <2>6
  <2>12. 1 <= Limit /\ ~(windows'[k].resetAt <= clock')
    BY <1>1, <2>11
  <2>13. OpenedAt(k, o)'
    BY <2>7, <2>8, <2>9, <2>10, <2>11, <2>12 DEF OpenedAt
  <2>14. QED
    BY <2>13
<1>6. CASE windows[k].resetAt > clock
  <2>1. /\ w = [windows[k] EXCEPT !.count = @ + 1] /\ w.count <= Limit
        /\ w.count = windows[k].count + 1 /\ w.resetAt = windows[k].resetAt
    BY <1>1, <1>6
  <2>2. PICK o \in 1..clock : OpenedAt(k, o)
    BY <1>1, <1>6 DEF LimitsInv, WindowsStand, NeverAsked
  <2>3. o \in Nat /\ o + WindowLength \in Nat /\ o + WindowLength > clock /\ windows[k].resetAt = o + WindowLength
    BY <1>1, <1>6, <2>2 DEF OpenedAt
  <2>4. Cardinality(Span(passed, k, o, o + WindowLength)) = windows[k].count
    BY <1>1, <1>6, <2>1, <2>2 DEF OpenedAt
  <2>5. Cardinality(Span(passed', k, o, o + WindowLength)) = windows[k].count + 1
    BY <1>1, <2>2, <2>3, <2>4, SpanGrows
  <2>6. ASSUME NEW from \in Nat, from + WindowLength > o
        PROVE  Cardinality(Span(passed', k, from, o)) <= Limit - 1
    <3>1. Cardinality(Span(passed', k, from, o)) = Cardinality(Span(passed, k, from, o))
      <4>1. ~(x.key = k /\ x.at >= from /\ x.at < o)
        BY <1>1
      <4>2. QED
        BY <1>1, <2>3, <4>1, SpanGrows
    <3>2. QED
      BY <2>2, <2>6, <3>1 DEF OpenedAt
  <2>7. \A r \in passed' : r.key = k => r.at < o + WindowLength
    BY <2>2, <2>3 DEF OpenedAt
  <2>8. \E r \in passed' : r.key = k /\ r.at = o
    BY <2>2 DEF OpenedAt
  <2>9. OpenedAt(k, o)'
    BY <1>1, <1>2, <1>6, <2>1, <2>3, <2>5, <2>6, <2>7, <2>8 DEF OpenedAt
  <2>10. QED
    BY <2>9
<1>7. QED
  BY <1>1, <1>5, <1>6

\* The windows of the other keys are as they were.
LEMMA OtherWindowsStand ==
    ASSUME LimitsInv, NEW k \in Key, NEW j \in Key, j # k, NEW x, x \notin passed, x.key = k,
           NEW w, passed' = passed \cup {x} \/ passed' = passed,
           windows' = [windows EXCEPT ![k] = w], UNCHANGED clock
    PROVE  (NeverAsked(j) \/ \E o \in 1..clock : OpenedAt(j, o))'
<1>1. windows'[j] = windows[j]
  BY DEF LimitsInv, LimitsTyped
<1>2. \A a, b : Span(passed', j, a, b) = Span(passed, j, a, b)
  BY DEF Span
<1>3. CASE NeverAsked(j)
  BY <1>1, <1>3 DEF NeverAsked
<1>4. ASSUME NEW o \in 1..clock, OpenedAt(j, o)
      PROVE  OpenedAt(j, o)'
  <2>1. \E r \in passed' : r.key = j /\ r.at = o
    BY <1>4 DEF OpenedAt
  <2>2. \A r \in passed' : r.key = j => r.at < o + WindowLength
    BY <1>4 DEF OpenedAt
  <2>3. \A from \in Nat :
            from + WindowLength > o => Cardinality(Span(passed', j, from, o)) <= Limit - 1
    BY <1>2, <1>4 DEF OpenedAt
  <2>4. Span(passed', j, o, o + WindowLength) = Span(passed, j, o, o + WindowLength)
    BY <1>2
  <2>5. QED
    BY <1>1, <1>4, <2>1, <2>2, <2>3, <2>4 DEF OpenedAt
<1>5. QED
  BY <1>3, <1>4 DEF LimitsInv, WindowsStand

LEMMA LetThroughKeeps ==
    ASSUME LimitsInv, NEW k \in Key, NEW x, x = [key |-> k, at |-> clock, n |-> attempts],
           NEW w, w \in [count : Nat, resetAt : Nat],
           passed' = passed \cup {x}, windows' = [windows EXCEPT ![k] = w],
           attempts' = attempts + 1, UNCHANGED <<clock, unjust>>,
           IF windows[k].resetAt <= clock
           THEN w = [count |-> 1, resetAt |-> clock + WindowLength]
           ELSE /\ w = [windows[k] EXCEPT !.count = @ + 1]
                /\ w.count <= Limit
    PROVE  LimitsInv'
<1>1. /\ clock \in Nat /\ clock > 0 /\ attempts \in Nat /\ IsFiniteSet(passed)
      /\ Limit \in Nat /\ WindowLength \in Nat /\ WindowLength > 0
  BY LimitsTypes
<1>2. x \in PassedRow /\ x.key = k /\ x.at = clock /\ x.n = attempts
  BY <1>1 DEF PassedRow
<1>3. x \notin passed
  BY <1>1, <1>2 DEF LimitsInv, LimitsTyped
<1>4. LimitsTyped'
  <2>1. IsFiniteSet(passed')
    BY <1>1, FS_AddElement
  <2>2. windows' \in [Key -> [count : Nat, resetAt : Nat]]
    BY DEF LimitsInv, LimitsTyped
  <2>3. \A r \in passed' : r \in PassedRow /\ r.at \in 1..clock /\ r.n < attempts + 1
    <3>1. ASSUME NEW r \in passed
          PROVE  r \in PassedRow /\ r.at \in 1..clock /\ r.n < attempts + 1
      <4>1. r \in PassedRow /\ r.at \in 1..clock /\ r.n < attempts
        BY DEF LimitsInv, LimitsTyped
      <4>2. r.n \in Nat
        BY <4>1 DEF PassedRow
      <4>3. QED
        BY <1>1, <4>1, <4>2
    <3>2. x \in PassedRow /\ x.at \in 1..clock /\ x.n < attempts + 1
      BY <1>1, <1>2
    <3>3. QED
      BY <3>1, <3>2
  <2>4. QED
    BY <1>1, <2>1, <2>2, <2>3 DEF LimitsTyped
<1>5. \E o \in 1..clock : OpenedAt(k, o)'
  BY <1>2, <1>3, LetThroughKeepsTheWindow
<1>6. ASSUME NEW j \in Key
      PROVE  (NeverAsked(j) \/ \E o \in 1..clock : OpenedAt(j, o))'
  <2>1. CASE j = k
    BY <1>5, <2>1
  <2>2. CASE j # k
    BY <1>2, <1>3, <2>2, OtherWindowsStand
  <2>3. QED
    BY <2>1, <2>2
<1>7. WindowsStand'
  BY <1>6 DEF WindowsStand
<1>8. ASSUME NEW j \in Key, NEW from \in Nat
      PROVE  Cardinality(Span(passed', j, from, from + WindowLength)) <= 2 * Limit - 1
  <2> from + WindowLength \in Nat
    BY <1>1
  <2>1. CASE j = k /\ from + WindowLength > clock
    <3>1. PICK o \in 1..clock : OpenedAt(k, o)'
      BY <1>5
    <3>2. o \in Nat /\ from + WindowLength > o
      BY <1>1, <2>1
    <3>3. IsFiniteSet(passed') /\ \A r \in passed' : r.at \in Nat
      BY <1>4 DEF LimitsTyped
    <3>4. \A r \in passed' : r.key = k => r.at < o + WindowLength
      BY <3>1 DEF OpenedAt
    <3>5. Cardinality(Span(passed', k, o, o + WindowLength)) <= Limit
      BY <3>1 DEF OpenedAt
    <3>6. Cardinality(Span(passed', k, from, o)) <= Limit - 1
      BY <3>1, <3>2 DEF OpenedAt
    <3>7. Cardinality(Span(passed', k, from, from + WindowLength)) <= 2 * Limit - 1
      BY <3>2, <3>3, <3>4, <3>5, <3>6, StretchOverWindow
    <3>8. QED
      BY <2>1, <3>7
  <2>2. CASE ~(j = k /\ from + WindowLength > clock)
    <3>1. Cardinality(Span(passed', j, from, from + WindowLength)) =
              Cardinality(Span(passed, j, from, from + WindowLength))
      BY <1>1, <1>2, <1>3, <2>2, SpanGrows
    <3>2. QED
      BY <3>1 DEF LimitsInv, StretchesHold
  <2>3. QED
    BY <2>1, <2>2
<1>9. StretchesHold' /\ ~unjust'
  BY <1>8 DEF LimitsInv, StretchesHold
<1>10. QED
  BY <1>4, <1>7, <1>9 DEF LimitsInv

\* A request refused had all of the limit let through before it, since the
\* window opened.
LEMMA RequestRefusedKeeps ==
    ASSUME LimitsInv, NEW action \in Limited, NEW id \in Caller,
           NEW k, k = <<action, id>>,
           NEW w, w = [windows[k] EXCEPT !.count = @ + 1], w.count > Limit,
           windows[k].resetAt > clock,
           UNCHANGED <<clock, passed>>, windows' = [windows EXCEPT ![k] = w],
           attempts' = attempts + 1,
           unjust' = (unjust \/ Cardinality(Within(action, id,
                          (clock + 1) - (IF clock < WindowLength THEN clock ELSE WindowLength))) < Limit)
    PROVE  LimitsInv'
<1> k \in Key
  BY DEF Key
<1>1. /\ windows[k].count \in Nat /\ windows[k].resetAt \in Nat
      /\ windows[k] \in [count : Nat, resetAt : Nat]
      /\ clock \in Nat /\ clock > 0 /\ attempts \in Nat /\ IsFiniteSet(passed)
      /\ Limit \in Nat /\ WindowLength \in Nat /\ WindowLength > 0
  BY LimitsTypes
<1>2. w \in [count : Nat, resetAt : Nat] /\ w.count = windows[k].count + 1 /\ w.resetAt = windows[k].resetAt
  BY <1>1
<1>3. windows' \in [Key -> [count : Nat, resetAt : Nat]]
  BY <1>2 DEF LimitsInv, LimitsTyped
<1>4. \A r \in passed : r.n < attempts + 1
  <2>1. \A r \in passed : r.n \in Nat /\ r.n < attempts
    BY DEF LimitsInv, LimitsTyped, PassedRow
  <2>2. QED
    BY <1>1, <2>1
<1>5. LimitsTyped'
  BY <1>1, <1>3, <1>4 DEF LimitsInv, LimitsTyped
<1>6. PICK o \in 1..clock : OpenedAt(k, o)
  BY <1>1 DEF LimitsInv, WindowsStand, NeverAsked
<1>7. o \in Nat /\ o > 0 /\ o + WindowLength \in Nat /\ windows[k].resetAt = o + WindowLength
  BY <1>1, <1>6 DEF OpenedAt
<1>8. Cardinality(Span(passed, k, o, o + WindowLength)) = Limit
  BY <1>1, <1>2, <1>6 DEF OpenedAt
<1>9. OpenedAt(k, o)'
  <2>1. windows'[k].resetAt = windows[k].resetAt /\ windows'[k].count = windows[k].count + 1
    BY <1>2 DEF LimitsInv, LimitsTyped
  <2>2. Cardinality(Span(passed, k, o, o + WindowLength)) =
            IF windows'[k].count <= Limit THEN windows'[k].count ELSE Limit
    BY <1>1, <1>2, <1>8, <2>1
  <2>3. QED
    BY <1>1, <1>6, <1>7, <2>1, <2>2 DEF OpenedAt
<1>10. ASSUME NEW j \in Key
       PROVE  (NeverAsked(j) \/ \E p \in 1..clock : OpenedAt(j, p))'
  <2>1. CASE j = k
    BY <1>9, <2>1
  <2>2. CASE j # k
    <3>1. windows'[j] = windows[j]
      BY <2>2 DEF LimitsInv, LimitsTyped
    <3>2. NeverAsked(j) => NeverAsked(j)'
      BY <3>1 DEF NeverAsked
    <3>3. ASSUME NEW p \in 1..clock, OpenedAt(j, p)
          PROVE  OpenedAt(j, p)'
      BY <3>1, <3>3 DEF OpenedAt
    <3>4. QED
      BY <3>2, <3>3 DEF LimitsInv, WindowsStand
  <2>3. QED
    BY <2>1, <2>2
<1>11. WindowsStand'
  BY <1>10 DEF WindowsStand
<1>12. StretchesHold'
  BY DEF LimitsInv, StretchesHold
<1>13. ~unjust'
  <2> DEFINE from == (clock + 1) - (IF clock < WindowLength THEN clock ELSE WindowLength)
  <2>1. from \in Nat /\ from <= o /\ from + WindowLength > clock /\ from + WindowLength \in Nat
    BY <1>1, <1>7
  <2>2. Within(action, id, from) = Span(passed, k, from, from + WindowLength)
    BY DEF Within, Span
  <2> HIDE DEF from
  <2>3. \A r \in passed : r.at \in Nat /\ r.at <= clock
    BY <1>1 DEF LimitsInv, LimitsTyped
  <2>4. Span(passed, k, o, o + WindowLength) \subseteq Span(passed, k, from, from + WindowLength)
    BY <1>1, <1>7, <2>1, <2>3 DEF Span
  <2>5. Limit <= Cardinality(Span(passed, k, from, from + WindowLength))
    BY <1>1, <1>7, <1>8, <2>1, <2>4, SpanIsWithin
  <2>6. Cardinality(Span(passed, k, from, from + WindowLength)) \in Nat
    BY <1>1, <2>1, SpanIsFinite
  <2>7. ~(Cardinality(Within(action, id, from)) < Limit)
    BY <1>1, <2>2, <2>5, <2>6
  <2>8. QED
    BY <2>7 DEF LimitsInv, from
<1>14. QED
  BY <1>5, <1>11, <1>12, <1>13 DEF LimitsInv

LEMMA HitKeeps ==
    ASSUME LimitsInv, NEW action \in Limited, NEW id \in Caller, Hit(action, id)
    PROVE  LimitsInv'
<1> DEFINE k == <<action, id>>
<1>1. k \in Key
  BY DEF Key
<1>2. /\ windows[k].count \in Nat /\ windows[k].resetAt \in Nat
      /\ windows[k] \in [count : Nat, resetAt : Nat]
      /\ clock \in Nat /\ clock > 0
      /\ Limit \in Nat /\ Limit > 0 /\ WindowLength \in Nat
      /\ Closed(windows[k]) <=> windows[k].resetAt <= clock
  BY <1>1, LimitsTypes
<1>3. PICK w : /\ w = IF Closed(windows[k]) THEN [count |-> 1, resetAt |-> clock + WindowLength]
                      ELSE [windows[k] EXCEPT !.count = @ + 1]
               /\ attempts' = attempts + 1 /\ clock' = clock
               /\ windows' = [windows EXCEPT ![k] = w]
               /\ IF w.count <= Limit
                  THEN /\ passed' = passed \cup {[key |-> k, at |-> clock, n |-> attempts]}
                       /\ unjust' = unjust
                  ELSE /\ unjust' = (unjust \/ Cardinality(Within(action, id,
                              (clock + 1) - (IF clock < WindowLength THEN clock ELSE WindowLength))) < Limit)
                       /\ passed' = passed
  BY DEF Hit, KeyOf, CountIn
<1> HIDE DEF k
<1>4. w \in [count : Nat, resetAt : Nat]
  BY <1>2, <1>3
<1>5. CASE w.count <= Limit
  <2>1. PICK x : x = [key |-> k, at |-> clock, n |-> attempts]
    OBVIOUS
  <2>2. passed' = passed \cup {x} /\ UNCHANGED <<clock, unjust>>
    BY <1>3, <1>5, <2>1
  <2>3. IF windows[k].resetAt <= clock
        THEN w = [count |-> 1, resetAt |-> clock + WindowLength]
        ELSE w = [windows[k] EXCEPT !.count = @ + 1] /\ w.count <= Limit
    BY <1>2, <1>3, <1>5
  <2>4. QED
    BY <1>1, <1>3, <1>4, <2>1, <2>2, <2>3, LetThroughKeeps
<1>6. CASE ~(w.count <= Limit)
  <2>1. windows[k].resetAt > clock /\ w = [windows[k] EXCEPT !.count = @ + 1]
    BY <1>2, <1>3, <1>6
  <2>2. w.count > Limit
    BY <1>2, <1>4, <1>6
  <2>3. UNCHANGED <<clock, passed>>
    BY <1>3, <1>6
  <2>4. k = <<action, id>>
    BY DEF k
  <2>5. QED
    BY <1>3, <1>6, <2>1, <2>2, <2>3, <2>4, RequestRefusedKeeps
<1>7. QED
  BY <1>5, <1>6

LEMMA LimitsStay ==
    ASSUME LimitsInv, [LimitsNext]_limitVars
    PROVE  LimitsInv'
<1>1. ASSUME NEW action \in Limited, NEW id \in Caller, Hit(action, id)
      PROVE  LimitsInv'
  BY <1>1, HitKeeps
<1>2. CASE UNCHANGED limitVars
  BY <1>2 DEF limitVars, LimitsInv, LimitsTyped, WindowsStand, NeverAsked, OpenedAt, StretchesHold
<1>3. QED
  BY <1>1, <1>2, SweepKeeps, TimePassesKeeps, RestartKeeps DEF LimitsNext

\* lib/rateLimit.ts: no stretch of one window's length lets through twice the
\* limit of an action and caller, and a refusal comes only after the limit has
\* been let through, for every limit, window length and number of requests.
THEOREM TheLimitIsTheLimit == LimitsSpec => []LimitsHold
<1>1. LimitsInv => LimitsHold
  <2> SUFFICES ASSUME LimitsInv PROVE LimitsHold
    OBVIOUS
  <2>1. ASSUME NEW k \in Key, NEW from \in 1..ClockBound
        PROVE  Cardinality(Within(k[1], k[2], from)) <= 2 * Limit - 1
    <3>1. k = <<k[1], k[2]>>
      BY DEF Key
    <3>2. Within(k[1], k[2], from) = Span(passed, k, from, from + WindowLength)
      BY <3>1 DEF Within, Span
    <3>3. from \in Nat
      BY LimitsAssumption DEF LimitsAssumption
    <3>4. QED
      BY <3>2, <3>3 DEF LimitsInv, StretchesHold
  <2>2. QED
    BY <2>1 DEF LimitsInv, LimitsHold
<1>2. QED
  BY <1>1, LimitsStart, LimitsStay, PTL DEF LimitsSpec

\* Nobody is let through more often than somebody asked.
WindowsAreBounded ==
    /\ clock <= ClockBound /\ attempts <= AttemptBound
    /\ \A k \in Key : windows[k].count <= attempts

LEMMA WindowsStayBounded == LimitsInv /\ WindowsAreBounded /\ [LimitsNext]_limitVars => WindowsAreBounded'
<1> SUFFICES ASSUME LimitsInv, WindowsAreBounded, [LimitsNext]_limitVars
             PROVE  WindowsAreBounded'
  OBVIOUS
<1>1. windows \in [Key -> [count : Nat, resetAt : Nat]] /\ clock \in Nat /\ attempts \in Nat
  BY DEF LimitsInv, LimitsTyped
<1>2. CASE UNCHANGED limitVars
  BY <1>2 DEF limitVars, WindowsAreBounded
<1>3. CASE TimePasses
  BY <1>1, <1>3, LimitsAssumption DEF TimePasses, WindowsAreBounded
<1>4. NoWindow.count = 0
  BY DEF NoWindow
<1>5. CASE Sweep \/ ProcessRestarts
  <2>1. UNCHANGED <<clock, attempts>> /\ \A k \in Key : windows'[k] = NoWindow \/ windows'[k] = windows[k]
    BY <1>5 DEF Sweep, ProcessRestarts
  <2>2. QED
    BY <1>1, <1>4, <2>1 DEF WindowsAreBounded
<1>6. ASSUME NEW action \in Limited, NEW id \in Caller, Hit(action, id)
      PROVE  WindowsAreBounded'
  <2>1. PICK k : k = KeyOf(action, id)
    OBVIOUS
  <2>2. k \in Key
    BY <2>1 DEF KeyOf, Key
  <2>3. PICK w : w = IF Closed(windows[k]) THEN [count |-> 1, resetAt |-> clock + WindowLength] ELSE CountIn(windows[k])
    OBVIOUS
  <2>4. windows' = [windows EXCEPT ![k] = w] /\ attempts < AttemptBound /\ attempts' = attempts + 1 /\ clock' = clock
    BY <1>6, <2>1, <2>3 DEF Hit
  <2>5. windows[k] \in [count : Nat, resetAt : Nat] /\ windows[k].count <= attempts
    BY <1>1, <2>2 DEF WindowsAreBounded
  <2>6. w.count <= attempts + 1
    BY <1>1, <2>3, <2>5 DEF CountIn
  <2>7. \A m \in Key : windows'[m].count <= attempts + 1
    <3>1. \A m \in Key : windows'[m] = windows[m] \/ windows'[m] = w
      BY <1>1, <2>2, <2>4
    <3>2. \A m \in Key : windows[m].count \in Nat /\ windows[m].count <= attempts
      BY <1>1 DEF WindowsAreBounded
    <3>3. QED
      BY <1>1, <2>6, <3>1, <3>2
  <2>8. QED
    BY <1>1, <2>4, <2>7, LimitsAssumption DEF WindowsAreBounded
<1>7. QED
  BY <1>2, <1>3, <1>5, <1>6 DEF LimitsNext

LEMMA LimitsTypesStay == LimitsSpec => []LimitsTypeOK
<1>1. LimitsInit => WindowsAreBounded
  BY LimitsAssumption DEF LimitsInit, WindowsAreBounded, NoWindow
<1>2. LimitsInv /\ WindowsAreBounded => LimitsTypeOK
  <2> SUFFICES ASSUME LimitsInv, WindowsAreBounded
               PROVE  LimitsTypeOK
    OBVIOUS
  <2>1. clock \in Nat \ {0} /\ attempts \in Nat /\ ~unjust
    BY DEF LimitsInv, LimitsTyped
  <2>2. clock \in 1..ClockBound /\ attempts \in 0..AttemptBound
    BY <2>1, LimitsAssumption DEF WindowsAreBounded
  <2>3. \A k \in Key : windows[k].count \in 0..AttemptBound
    <3>1. \A k \in Key : windows[k].count \in Nat
      BY DEF LimitsInv, LimitsTyped
    <3>2. QED
      BY <2>1, <3>1, LimitsAssumption DEF WindowsAreBounded
  <2>4. \A r \in passed : r.key \in Key /\ r.at \in 1..clock
    BY DEF LimitsInv, LimitsTyped, PassedRow
  <2>5. unjust = FALSE
    BY <2>1
  <2>6. QED
    BY <2>2, <2>3, <2>4, <2>5 DEF LimitsTypeOK
<1>3. QED
  BY <1>1, <1>2, WindowsStayBounded, LimitsStart, LimitsStay, PTL DEF LimitsSpec

---------------------------------------------------------------------------
(* Mail: the saved server and its caches                                 *)

Save == 0..SaveBoundary
Known == [at : 0..MailClock, save : Save, on : BOOLEAN, old : BOOLEAN]
Letter == [pc : {"idle", "config", "keep", "secret", "send", "other route"}, save : Save, on : BOOLEAN,
           fresh : BOOLEAN, secret : Save, test : BOOLEAN]

MailTyped ==
    /\ moment \in 1..MailClock /\ letters \in 0..LetterBound
    /\ server \in [save : Save, on : BOOLEAN] /\ secret \in Save
    /\ known \in [Worker -> Known] /\ letter \in [Worker -> Letter]
    /\ replaced \in [Save -> 0..moment]

\* A cache filled with what was stored knows of no save made before it.
KnownIsDated ==
    \A w \in Worker :
        /\ known[w].at <= moment /\ known[w].save <= server.save
        /\ known[w] # Unknown /\ ~known[w].old /\ known[w].save # server.save
               => replaced[known[w].save] >= known[w].at

\* The password follows the server within the moment.
SecretsFollow ==
    \A w \in Worker :
        letter[w].pc = "secret" /\ letter[w].fresh /\ letter[w].save # server.save
            => moment - replaced[letter[w].save] < CacheLife

LettersAreOfSaves ==
    /\ \A w \in Worker : letter[w].save <= server.save
    /\ secret <= server.save

MailInv == MailTyped /\ KnownIsDated /\ SecretsFollow /\ LettersAreOfSaves /\ SavedMailIsUsed /\ saver \in Worker

LEMMA MailStart == MailInit => MailInv
<1> SUFFICES ASSUME MailInit
             PROVE  MailInv
  OBVIOUS
<1> USE MailAssumption DEF MailAssumption
<1>1. /\ moment = 1 /\ letters = 0 /\ server = [save |-> 0, on |-> TRUE] /\ secret = 0 /\ saver \in Worker
      /\ known = [w \in Worker |-> Unknown] /\ letter = [w \in Worker |-> NoLetter]
      /\ replaced = [s \in 0..SaveBoundary |-> 0] /\ late = FALSE /\ mixed = FALSE
  BY DEF MailInit
<1>2. Unknown \in Known /\ Unknown.at = 0 /\ Unknown.save = 0
  BY DEF Unknown, Known, Save
<1>3. NoLetter \in Letter /\ NoLetter.pc = "idle" /\ NoLetter.save = 0
  BY DEF NoLetter, Letter, Save
<1>4. MailTyped
  <2>1. server \in [save : Save, on : BOOLEAN] /\ secret \in Save
    BY <1>1 DEF Save
  <2>2. known \in [Worker -> Known]
    BY <1>1, <1>2
  <2>3. letter \in [Worker -> Letter]
    BY <1>1, <1>3
  <2>4. replaced \in [Save -> 0..moment]
    BY <1>1 DEF Save
  <2>5. QED
    BY <1>1, <2>1, <2>2, <2>3, <2>4 DEF MailTyped
<1>5. KnownIsDated /\ SecretsFollow /\ LettersAreOfSaves
  BY <1>1, <1>2, <1>3 DEF KnownIsDated, SecretsFollow, LettersAreOfSaves
<1>6. SavedMailIsUsed
  BY <1>1 DEF SavedMailIsUsed, SaverKnows
<1>7. QED
  BY <1>1, <1>4, <1>5, <1>6 DEF MailInv

LEMMA MailTypes ==
    MailInv =>
        /\ moment \in Nat /\ moment >= 1 /\ server.save \in Save /\ server.save \in Nat
        /\ server.on \in BOOLEAN /\ secret \in Save
        /\ \A s \in Save : s \in Nat /\ replaced[s] \in Nat /\ replaced[s] <= moment
        /\ \A w \in Worker : known[w].at \in Nat /\ known[w].save \in Save
                             /\ known[w].on \in BOOLEAN /\ known[w].old \in BOOLEAN
        /\ \A w \in Worker : letter[w].save \in Save /\ letter[w].on \in BOOLEAN
                             /\ letter[w].fresh \in BOOLEAN
<1> SUFFICES ASSUME MailInv
             PROVE  /\ moment \in Nat /\ moment >= 1 /\ server.save \in Save /\ server.save \in Nat
                    /\ server.on \in BOOLEAN /\ secret \in Save
                    /\ \A s \in Save : s \in Nat /\ replaced[s] \in Nat /\ replaced[s] <= moment
                    /\ \A w \in Worker : known[w].at \in Nat /\ known[w].save \in Save
                                         /\ known[w].on \in BOOLEAN /\ known[w].old \in BOOLEAN
                    /\ \A w \in Worker : letter[w].save \in Save /\ letter[w].on \in BOOLEAN
                                         /\ letter[w].fresh \in BOOLEAN
  OBVIOUS
<1> USE MailAssumption DEF MailAssumption
<1>1. moment \in Nat /\ moment >= 1
  BY DEF MailInv, MailTyped
<1>2. server \in [save : Save, on : BOOLEAN] /\ secret \in Save
  BY DEF MailInv, MailTyped
<1>3. server.save \in Save /\ server.save \in Nat /\ server.on \in BOOLEAN
  BY <1>2 DEF Save
<1>4. ASSUME NEW s \in Save
      PROVE  s \in Nat /\ replaced[s] \in Nat /\ replaced[s] <= moment
  <2>1. replaced[s] \in 0..moment
    BY DEF MailInv, MailTyped
  <2>2. QED
    BY <1>1, <2>1 DEF Save
<1>5. ASSUME NEW w \in Worker
      PROVE  /\ known[w].at \in Nat /\ known[w].save \in Save
             /\ known[w].on \in BOOLEAN /\ known[w].old \in BOOLEAN
  <2>1. known[w] \in Known
    BY DEF MailInv, MailTyped
  <2>2. QED
    BY <2>1 DEF Known
<1>6. ASSUME NEW w \in Worker
      PROVE  letter[w].save \in Save /\ letter[w].on \in BOOLEAN /\ letter[w].fresh \in BOOLEAN
  <2>1. letter[w] \in Letter
    BY DEF MailInv, MailTyped
  <2>2. QED
    BY <2>1 DEF Letter
<1>7. QED
  BY <1>1, <1>2, <1>3, <1>4, <1>5, <1>6

\* A save of one process: what the others remember is dated by it, and the
\* messages under way have a moment to come.
LEMMA SaveMailKeeps ==
    ASSUME MailInv, NEW w \in Worker, SaveMail(w)
    PROVE  MailInv'
<1> USE MailAssumption DEF MailAssumption
<1>1. PICK s : s = server.save + 1
  OBVIOUS
<1>2. PICK on \in BOOLEAN, retyped \in BOOLEAN :
          /\ s = server.save + 1 /\ s <= SaveBoundary
          /\ server' = [save |-> s, on |-> on]
          /\ secret' = IF retyped THEN s ELSE secret
  BY <1>1 DEF SaveMail
<1>3. /\ known' = [known EXCEPT ![w] = Unknown] /\ saver' = w
      /\ replaced' = [replaced EXCEPT ![server.save] = moment]
      /\ UNCHANGED <<moment, letter, letters, late, mixed>>
  BY DEF SaveMail, Forget
<1>4. /\ moment \in Nat /\ moment >= 1 /\ server.save \in Save /\ server.save \in Nat /\ secret \in Save
      /\ \A t \in Save : t \in Nat /\ replaced[t] \in Nat /\ replaced[t] <= moment
      /\ \A v \in Worker : known[v].at \in Nat /\ known[v].save \in Save
      /\ \A v \in Worker : letter[v].save \in Save
  BY MailTypes
<1>5. s \in Save /\ server'.save = s
  BY <1>2, <1>4 DEF Save
<1>6. Unknown \in Known /\ Unknown.at = 0 /\ Unknown.save = 0
  BY DEF Unknown, Known, Save
<1>7. known \in [Worker -> Known] /\ replaced \in [Save -> 0..moment]
  BY DEF MailInv, MailTyped
<1>8. known'[w] = Unknown /\ \A v \in Worker \ {w} : known'[v] = known[v]
  BY <1>3, <1>7
<1>9. replaced'[server.save] = moment /\ \A t \in Save \ {server.save} : replaced'[t] = replaced[t]
  BY <1>3, <1>4, <1>7
<1>10. MailTyped'
  <2>1. server' \in [save : Save, on : BOOLEAN]
    BY <1>2, <1>5
  <2>2. secret' \in Save
    BY <1>2, <1>4, <1>5
  <2>3. known' \in [Worker -> Known]
    BY <1>3, <1>6, <1>7
  <2>4. replaced' \in [Save -> 0..moment]
    BY <1>3, <1>4, <1>7
  <2>5. QED
    BY <1>3, <2>1, <2>2, <2>3, <2>4 DEF MailInv, MailTyped
<1>11. KnownIsDated'
  <2>1. ASSUME NEW v \in Worker
        PROVE  /\ known'[v].at <= moment /\ known'[v].save <= s
               /\ known'[v] # Unknown /\ ~known'[v].old /\ known'[v].save # s
                      => replaced'[known'[v].save] >= known'[v].at
    <3>1. CASE v = w
      BY <1>4, <1>5, <1>6, <1>8, <3>1 DEF Save
    <3>2. CASE v # w
      <4>1. known'[v] = known[v]
        BY <1>8, <3>2
      <4>2. known[v].at <= moment /\ known[v].save <= server.save
        BY DEF MailInv, KnownIsDated
      <4>3. known[v] # Unknown /\ ~known[v].old /\ known[v].save # server.save
                => replaced[known[v].save] >= known[v].at
        BY DEF MailInv, KnownIsDated
      <4>4. known[v].save <= s
        BY <1>2, <1>4, <4>2
      <4>5. CASE known[v].save = server.save
        BY <1>9, <4>1, <4>2, <4>4, <4>5
      <4>6. CASE known[v].save # server.save
        BY <1>4, <1>9, <4>1, <4>2, <4>3, <4>4, <4>6
      <4>7. QED
        BY <4>5, <4>6
    <3>3. QED
      BY <3>1, <3>2
  <2>2. QED
    BY <1>3, <1>5, <2>1 DEF KnownIsDated
<1>12. SecretsFollow'
  <2>1. ASSUME NEW v \in Worker, letter[v].pc = "secret", letter[v].fresh
        PROVE  moment - replaced'[letter[v].save] < CacheLife
    <3>1. CASE letter[v].save = server.save
      BY <1>4, <1>9, <3>1
    <3>2. CASE letter[v].save # server.save
      <4>1. moment - replaced[letter[v].save] < CacheLife
        BY <2>1, <3>2 DEF MailInv, SecretsFollow
      <4>2. QED
        BY <1>4, <1>9, <3>2, <4>1
    <3>3. QED
      BY <3>1, <3>2
  <2>2. QED
    BY <1>3, <2>1 DEF SecretsFollow
<1>13. LettersAreOfSaves'
  <2>1. \A v \in Worker : letter[v].save <= server.save
    BY DEF MailInv, LettersAreOfSaves
  <2>2. secret <= server.save
    BY DEF MailInv, LettersAreOfSaves
  <2>3. \A v \in Worker : letter[v].save <= s
    BY <1>2, <1>4, <2>1
  <2>4. secret' <= s
    BY <1>2, <1>4, <2>2
  <2>5. QED
    BY <1>3, <1>5, <2>3, <2>4 DEF LettersAreOfSaves
<1>14. SavedMailIsUsed' /\ saver' \in Worker
  BY <1>3, <1>8 DEF MailInv, SavedMailIsUsed, SaverKnows
<1>15. QED
  BY <1>10, <1>11, <1>12, <1>13, <1>14 DEF MailInv

\* A message goes on, by a server that was not replaced too long ago.
LEMMA LetterGoesOn ==
    ASSUME MailInv, NEW w \in Worker, NEW l \in Letter, Hold(w, l), l.save <= server.save,
           l.pc = "secret" /\ l.fresh /\ l.save # server.save => moment - replaced[l.save] < CacheLife,
           UNCHANGED <<moment, server, secret, replaced>>
    PROVE  /\ letter' \in [Worker -> Letter] /\ SecretsFollow' /\ LettersAreOfSaves'
<1>1. letter \in [Worker -> Letter]
  BY DEF MailInv, MailTyped
<1>2. letter' = [letter EXCEPT ![w] = l]
  BY DEF Hold
<1>3. letter'[w] = l /\ \A v \in Worker \ {w} : letter'[v] = letter[v]
  BY <1>1, <1>2
<1>4. SecretsFollow'
  <2>1. ASSUME NEW v \in Worker, letter'[v].pc = "secret", letter'[v].fresh, letter'[v].save # server.save
        PROVE  moment - replaced[letter'[v].save] < CacheLife
    <3>1. CASE v = w
      BY <1>3, <2>1, <3>1
    <3>2. CASE v # w
      BY <1>3, <2>1, <3>2 DEF MailInv, SecretsFollow
    <3>3. QED
      BY <3>1, <3>2
  <2>2. QED
    BY <2>1 DEF SecretsFollow
<1>5. LettersAreOfSaves'
  BY <1>3 DEF MailInv, LettersAreOfSaves
<1>6. QED
  BY <1>1, <1>2, <1>4, <1>5

\* What was remembered in time is taken in time.
LEMMA TakeKeeps ==
    ASSUME MailInv, NEW w \in Worker, NEW k \in Known, Take(w, k), k.save <= server.save,
           ~TooLate(k.save, k.old),
           UNCHANGED <<moment, server, secret, replaced>>
    PROVE  /\ letter' \in [Worker -> Letter] /\ SecretsFollow' /\ LettersAreOfSaves' /\ ~late'
<1>1. letter[w] \in Letter
  BY DEF MailInv, MailTyped
<1>2. /\ moment \in Nat /\ server.save \in Nat
      /\ \A s \in Save : s \in Nat /\ replaced[s] \in Nat
  BY MailTypes
<1>3. k.save \in Save /\ k.on \in BOOLEAN /\ k.old \in BOOLEAN
  BY DEF Known
<1>4. ~late'
  BY DEF Take, MailInv, SavedMailIsUsed
<1>5. PICK l \in Letter :
          /\ Hold(w, l) /\ l.save <= server.save
          /\ l.pc = "secret" => l.save = k.save /\ l.fresh = ~k.old
  <2>1. CASE k.on
    <3> DEFINE l == [letter[w] EXCEPT !.pc = "secret", !.save = k.save, !.on = TRUE, !.fresh = ~k.old]
    <3>1. Hold(w, l)
      BY <2>1 DEF Take
    <3>2. l \in Letter
      BY <1>1, <1>3 DEF Letter
    <3>3. l.save = k.save /\ l.fresh = ~k.old
      BY <1>1 DEF Letter
    <3> HIDE DEF l
    <3>4. QED
      BY <3>1, <3>2, <3>3
  <2>2. CASE ~k.on /\ letter[w].test
    <3>1. Hold(w, NoLetter)
      BY <2>2 DEF Take
    <3>2. NoLetter \in Letter /\ NoLetter.save = 0 /\ NoLetter.pc = "idle"
      BY MailAssumption DEF NoLetter, Letter, Save, MailAssumption
    <3>3. QED
      BY <1>2, <3>1, <3>2
  <2>3. CASE ~k.on /\ ~letter[w].test
    <3> DEFINE l == [letter[w] EXCEPT !.pc = "other route", !.save = k.save]
    <3>1. Hold(w, l)
      BY <2>3 DEF Take
    <3>2. l \in Letter
      BY <1>1, <1>3 DEF Letter
    <3>3. l.save = k.save /\ l.pc = "other route"
      BY <1>1 DEF Letter
    <3> HIDE DEF l
    <3>4. QED
      BY <3>1, <3>2, <3>3
  <2>4. QED
    BY <1>3, <2>1, <2>2, <2>3
<1>6. l.pc = "secret" /\ l.fresh /\ l.save # server.save => moment - replaced[l.save] < CacheLife
  <2>1. SUFFICES ASSUME l.pc = "secret", l.fresh, l.save # server.save
                 PROVE  moment - replaced[l.save] < CacheLife
    OBVIOUS
  <2>2. ~k.old /\ k.save # server.save /\ l.save = k.save
    BY <1>5, <2>1
  <2>3. ~(moment - replaced[k.save] >= CacheLife)
    BY <2>2 DEF TooLate
  <2>4. QED
    BY <1>2, <1>3, <2>2, <2>3, MailAssumption DEF MailAssumption
<1>7. QED
  BY <1>4, <1>5, <1>6, LetterGoesOn

LEMMA TakeKnownKeeps ==
    ASSUME MailInv, NEW w \in Worker, TakeKnown(w)
    PROVE  MailInv'
<1>1. /\ UNCHANGED <<moment, server, secret, saver, known, letters, replaced, pairs, mixed>>
      /\ Good(known[w]) /\ Take(w, known[w])
  BY DEF TakeKnown
<1>2. known[w] \in Known
  BY DEF MailInv, MailTyped
<1>3. known[w].save <= server.save
  BY DEF MailInv, KnownIsDated
<1>4. ~TooLate(known[w].save, known[w].old)
  <2>1. SUFFICES ASSUME ~known[w].old, known[w].save # server.save
                 PROVE  ~(moment - replaced[known[w].save] >= CacheLife)
    BY DEF TooLate
  <2>2. known[w] # Unknown /\ moment - known[w].at < CacheLife
    BY <1>1 DEF Good
  <2>3. replaced[known[w].save] >= known[w].at
    BY <2>1, <2>2 DEF MailInv, KnownIsDated
  <2>4. known[w].save \in Save /\ known[w].at \in Nat /\ moment \in Nat
    BY MailTypes
  <2>5. replaced[known[w].save] \in Nat
    BY <2>4, MailTypes
  <2>6. QED
    BY <2>2, <2>3, <2>4, <2>5, MailAssumption DEF MailAssumption
<1>5. letter' \in [Worker -> Letter] /\ SecretsFollow' /\ LettersAreOfSaves' /\ ~late'
  BY <1>1, <1>2, <1>3, <1>4, TakeKeeps
<1>6. MailTyped'
  BY <1>1, <1>5 DEF MailInv, MailTyped
<1>7. KnownIsDated' /\ SavedMailIsUsed' /\ saver' \in Worker
  BY <1>1, <1>5 DEF MailInv, KnownIsDated, SavedMailIsUsed, SaverKnows
<1>8. QED
  BY <1>5, <1>6, <1>7 DEF MailInv

\* What the database answered is kept with the date it is kept at: if it was
\* replaced meanwhile it was old at once.
LEMMA KeepServerKeeps ==
    ASSUME MailInv, NEW w \in Worker, KeepServer(w)
    PROVE  MailInv'
<1> USE MailAssumption DEF MailAssumption
<1> DEFINE k == [at |-> moment, save |-> letter[w].save, on |-> letter[w].on,
                 old |-> letter[w].save # server.save]
<1>1. /\ UNCHANGED <<moment, server, secret, saver, letters, replaced, pairs, mixed>>
      /\ known' = [known EXCEPT ![w] = k] /\ Take(w, k)
  BY DEF KeepServer
<1>2. /\ moment \in Nat /\ moment >= 1 /\ letter[w].save \in Save /\ letter[w].on \in BOOLEAN
  BY MailTypes
<1>3. moment \in 0..MailClock
  BY DEF MailInv, MailTyped
<1>4. k \in Known
  BY <1>2, <1>3 DEF Known
<1>5. k.at = moment /\ k.save = letter[w].save /\ (k.old <=> k.save # server.save)
  OBVIOUS
<1>6. k.save <= server.save
  BY <1>5 DEF MailInv, LettersAreOfSaves
<1> HIDE DEF k
<1>7. ~TooLate(k.save, k.old)
  BY <1>5 DEF TooLate
<1>8. letter' \in [Worker -> Letter] /\ SecretsFollow' /\ LettersAreOfSaves' /\ ~late'
  BY <1>1, <1>4, <1>6, <1>7, TakeKeeps
<1>9. known \in [Worker -> Known]
  BY DEF MailInv, MailTyped
<1>10. known'[w] = k /\ \A v \in Worker \ {w} : known'[v] = known[v]
  BY <1>1, <1>9
<1>11. MailTyped'
  <2>1. known' \in [Worker -> Known]
    BY <1>1, <1>4, <1>9
  <2>2. QED
    BY <1>1, <1>8, <2>1 DEF MailInv, MailTyped
<1>12. KnownIsDated'
  <2>1. ASSUME NEW v \in Worker
        PROVE  /\ known'[v].at <= moment /\ known'[v].save <= server.save
               /\ known'[v] # Unknown /\ ~known'[v].old /\ known'[v].save # server.save
                      => replaced[known'[v].save] >= known'[v].at
    <3>1. CASE v = w
      <4>1. known'[v] = k
        BY <1>10, <3>1
      <4>2. k.at <= moment /\ k.save <= server.save /\ (k.old \/ k.save = server.save)
        BY <1>2, <1>5, <1>6
      <4>3. QED
        BY <4>1, <4>2
    <3>2. CASE v # w
      BY <1>10, <3>2 DEF MailInv, KnownIsDated
    <3>3. QED
      BY <3>1, <3>2
  <2>2. QED
    BY <1>1, <2>1 DEF KnownIsDated
<1>13. SavedMailIsUsed' /\ saver' \in Worker
  <2>1. CASE saver = w
    <3>1. known'[saver].save = server.save \/ known'[saver].old
      BY <1>5, <1>10, <2>1
    <3>2. QED
      BY <1>1, <1>8, <3>1 DEF MailInv, SavedMailIsUsed, SaverKnows
  <2>2. CASE saver # w
    <3>1. known'[saver] = known[saver]
      BY <1>10, <2>2 DEF MailInv
    <3>2. QED
      BY <1>1, <1>8, <3>1 DEF MailInv, SavedMailIsUsed, SaverKnows
  <2>3. QED
    BY <2>1, <2>2
<1>14. QED
  BY <1>8, <1>11, <1>12, <1>13 DEF MailInv

\* A message begins, asks for the server or is sent: nothing is taken yet, or
\* any more.
LEMMA LetterOnlyKeeps ==
    ASSUME MailInv, NEW w \in Worker, BeginLetter(w) \/ ReadServer(w) \/ SendLetter(w)
    PROVE  MailInv'
<1> USE MailAssumption DEF MailAssumption
<1>1. UNCHANGED <<moment, server, secret, known, saver, replaced, pairs, late, mixed>>
  BY DEF BeginLetter, ReadServer, SendLetter, HistoryStays
<1>2. letters' \in 0..LetterBound
  <2>1. letters \in 0..LetterBound
    BY DEF MailInv, MailTyped
  <2>2. letters' = letters \/ (letters < LetterBound /\ letters' = letters + 1)
    BY DEF BeginLetter, ReadServer, SendLetter
  <2>3. QED
    BY <2>1, <2>2
<1>3. letter[w] \in Letter
  BY DEF MailInv, MailTyped
<1>4. server.save \in Save /\ server.save \in Nat /\ server.on \in BOOLEAN
  BY MailTypes
<1>5. NoLetter \in Letter /\ NoLetter.pc = "idle" /\ NoLetter.save = 0
  BY DEF NoLetter, Letter, Save
<1>6. ASSUME NEW test \in BOOLEAN
      PROVE  /\ [NoLetter EXCEPT !.pc = "config", !.test = test] \in Letter
             /\ [NoLetter EXCEPT !.pc = "config", !.test = test].pc = "config"
             /\ [NoLetter EXCEPT !.pc = "config", !.test = test].save = 0
  BY <1>5 DEF Letter
<1>7. /\ [NoLetter EXCEPT !.pc = "config"] \in Letter
      /\ [NoLetter EXCEPT !.pc = "config"].pc = "config"
      /\ [NoLetter EXCEPT !.pc = "config"].save = 0
  BY <1>5 DEF Letter
<1>8. PICK l \in Letter : Hold(w, l) /\ l.pc # "secret" /\ l.save <= server.save
  <2>1. CASE BeginLetter(w)
    <3>1. PICK test \in BOOLEAN : Hold(w, [NoLetter EXCEPT !.pc = "config", !.test = test])
      BY <2>1 DEF BeginLetter
    <3> DEFINE l == [NoLetter EXCEPT !.pc = "config", !.test = test]
    <3>2. Hold(w, l) /\ l \in Letter /\ l.pc = "config" /\ l.save = 0
      BY <1>6, <3>1
    <3> HIDE DEF l
    <3>3. QED
      BY <1>4, <3>2
  <2>2. CASE ReadServer(w)
    <3> DEFINE l == [letter[w] EXCEPT !.pc = "keep", !.save = server.save, !.on = server.on]
    <3>1. Hold(w, l)
      BY <2>2 DEF ReadServer
    <3>2. l \in Letter
      BY <1>3, <1>4 DEF Letter
    <3>3. l.pc = "keep" /\ l.save = server.save
      BY <1>3 DEF Letter
    <3> HIDE DEF l
    <3>4. QED
      BY <1>4, <3>1, <3>2, <3>3
  <2>3. CASE SendLetter(w)
    <3>1. CASE Hold(w, NoLetter)
      BY <1>4, <1>5, <3>1
    <3>2. CASE Hold(w, [NoLetter EXCEPT !.pc = "config"])
      <4> DEFINE l == [NoLetter EXCEPT !.pc = "config"]
      <4>1. Hold(w, l) /\ l \in Letter /\ l.pc = "config" /\ l.save = 0
        BY <1>7, <3>2
      <4> HIDE DEF l
      <4>2. QED
        BY <1>4, <4>1
    <3>3. QED
      BY <2>3, <3>1, <3>2 DEF SendLetter
  <2>4. QED
    BY <2>1, <2>2, <2>3
<1>9. letter' \in [Worker -> Letter] /\ SecretsFollow' /\ LettersAreOfSaves'
  BY <1>1, <1>8, LetterGoesOn
<1>10. MailTyped'
  BY <1>1, <1>2, <1>9 DEF MailInv, MailTyped
<1>11. KnownIsDated' /\ SavedMailIsUsed' /\ saver' \in Worker
  BY <1>1 DEF MailInv, KnownIsDated, SavedMailIsUsed, SaverKnows
<1>12. QED
  BY <1>9, <1>10, <1>11 DEF MailInv

LEMMA ReadSecretKeeps ==
    ASSUME MailInv, NEW w \in Worker, ReadSecret(w)
    PROVE  MailInv'
<1> USE MailAssumption DEF MailAssumption
<1>1. /\ UNCHANGED <<moment, server, secret, saver, known, letters, replaced, pairs, late>>
      /\ letter[w].pc = "secret"
      /\ mixed' = (mixed \/ (secret # pairs[letter[w].save] /\ TooLate(letter[w].save, ~letter[w].fresh)))
  BY DEF ReadSecret
<1>2. letter[w] \in Letter /\ secret \in Save
  BY DEF MailInv, MailTyped
<1>3. /\ letter[w].save \in Save /\ moment \in Nat /\ letter[w].fresh \in BOOLEAN
      /\ \A s \in Save : replaced[s] \in Nat
  BY MailTypes
<1>4. ~TooLate(letter[w].save, ~letter[w].fresh)
  <2>1. SUFFICES ASSUME letter[w].fresh, letter[w].save # server.save
                 PROVE  ~(moment - replaced[letter[w].save] >= CacheLife)
    BY <1>3 DEF TooLate
  <2>2. moment - replaced[letter[w].save] < CacheLife
    BY <1>1, <2>1 DEF MailInv, SecretsFollow
  <2>3. QED
    BY <1>3, <2>2
<1>5. PICK l \in Letter : Hold(w, l) /\ l.pc = "send" /\ l.save = letter[w].save
  <2> DEFINE l == [letter[w] EXCEPT !.pc = "send", !.secret = secret]
  <2>1. Hold(w, l)
    BY DEF ReadSecret
  <2>2. l \in Letter /\ l.pc = "send" /\ l.save = letter[w].save
    BY <1>2 DEF Letter
  <2> HIDE DEF l
  <2>3. QED
    BY <2>1, <2>2
<1>6. l.save <= server.save
  BY <1>5 DEF MailInv, LettersAreOfSaves
<1>7. letter' \in [Worker -> Letter] /\ SecretsFollow' /\ LettersAreOfSaves'
  BY <1>1, <1>5, <1>6, LetterGoesOn
<1>8. MailTyped'
  BY <1>1, <1>7 DEF MailInv, MailTyped
<1>9. KnownIsDated' /\ SavedMailIsUsed' /\ saver' \in Worker
  BY <1>1, <1>4 DEF MailInv, KnownIsDated, SavedMailIsUsed, SaverKnows
<1>10. QED
  BY <1>7, <1>8, <1>9 DEF MailInv

LEMMA MailTimeKeeps ==
    ASSUME MailInv, MailTimePasses
    PROVE  MailInv'
<1> USE MailAssumption DEF MailAssumption
<1>1. /\ moment < MailClock /\ moment' = moment + 1
      /\ \A w \in Worker : letter[w].pc # "secret"
      /\ UNCHANGED <<server, secret, known, letter, letters, saver, replaced, pairs, late, mixed>>
  BY DEF MailTimePasses, HistoryStays
<1>2. moment \in 1..MailClock
  BY DEF MailInv, MailTyped
<1>3. moment' \in 1..MailClock
  BY <1>1, <1>2
<1>4. MailTyped'
  <2>1. replaced' \in [Save -> 0..moment']
    <3>1. replaced \in [Save -> 0..moment]
      BY DEF MailInv, MailTyped
    <3>2. 0..moment \subseteq 0..moment'
      BY <1>1, <1>2
    <3>3. QED
      BY <1>1, <3>1, <3>2
  <2>2. QED
    BY <1>1, <1>3, <2>1 DEF MailInv, MailTyped
<1>5. KnownIsDated'
  <2>1. \A w \in Worker : known[w].at \in Nat
    BY MailTypes
  <2>2. \A w \in Worker : known[w].at <= moment
    BY DEF MailInv, KnownIsDated
  <2>3. \A w \in Worker : known[w].at <= moment'
    BY <1>1, <1>2, <2>1, <2>2
  <2>4. QED
    BY <1>1, <2>3 DEF MailInv, KnownIsDated
<1>6. SecretsFollow' /\ LettersAreOfSaves' /\ SavedMailIsUsed' /\ saver' \in Worker
  BY <1>1 DEF MailInv, SecretsFollow, LettersAreOfSaves, SavedMailIsUsed, SaverKnows
<1>7. QED
  BY <1>4, <1>5, <1>6 DEF MailInv

LEMMA MailStep == MailInv /\ [MailNext]_mailVars => MailInv'
<1> SUFFICES ASSUME MailInv, [MailNext]_mailVars
             PROVE  MailInv'
  OBVIOUS
<1>1. ASSUME NEW w \in Worker, SaveMail(w)
      PROVE  MailInv'
  BY <1>1, SaveMailKeeps
<1>2. ASSUME NEW w \in Worker, BeginLetter(w) \/ ReadServer(w) \/ SendLetter(w)
      PROVE  MailInv'
  BY <1>2, LetterOnlyKeeps
<1>3. ASSUME NEW w \in Worker, TakeKnown(w) \/ KeepServer(w)
      PROVE  MailInv'
  BY <1>3, TakeKnownKeeps, KeepServerKeeps
<1>4. ASSUME NEW w \in Worker, ReadSecret(w)
      PROVE  MailInv'
  BY <1>4, ReadSecretKeeps
<1>5. CASE MailTimePasses
  BY <1>5, MailTimeKeeps
<1>6. CASE UNCHANGED mailVars
  BY <1>6 DEF mailVars, MailInv, MailTyped, KnownIsDated, SecretsFollow, LettersAreOfSaves,
              SavedMailIsUsed, SaverKnows
<1>7. QED
  BY <1>1, <1>2, <1>3, <1>4, <1>5, <1>6 DEF MailNext

\* getSmtpConfig keeps the server for a minute in each process, and a save
\* empties the cache of its own only: no message goes by a server, or a
\* password, that was replaced longer ago.
THEOREM MailIsCurrent == MailSpec => []SavedMailIsUsed
<1>1. MailInv => SavedMailIsUsed
  BY DEF MailInv
<1>2. QED
  BY <1>1, MailStart, MailStep, PTL DEF MailSpec

LEMMA MailTypesStay == MailSpec => []MailTypeOK
<1>1. MailInv => MailTypeOK
  BY DEF MailInv, MailTyped, KnownIsDated, LettersAreOfSaves, MailTypeOK, Save
<1>2. QED
  BY <1>1, MailStart, MailStep, PTL DEF MailSpec

---------------------------------------------------------------------------
(* Deploy: the host and its process                                      *)

ProcessRow == [pc : {"up", "exiting", "down", "loading", "loaded"}, code : Nat, startedWith : Nat,
               young : BOOLEAN, asked : BOOLEAN]
JobRow == [brings : Nat, pc : {"done", "failed", "copying", "migrate", "touch", "smoke"}]

DeployTyped ==
    /\ files \in Nat /\ schema \in Nat /\ touched \in Nat /\ exits \in Nat
    /\ job \in JobRow /\ process \in ProcessRow /\ early \in BOOLEAN
    /\ doubt \in {"none", "young", "gave up", "fooled"}

\* How far a deploy has come: what it brings is in place before the database
\* is migrated, and both before the touch.
JobGoesInOrder ==
    /\ schema <= job.brings
    /\ job.pc \in {"migrate", "touch", "smoke"} => files = job.brings
    /\ job.pc \in {"touch", "smoke"} => schema = job.brings

\* Every exit that answered a touch has one of its own, and a process that is
\* up has answered none since it looked at the file.
ExitsHaveTouches ==
    /\ exits + 1 <= touched /\ process.startedWith <= touched
    /\ process.pc = "up" => exits + 1 <= process.startedWith

\* Who answers a touch does so while the job waits for it.
JobWaits ==
    doubt = "none" =>
        /\ process.pc = "up" /\ Changed => job.pc = "smoke"
        /\ process.pc = "exiting" => job.pc = "smoke"
        /\ process.pc \in {"down", "loading"} /\ process.asked => job.pc = "smoke"
        /\ process.pc \in {"loaded", "up"} /\ process.asked => process.code <= schema

\* A process that was not young at the touch and is now, was started since.
YoungIsNew ==
    /\ process.pc \in Starting => process.young
    /\ job.pc = "smoke" /\ ~early /\ process.young =>
           /\ process.pc # "exiting"
           /\ process.pc \in {"loaded", "up"} => process.code = job.brings
           /\ process.pc = "up" => process.startedWith = touched

DeployInv == DeployTyped /\ JobGoesInOrder /\ ExitsHaveTouches /\ JobWaits /\ YoungIsNew /\ SmokeMeansDeployed

LEMMA DeployTypes ==
    DeployInv =>
        /\ files \in Nat /\ schema \in Nat /\ touched \in Nat /\ exits \in Nat /\ early \in BOOLEAN
        /\ job.brings \in Nat /\ job.pc \in {"done", "failed", "copying", "migrate", "touch", "smoke"}
        /\ job = [brings |-> job.brings, pc |-> job.pc]
        /\ process.pc \in {"up", "exiting", "down", "loading", "loaded"}
        /\ process.code \in Nat /\ process.startedWith \in Nat
        /\ process.young \in BOOLEAN /\ process.asked \in BOOLEAN
        /\ process = [pc |-> process.pc, code |-> process.code, startedWith |-> process.startedWith,
                      young |-> process.young, asked |-> process.asked]
<1>1. ASSUME DeployInv PROVE job \in JobRow /\ process \in ProcessRow
  BY <1>1 DEF DeployInv, DeployTyped
<1>2. job \in JobRow => job.brings \in Nat /\ job.pc \in {"done", "failed", "copying", "migrate", "touch", "smoke"}
  BY DEF JobRow
<1>3. process \in ProcessRow =>
          /\ process.pc \in {"up", "exiting", "down", "loading", "loaded"}
          /\ process.code \in Nat /\ process.startedWith \in Nat
          /\ process.young \in BOOLEAN /\ process.asked \in BOOLEAN
  BY DEF ProcessRow
<1>4. job \in JobRow => job = [brings |-> job.brings, pc |-> job.pc]
  BY DEF JobRow
<1>5. process \in ProcessRow =>
          process = [pc |-> process.pc, code |-> process.code, startedWith |-> process.startedWith,
                     young |-> process.young, asked |-> process.asked]
  BY DEF ProcessRow
<1>6. QED
  BY <1>1, <1>2, <1>3, <1>4, <1>5 DEF DeployInv, DeployTyped

LEMMA DeployStart == DeployInit => DeployInv
<1> SUFFICES ASSUME DeployInit
             PROVE  DeployInv
  OBVIOUS
<1>1. job \in JobRow /\ job.brings = 0 /\ job.pc = "done"
  BY DEF DeployInit, JobRow
<1>2. /\ process \in ProcessRow /\ process.pc = "up" /\ process.startedWith = 1
      /\ ~process.young /\ ~process.asked
  <2>1. process = [pc |-> "up", code |-> 0, startedWith |-> 1, young |-> FALSE, asked |-> FALSE]
    BY DEF DeployInit
  <2>2. process \in ProcessRow
    BY <2>1 DEF ProcessRow
  <2>3. QED
    BY <2>1, <2>2
<1>3. files = 0 /\ schema = 0 /\ touched = 1 /\ exits = 0 /\ early = FALSE /\ doubt = "none"
  BY DEF DeployInit
<1>4. DeployTyped
  <2>1. early \in BOOLEAN /\ doubt \in {"none", "young", "gave up", "fooled"}
    BY <1>3
  <2>2. QED
    BY <1>1, <1>2, <1>3, <2>1 DEF DeployTyped
<1>5. JobGoesInOrder /\ ExitsHaveTouches
  BY <1>1, <1>2, <1>3 DEF JobGoesInOrder, ExitsHaveTouches
<1>6. JobWaits /\ YoungIsNew /\ SmokeMeansDeployed
  BY <1>1, <1>2, <1>3 DEF JobWaits, YoungIsNew, SmokeMeansDeployed, Starting, Changed
<1>7. QED
  BY <1>4, <1>5, <1>6 DEF DeployInv

\* The job: the process stays as it is.
LEMMA JobKeeps ==
    ASSUME DeployInv,
           BeginCopy \/ EndCopy \/ JobFails \/ Remote \/ SmokePasses \/ SmokeFails
    PROVE  DeployInv'
<1> USE DeployTypes
<1>1. DeployTyped /\ JobGoesInOrder /\ ExitsHaveTouches /\ JobWaits /\ YoungIsNew /\ SmokeMeansDeployed
  BY DEF DeployInv
<1>2. CASE BeginCopy
  <2>1. DeployTyped'
    <3>1. job' \in JobRow
      <4>1. job' = [brings |-> job.brings + 1, pc |-> "copying"] /\ job.brings + 1 \in Nat
        BY <1>2 DEF BeginCopy
      <4>2. QED
        BY <4>1 DEF JobRow
    <3>2. process' \in ProcessRow
      BY <1>1, <1>2 DEF BeginCopy, Mixed, DeployTyped, ProcessRow
    <3>3. files' \in Nat /\ schema' \in Nat /\ touched' \in Nat /\ exits' \in Nat
      <4>1. files' = Version + 1 /\ UNCHANGED <<schema, touched, exits>>
        BY <1>2 DEF BeginCopy, Mixed
      <4>2. Version + 1 \in Nat
        BY DeployAssumption DEF DeployAssumption
      <4>3. files' \in Nat
        BY <4>1, <4>2
      <4>4. schema' \in Nat /\ touched' \in Nat /\ exits' \in Nat
        BY <4>1
      <4>5. QED
        BY <4>3, <4>4
    <3>4. early' \in BOOLEAN /\ doubt' \in {"none", "young", "gave up", "fooled"}
      BY <1>1, <1>2 DEF BeginCopy, Mixed, DeployTyped
    <3>5. QED
      BY <3>1, <3>2, <3>3, <3>4 DEF DeployTyped
  <2>2. JobGoesInOrder'
    <3>1. job'.brings = job.brings + 1 /\ job'.pc = "copying" /\ schema' = schema
      BY <1>2 DEF BeginCopy
    <3>2. QED
      BY <1>1, <3>1 DEF JobGoesInOrder
  <2>3. ExitsHaveTouches'
    BY <1>1, <1>2 DEF BeginCopy, Mixed, ExitsHaveTouches, Changed
  <2>4. JobWaits'
    BY <1>1, <1>2 DEF BeginCopy, Mixed, JobGoesInOrder, JobWaits, YoungIsNew, Changed
  <2>5. YoungIsNew'
    BY <1>1, <1>2 DEF BeginCopy, Mixed, JobGoesInOrder, JobWaits, YoungIsNew, Starting, Changed
  <2>6. SmokeMeansDeployed'
    BY <1>1, <1>2 DEF BeginCopy, Mixed, JobGoesInOrder, YoungIsNew, SmokeMeansDeployed, Changed
  <2>7. QED
    BY <2>1, <2>2, <2>3, <2>4, <2>5, <2>6 DEF DeployInv
<1>3. CASE EndCopy
  <2>1. DeployTyped'
    <3>1. job' \in JobRow
      BY <1>1, <1>3 DEF EndCopy, DeployTyped, JobRow
    <3>2. process' \in ProcessRow
      BY <1>1, <1>3 DEF EndCopy, DeployTyped, ProcessRow
    <3>3. files' \in Nat /\ schema' \in Nat /\ touched' \in Nat /\ exits' \in Nat
      BY <1>3 DEF EndCopy
    <3>4. early' \in BOOLEAN /\ doubt' \in {"none", "young", "gave up", "fooled"}
      BY <1>1, <1>3 DEF EndCopy, DeployTyped
    <3>5. QED
      BY <3>1, <3>2, <3>3, <3>4 DEF DeployTyped
  <2>2. JobGoesInOrder'
    BY <1>1, <1>3 DEF EndCopy, JobGoesInOrder
  <2>3. ExitsHaveTouches'
    BY <1>1, <1>3 DEF EndCopy, ExitsHaveTouches, Changed
  <2>4. JobWaits'
    BY <1>1, <1>3 DEF EndCopy, JobGoesInOrder, JobWaits, YoungIsNew, Changed
  <2>5. YoungIsNew'
    BY <1>1, <1>3 DEF EndCopy, JobGoesInOrder, JobWaits, YoungIsNew, Starting, Changed
  <2>6. SmokeMeansDeployed'
    BY <1>1, <1>3 DEF EndCopy, JobGoesInOrder, YoungIsNew, SmokeMeansDeployed, Changed
  <2>7. QED
    BY <2>1, <2>2, <2>3, <2>4, <2>5, <2>6 DEF DeployInv
<1>4. CASE JobFails
  <2>1. DeployTyped'
    <3>1. job' \in JobRow
      BY <1>1, <1>4 DEF JobFails, DeployTyped, JobRow
    <3>2. process' \in ProcessRow
      BY <1>1, <1>4 DEF JobFails, DeployTyped, ProcessRow
    <3>3. files' \in Nat /\ schema' \in Nat /\ touched' \in Nat /\ exits' \in Nat
      BY <1>4 DEF JobFails
    <3>4. early' \in BOOLEAN /\ doubt' \in {"none", "young", "gave up", "fooled"}
      BY <1>1, <1>4 DEF JobFails, DeployTyped
    <3>5. QED
      BY <3>1, <3>2, <3>3, <3>4 DEF DeployTyped
  <2>2. JobGoesInOrder'
    BY <1>1, <1>4 DEF JobFails, JobGoesInOrder
  <2>3. ExitsHaveTouches'
    BY <1>1, <1>4 DEF JobFails, ExitsHaveTouches, Changed
  <2>4. JobWaits'
    BY <1>1, <1>4 DEF JobFails, JobGoesInOrder, JobWaits, YoungIsNew, Changed
  <2>5. YoungIsNew'
    BY <1>1, <1>4 DEF JobFails, JobGoesInOrder, JobWaits, YoungIsNew, Starting, Changed
  <2>6. SmokeMeansDeployed'
    BY <1>1, <1>4 DEF JobFails, JobGoesInOrder, YoungIsNew, SmokeMeansDeployed, Changed
  <2>7. QED
    BY <2>1, <2>2, <2>3, <2>4, <2>5, <2>6 DEF DeployInv
<1>5. CASE Remote /\ job.pc = "migrate"
  <2>1. DeployTyped'
    <3>1. job' \in JobRow
      BY <1>1, <1>5 DEF Remote, MigrateThenTouch, StartsOld, DeployTyped, JobRow
    <3>2. process' \in ProcessRow
      BY <1>1, <1>5 DEF Remote, MigrateThenTouch, StartsOld, DeployTyped, ProcessRow
    <3>3. files' \in Nat /\ schema' \in Nat /\ touched' \in Nat /\ exits' \in Nat
      BY <1>5 DEF Remote, MigrateThenTouch, StartsOld
    <3>4. early' \in BOOLEAN /\ doubt' \in {"none", "young", "gave up", "fooled"}
      BY <1>1, <1>5 DEF Remote, MigrateThenTouch, StartsOld, DeployTyped
    <3>5. QED
      BY <3>1, <3>2, <3>3, <3>4 DEF DeployTyped
  <2>2. JobGoesInOrder'
    BY <1>1, <1>5 DEF Remote, MigrateThenTouch, StartsOld, JobGoesInOrder
  <2>3. ExitsHaveTouches'
    BY <1>1, <1>5 DEF Remote, MigrateThenTouch, StartsOld, ExitsHaveTouches, Changed
  <2>4. JobWaits'
    BY <1>1, <1>5 DEF Remote, MigrateThenTouch, StartsOld, JobGoesInOrder, JobWaits, YoungIsNew, Changed
  <2>5. YoungIsNew'
    BY <1>1, <1>5 DEF Remote, MigrateThenTouch, StartsOld, JobGoesInOrder, JobWaits, YoungIsNew, Starting, Changed
  <2>6. SmokeMeansDeployed'
    BY <1>1, <1>5 DEF Remote, MigrateThenTouch, StartsOld, JobGoesInOrder, YoungIsNew, SmokeMeansDeployed, Changed
  <2>7. QED
    BY <2>1, <2>2, <2>3, <2>4, <2>5, <2>6 DEF DeployInv
<1>6. CASE Remote /\ job.pc = "touch"
  <2>1. DeployTyped'
    <3>1. job' \in JobRow
      BY <1>1, <1>6 DEF Remote, MigrateThenTouch, StartsOld, DeployTyped, JobRow
    <3>2. process' \in ProcessRow
      BY <1>1, <1>6 DEF Remote, MigrateThenTouch, StartsOld, DeployTyped, ProcessRow
    <3>3. files' \in Nat /\ schema' \in Nat /\ touched' \in Nat /\ exits' \in Nat
      BY <1>6 DEF Remote, MigrateThenTouch, StartsOld
    <3>4. early' \in BOOLEAN /\ doubt' \in {"none", "young", "gave up", "fooled"}
      BY <1>1, <1>6 DEF Remote, MigrateThenTouch, StartsOld, DeployTyped
    <3>5. QED
      BY <3>1, <3>2, <3>3, <3>4 DEF DeployTyped
  <2>2. JobGoesInOrder'
    BY <1>1, <1>6 DEF Remote, MigrateThenTouch, StartsOld, JobGoesInOrder
  <2>3. ExitsHaveTouches'
    <3>1. touched' = touched + 1 /\ UNCHANGED <<process, exits>>
      BY <1>6 DEF Remote, MigrateThenTouch
    <3>2. QED
      BY <1>1, <3>1 DEF ExitsHaveTouches
  <2>4. JobWaits'
    BY <1>1, <1>6 DEF Remote, MigrateThenTouch, StartsOld, JobGoesInOrder, JobWaits, YoungIsNew, Changed
  <2>5. YoungIsNew'
    BY <1>1, <1>6 DEF Remote, MigrateThenTouch, StartsOld, JobGoesInOrder, JobWaits, YoungIsNew, Starting, Changed
  <2>6. SmokeMeansDeployed'
    BY <1>1, <1>6 DEF Remote, MigrateThenTouch, StartsOld, JobGoesInOrder, YoungIsNew, SmokeMeansDeployed, Changed
  <2>7. QED
    BY <2>1, <2>2, <2>3, <2>4, <2>5, <2>6 DEF DeployInv
<1>7. CASE SmokePasses
  <2>1. DeployTyped'
    <3>1. job' \in JobRow
      BY <1>1, <1>7 DEF SmokePasses, DeployTyped, JobRow
    <3>2. process' \in ProcessRow
      BY <1>1, <1>7 DEF SmokePasses, DeployTyped, ProcessRow
    <3>3. files' \in Nat /\ schema' \in Nat /\ touched' \in Nat /\ exits' \in Nat
      BY <1>7 DEF SmokePasses
    <3>4. early' \in BOOLEAN /\ doubt' \in {"none", "young", "gave up", "fooled"}
      BY <1>1, <1>7 DEF SmokePasses, DeployTyped
    <3>5. QED
      BY <3>1, <3>2, <3>3, <3>4 DEF DeployTyped
  <2>2. JobGoesInOrder'
    BY <1>1, <1>7 DEF SmokePasses, JobGoesInOrder
  <2>3. ExitsHaveTouches'
    BY <1>1, <1>7 DEF SmokePasses, ExitsHaveTouches, Changed
  <2>4. JobWaits'
    BY <1>1, <1>7 DEF SmokePasses, JobGoesInOrder, JobWaits, YoungIsNew, Changed
  <2>5. YoungIsNew'
    BY <1>1, <1>7 DEF SmokePasses, JobGoesInOrder, JobWaits, YoungIsNew, Starting, Changed
  <2>6. SmokeMeansDeployed'
    BY <1>1, <1>7 DEF SmokePasses, JobGoesInOrder, YoungIsNew, SmokeMeansDeployed, Changed
  <2>7. QED
    BY <2>1, <2>2, <2>3, <2>4, <2>5, <2>6 DEF DeployInv
<1>8. CASE SmokeFails
  <2>1. DeployTyped'
    <3>1. job' \in JobRow
      BY <1>1, <1>8 DEF SmokeFails, DeployTyped, JobRow
    <3>2. process' \in ProcessRow
      BY <1>1, <1>8 DEF SmokeFails, DeployTyped, ProcessRow
    <3>3. files' \in Nat /\ schema' \in Nat /\ touched' \in Nat /\ exits' \in Nat
      BY <1>8 DEF SmokeFails
    <3>4. early' \in BOOLEAN /\ doubt' \in {"none", "young", "gave up", "fooled"}
      BY <1>1, <1>8 DEF SmokeFails, DeployTyped
    <3>5. QED
      BY <3>1, <3>2, <3>3, <3>4 DEF DeployTyped
  <2>2. JobGoesInOrder'
    BY <1>1, <1>8 DEF SmokeFails, JobGoesInOrder
  <2>3. ExitsHaveTouches'
    BY <1>1, <1>8 DEF SmokeFails, ExitsHaveTouches, Changed
  <2>4. JobWaits'
    BY <1>1, <1>8 DEF SmokeFails, JobGoesInOrder, JobWaits, YoungIsNew, Changed
  <2>5. YoungIsNew'
    BY <1>1, <1>8 DEF SmokeFails, JobGoesInOrder, JobWaits, YoungIsNew, Starting, Changed
  <2>6. SmokeMeansDeployed'
    BY <1>1, <1>8 DEF SmokeFails, JobGoesInOrder, YoungIsNew, SmokeMeansDeployed, Changed
  <2>7. QED
    BY <2>1, <2>2, <2>3, <2>4, <2>5, <2>6 DEF DeployInv
<1>9. QED
  BY <1>2, <1>3, <1>4, <1>5, <1>6, <1>7, <1>8 DEF Remote, MigrateThenTouch

\* The process: the job stays as it is.
LEMMA ProcessKeeps ==
    ASSUME DeployInv, HostStarts \/ Loads \/ Registers \/ Notices \/ Exits \/ Dies \/ GrowsOld
    PROVE  DeployInv'
<1> USE DeployTypes
<1>1. DeployTyped /\ JobGoesInOrder /\ ExitsHaveTouches /\ JobWaits /\ YoungIsNew /\ SmokeMeansDeployed
  BY DEF DeployInv
<1>2. CASE HostStarts
  <2>1. DeployTyped'
    <3>1. job' \in JobRow
      BY <1>1, <1>2 DEF HostStarts, DeployTyped, JobRow
    <3>2. process' \in ProcessRow
      BY <1>1, <1>2 DEF HostStarts, DeployTyped, ProcessRow
    <3>3. files' \in Nat /\ schema' \in Nat /\ touched' \in Nat /\ exits' \in Nat
      BY <1>2 DEF HostStarts
    <3>4. early' \in BOOLEAN /\ doubt' \in {"none", "young", "gave up", "fooled"}
      BY <1>1, <1>2 DEF HostStarts, DeployTyped
    <3>5. QED
      BY <3>1, <3>2, <3>3, <3>4 DEF DeployTyped
  <2>2. JobGoesInOrder'
    BY <1>1, <1>2 DEF HostStarts, JobGoesInOrder
  <2>3. ExitsHaveTouches'
    BY <1>1, <1>2 DEF HostStarts, ExitsHaveTouches, Changed
  <2>4. JobWaits'
    BY <1>1, <1>2 DEF HostStarts, JobGoesInOrder, JobWaits, YoungIsNew, Changed
  <2>5. YoungIsNew'
    BY <1>1, <1>2 DEF HostStarts, JobGoesInOrder, JobWaits, YoungIsNew, Starting, Changed
  <2>6. SmokeMeansDeployed'
    BY <1>1, <1>2 DEF HostStarts, JobGoesInOrder, YoungIsNew, SmokeMeansDeployed, Changed
  <2>7. QED
    BY <2>1, <2>2, <2>3, <2>4, <2>5, <2>6 DEF DeployInv
<1>3. CASE Loads
  <2>1. DeployTyped'
    <3>1. job' \in JobRow
      BY <1>1, <1>3 DEF Loads, DeployTyped, JobRow
    <3>2. process' \in ProcessRow
      BY <1>1, <1>3 DEF Loads, DeployTyped, ProcessRow
    <3>3. files' \in Nat /\ schema' \in Nat /\ touched' \in Nat /\ exits' \in Nat
      BY <1>3 DEF Loads
    <3>4. early' \in BOOLEAN /\ doubt' \in {"none", "young", "gave up", "fooled"}
      BY <1>1, <1>3 DEF Loads, DeployTyped
    <3>5. QED
      BY <3>1, <3>2, <3>3, <3>4 DEF DeployTyped
  <2>2. JobGoesInOrder'
    BY <1>1, <1>3 DEF Loads, JobGoesInOrder
  <2>3. ExitsHaveTouches'
    BY <1>1, <1>3 DEF Loads, ExitsHaveTouches, Changed
  <2>4. JobWaits'
    BY <1>1, <1>3 DEF Loads, JobGoesInOrder, JobWaits, YoungIsNew, Changed
  <2>5. YoungIsNew'
    BY <1>1, <1>3 DEF Loads, JobGoesInOrder, JobWaits, YoungIsNew, Starting, Changed
  <2>6. SmokeMeansDeployed'
    BY <1>1, <1>3 DEF Loads, JobGoesInOrder, YoungIsNew, SmokeMeansDeployed, Changed
  <2>7. QED
    BY <2>1, <2>2, <2>3, <2>4, <2>5, <2>6 DEF DeployInv
<1>4. CASE Registers
  <2>1. DeployTyped'
    <3>1. job' \in JobRow
      BY <1>1, <1>4 DEF Registers, StartWatching, DeployTyped, JobRow
    <3>2. process' \in ProcessRow
      BY <1>1, <1>4 DEF Registers, StartWatching, DeployTyped, ProcessRow
    <3>3. files' \in Nat /\ schema' \in Nat /\ touched' \in Nat /\ exits' \in Nat
      BY <1>4 DEF Registers, StartWatching
    <3>4. early' \in BOOLEAN /\ doubt' \in {"none", "young", "gave up", "fooled"}
      BY <1>1, <1>4 DEF Registers, StartWatching, DeployTyped
    <3>5. QED
      BY <3>1, <3>2, <3>3, <3>4 DEF DeployTyped
  <2>2. JobGoesInOrder'
    BY <1>1, <1>4 DEF Registers, StartWatching, JobGoesInOrder
  <2>3. ExitsHaveTouches'
    BY <1>1, <1>4 DEF Registers, StartWatching, ExitsHaveTouches, Changed
  <2>4. JobWaits'
    BY <1>1, <1>4 DEF Registers, StartWatching, JobGoesInOrder, JobWaits, YoungIsNew, Changed
  <2>5. YoungIsNew'
    BY <1>1, <1>4 DEF Registers, StartWatching, JobGoesInOrder, JobWaits, YoungIsNew, Starting, Changed
  <2>6. SmokeMeansDeployed'
    BY <1>1, <1>4 DEF Registers, StartWatching, JobGoesInOrder, YoungIsNew, SmokeMeansDeployed, Changed
  <2>7. QED
    BY <2>1, <2>2, <2>3, <2>4, <2>5, <2>6 DEF DeployInv
<1>5. CASE Notices
  <2>1. DeployTyped'
    <3>1. job' \in JobRow
      BY <1>1, <1>5 DEF Notices, DeployTyped, JobRow
    <3>2. process' \in ProcessRow
      BY <1>1, <1>5 DEF Notices, DeployTyped, ProcessRow
    <3>3. files' \in Nat /\ schema' \in Nat /\ touched' \in Nat /\ exits' \in Nat
      BY <1>5 DEF Notices
    <3>4. early' \in BOOLEAN /\ doubt' \in {"none", "young", "gave up", "fooled"}
      BY <1>1, <1>5 DEF Notices, DeployTyped
    <3>5. QED
      BY <3>1, <3>2, <3>3, <3>4 DEF DeployTyped
  <2>2. JobGoesInOrder'
    BY <1>1, <1>5 DEF Notices, JobGoesInOrder
  <2>3. ExitsHaveTouches'
    <3>1. /\ exits' = exits + 1 /\ touched' = touched /\ touched # process.startedWith /\ process.pc = "up"
          /\ process'.pc = "exiting" /\ process'.startedWith = process.startedWith
      BY <1>5 DEF Notices, Changed
    <3>2. QED
      BY <1>1, <3>1 DEF ExitsHaveTouches
  <2>4. JobWaits'
    BY <1>1, <1>5 DEF Notices, JobGoesInOrder, JobWaits, YoungIsNew, Changed
  <2>5. YoungIsNew'
    BY <1>1, <1>5 DEF Notices, JobGoesInOrder, JobWaits, YoungIsNew, Starting, Changed
  <2>6. SmokeMeansDeployed'
    BY <1>1, <1>5 DEF Notices, JobGoesInOrder, YoungIsNew, SmokeMeansDeployed, Changed
  <2>7. QED
    BY <2>1, <2>2, <2>3, <2>4, <2>5, <2>6 DEF DeployInv
<1>6. CASE Exits
  <2>1. DeployTyped'
    <3>1. job' \in JobRow
      BY <1>1, <1>6 DEF Exits, DeployTyped, JobRow
    <3>2. process' \in ProcessRow
      BY <1>1, <1>6 DEF Exits, DeployTyped, ProcessRow
    <3>3. files' \in Nat /\ schema' \in Nat /\ touched' \in Nat /\ exits' \in Nat
      BY <1>6 DEF Exits
    <3>4. early' \in BOOLEAN /\ doubt' \in {"none", "young", "gave up", "fooled"}
      BY <1>1, <1>6 DEF Exits, DeployTyped
    <3>5. QED
      BY <3>1, <3>2, <3>3, <3>4 DEF DeployTyped
  <2>2. JobGoesInOrder'
    BY <1>1, <1>6 DEF Exits, JobGoesInOrder
  <2>3. ExitsHaveTouches'
    BY <1>1, <1>6 DEF Exits, ExitsHaveTouches, Changed
  <2>4. JobWaits'
    BY <1>1, <1>6 DEF Exits, JobGoesInOrder, JobWaits, YoungIsNew, Changed
  <2>5. YoungIsNew'
    BY <1>1, <1>6 DEF Exits, JobGoesInOrder, JobWaits, YoungIsNew, Starting, Changed
  <2>6. SmokeMeansDeployed'
    BY <1>1, <1>6 DEF Exits, JobGoesInOrder, YoungIsNew, SmokeMeansDeployed, Changed
  <2>7. QED
    BY <2>1, <2>2, <2>3, <2>4, <2>5, <2>6 DEF DeployInv
<1>7. CASE Dies
  <2>1. DeployTyped'
    <3>1. job' \in JobRow
      BY <1>1, <1>7 DEF Dies, DeployTyped, JobRow
    <3>2. process' \in ProcessRow
      BY <1>1, <1>7 DEF Dies, DeployTyped, ProcessRow
    <3>3. files' \in Nat /\ schema' \in Nat /\ touched' \in Nat /\ exits' \in Nat
      BY <1>7 DEF Dies
    <3>4. early' \in BOOLEAN /\ doubt' \in {"none", "young", "gave up", "fooled"}
      BY <1>1, <1>7 DEF Dies, DeployTyped
    <3>5. QED
      BY <3>1, <3>2, <3>3, <3>4 DEF DeployTyped
  <2>2. JobGoesInOrder'
    BY <1>1, <1>7 DEF Dies, JobGoesInOrder
  <2>3. ExitsHaveTouches'
    BY <1>1, <1>7 DEF Dies, ExitsHaveTouches, Changed
  <2>4. JobWaits'
    BY <1>1, <1>7 DEF Dies, JobGoesInOrder, JobWaits, YoungIsNew, Changed
  <2>5. YoungIsNew'
    BY <1>1, <1>7 DEF Dies, JobGoesInOrder, JobWaits, YoungIsNew, Starting, Changed
  <2>6. SmokeMeansDeployed'
    BY <1>1, <1>7 DEF Dies, JobGoesInOrder, YoungIsNew, SmokeMeansDeployed, Changed
  <2>7. QED
    BY <2>1, <2>2, <2>3, <2>4, <2>5, <2>6 DEF DeployInv
<1>8. CASE GrowsOld
  <2>1. DeployTyped'
    <3>1. job' \in JobRow
      BY <1>1, <1>8 DEF GrowsOld, DeployTyped, JobRow
    <3>2. process' \in ProcessRow
      BY <1>1, <1>8 DEF GrowsOld, DeployTyped, ProcessRow
    <3>3. files' \in Nat /\ schema' \in Nat /\ touched' \in Nat /\ exits' \in Nat
      BY <1>8 DEF GrowsOld
    <3>4. early' \in BOOLEAN /\ doubt' \in {"none", "young", "gave up", "fooled"}
      BY <1>1, <1>8 DEF GrowsOld, DeployTyped
    <3>5. QED
      BY <3>1, <3>2, <3>3, <3>4 DEF DeployTyped
  <2>2. JobGoesInOrder'
    BY <1>1, <1>8 DEF GrowsOld, JobGoesInOrder
  <2>3. ExitsHaveTouches'
    BY <1>1, <1>8 DEF GrowsOld, ExitsHaveTouches, Changed
  <2>4. JobWaits'
    BY <1>1, <1>8 DEF GrowsOld, JobGoesInOrder, JobWaits, YoungIsNew, Changed
  <2>5. YoungIsNew'
    BY <1>1, <1>8 DEF GrowsOld, JobGoesInOrder, JobWaits, YoungIsNew, Starting, Changed
  <2>6. SmokeMeansDeployed'
    BY <1>1, <1>8 DEF GrowsOld, JobGoesInOrder, YoungIsNew, SmokeMeansDeployed, Changed
  <2>7. QED
    BY <2>1, <2>2, <2>3, <2>4, <2>5, <2>6 DEF DeployInv
<1>9. QED
  BY <1>2, <1>3, <1>4, <1>5, <1>6, <1>7, <1>8

\* .github/workflows/ci.yml and lib/restartOnDeploy.ts: one exit for each touch,
\* onto files and a database that are in place, met by the smoke test.
THEOREM DeploysAreWhole == DeploySpec => []DeploysLand
<1>1. DeployInv => DeploysLand
  BY DEF DeployInv, DeployTyped, ProcessRow, ExitsHaveTouches, JobWaits, DeploysLand, OneExitForEachTouch,
     EverythingIsInPlace
<1>2. DeployInv /\ [DeployNext]_deployVars => DeployInv'
  <2>1. CASE UNCHANGED deployVars
    BY <2>1 DEF deployVars, DeployInv, DeployTyped, JobGoesInOrder, ExitsHaveTouches, JobWaits, YoungIsNew,
       SmokeMeansDeployed, Changed
  <2>2. QED
    BY <2>1, JobKeeps, ProcessKeeps DEF DeployNext
<1>3. QED
  BY <1>1, <1>2, DeployStart, PTL DEF DeploySpec

\* A deploy brings a version there is, and touches the file once, after it.
DeployBounds ==
    /\ files <= Mixed /\ process.code <= Mixed /\ crashes \in 0..CrashBound
    /\ job.brings <= Version /\ touched >= 1 /\ touched <= job.brings + 1
    /\ job.pc \in {"copying", "migrate", "touch"} => touched <= job.brings

LEMMA DeployStaysBounded == DeployInv /\ DeployBounds /\ [DeployNext]_deployVars => DeployBounds'
<1> SUFFICES ASSUME DeployInv, DeployBounds, [DeployNext]_deployVars
             PROVE  DeployBounds'
  OBVIOUS
<1> USE DEF DeployBounds
<1>1. /\ files \in Nat /\ touched \in Nat /\ job.brings \in Nat /\ process.code \in Nat
      /\ job = [brings |-> job.brings, pc |-> job.pc]
      /\ process = [pc |-> process.pc, code |-> process.code, startedWith |-> process.startedWith,
                    young |-> process.young, asked |-> process.asked]
  BY DeployTypes
<1>2. Version \in Nat /\ CrashBound \in Nat /\ Mixed = Version + 1 /\ Mixed' = Mixed
  BY DeployAssumption DEF DeployAssumption, Mixed
<1>3. CASE UNCHANGED deployVars
  BY <1>2, <1>3 DEF deployVars
<1>4. CASE BeginCopy
  BY <1>1, <1>2, <1>4 DEF BeginCopy
<1>5. CASE EndCopy
  BY <1>1, <1>2, <1>5 DEF EndCopy
<1>6. CASE JobFails
  BY <1>1, <1>2, <1>6 DEF JobFails
<1>7. CASE Remote
  BY <1>1, <1>2, <1>7 DEF Remote, MigrateThenTouch
<1>8. CASE SmokePasses \/ SmokeFails
  BY <1>1, <1>2, <1>8 DEF SmokePasses, SmokeFails
<1>9. CASE HostStarts
  BY <1>1, <1>2, <1>9 DEF HostStarts
<1>10. CASE Loads
  BY <1>1, <1>2, <1>10 DEF Loads
<1>11. CASE Registers
  BY <1>1, <1>2, <1>11 DEF Registers, StartWatching
<1>12. CASE Notices \/ Exits \/ GrowsOld
  BY <1>1, <1>2, <1>12 DEF Notices, Exits, GrowsOld
<1>13. CASE Dies
  BY <1>1, <1>2, <1>13 DEF Dies
<1>14. QED
  BY <1>3, <1>4, <1>5, <1>6, <1>7, <1>8, <1>9, <1>10, <1>11, <1>12, <1>13 DEF DeployNext

LEMMA DeployTypesStay == DeploySpec => []DeployTypeOK
<1>1. DeployInit => DeployBounds
  <2> SUFFICES ASSUME DeployInit PROVE DeployBounds
    OBVIOUS
  <2>1. Version \in Nat /\ CrashBound \in Nat /\ Mixed = Version + 1
    BY DeployAssumption DEF DeployAssumption, Mixed
  <2>2. files = 0 /\ touched = 1 /\ crashes = 0 /\ job.brings = 0 /\ job.pc = "done" /\ process.code = 0
    BY DEF DeployInit
  <2>3. QED
    BY <2>1, <2>2 DEF DeployBounds
<1>2. DeployInv /\ DeployBounds => DeployTypeOK
  <2> SUFFICES ASSUME DeployInv, DeployBounds PROVE DeployTypeOK
    OBVIOUS
  <2>1. Version \in Nat /\ Mixed = Version + 1
    BY DeployAssumption DEF DeployAssumption, Mixed
  <2>2. /\ files \in Nat /\ schema \in Nat /\ touched \in Nat /\ job.brings \in Nat /\ process.code \in Nat
        /\ process.pc \in {"up", "exiting", "down", "loading", "loaded"} /\ schema <= job.brings
    BY DeployTypes DEF DeployInv, JobGoesInOrder
  <2>3. process.pc \in {"up", "exiting", "down"} \cup Starting
    BY <2>2 DEF Starting
  <2>4. files \in 0..Mixed /\ schema \in 0..Version /\ touched \in 1..(Version + 1)
        /\ job.brings \in 0..Version /\ process.code \in 0..Mixed
    BY <2>1, <2>2 DEF DeployBounds
  <2>5. QED
    BY <2>3, <2>4 DEF DeployBounds, DeployTypeOK
<1>3. DeployInv /\ [DeployNext]_deployVars => DeployInv'
  <2>1. CASE UNCHANGED deployVars
    BY <2>1 DEF deployVars, DeployInv, DeployTyped, JobGoesInOrder, ExitsHaveTouches, JobWaits, YoungIsNew,
       SmokeMeansDeployed, Changed
  <2>2. QED
    BY <2>1, JobKeeps, ProcessKeeps DEF DeployNext
<1>4. QED
  BY <1>1, <1>2, <1>3, DeployStart, DeployStaysBounded, PTL DEF DeploySpec

---------------------------------------------------------------------------
(* Migrations: one statement at a time                                   *)

MigrationRow == [id : Nat, name : Name, state : {"open", "finished", "rolled back"}]
RunnerRow == [pc : {"idle", "record", "execute"}, todo : SUBSET Name, name : Nat, step : Nat, id : Nat]

MigrationsTyped ==
    /\ ran \in [Name -> [1..Statements -> Nat]]
    /\ runner \in [Runner -> RunnerRow]
    /\ records \subseteq MigrationRow /\ IsFiniteSet(records)

OneRunAtATime ==
    \A r \in Runner, q \in Runner : runner[r].pc # "idle" /\ runner[q].pc # "idle" => r = q

\* The rows are told apart by their numbers, and the next number is free.
RecordsAreNumbered ==
    /\ \A one \in records : one.id <= Cardinality(records)
    /\ \A one \in records, other \in records : one.id = other.id => one = other

\* The first k migrations are applied, and of the others at most the next one
\* has begun.
Reached(k) ==
    /\ Applied = 1..k
    /\ \A one \in Unfinished : one.name = k + 1
    /\ \A one \in Unfinished, other \in Unfinished : one = other
    /\ \A m \in Name, s \in 1..Statements :
           /\ m <= k => ran[m][s] = 1
           /\ m > k + 1 \/ (m > k /\ Unfinished = {}) => ran[m][s] = 0

\* What a run that is under way is at: the next one that is not applied.
RunsGoOn(k) ==
    \A r \in Runner :
        /\ runner[r].pc # "idle" => runner[r].todo = Name \ (1..k) /\ k + 1 \in Name
        /\ runner[r].pc = "record" => Unfinished = {}
        /\ runner[r].pc = "execute" =>
               /\ runner[r].name = k + 1 /\ runner[r].step \in 1..(Statements + 1)
               /\ \E one \in Unfinished : one.id = runner[r].id
               /\ \A s \in 1..Statements : ran[k + 1][s] = (IF s < runner[r].step THEN 1 ELSE 0)

MigrationsGood ==
    /\ MigrationsTyped /\ OneRunAtATime /\ RecordsAreNumbered
    /\ \E k \in 0..Migrations : Reached(k) /\ RunsGoOn(k)

MigrationsInv == together \/ MigrationsGood

LEMMA MigrationsStart == MigrationsInit => MigrationsInv
<1> SUFFICES ASSUME MigrationsInit
             PROVE  MigrationsGood
  BY DEF MigrationsInv
<1>1. ran = [m \in Name |-> [s \in 1..Statements |-> 0]] /\ records = {} /\ runner = [r \in Runner |-> NoRun]
  BY DEF MigrationsInit
<1>2. MigrationsTyped
  <2>1. NoRun \in RunnerRow
    BY DEF NoRun, RunnerRow
  <2>2. IsFiniteSet(records)
    BY <1>1, FS_EmptySet
  <2>3. QED
    BY <1>1, <2>1, <2>2 DEF MigrationsTyped
<1>3. \A r \in Runner : runner[r].pc = "idle"
  BY <1>1 DEF NoRun
<1>4. OneRunAtATime /\ RecordsAreNumbered /\ RunsGoOn(0)
  BY <1>1, <1>3 DEF OneRunAtATime, RecordsAreNumbered, RunsGoOn
<1>5. Reached(0)
  <2>1. Applied = 1..0 /\ Unfinished = {}
    BY <1>1 DEF Applied, Unfinished
  <2>2. \A m \in Name, s \in 1..Statements : ran[m][s] = 0 /\ ~(m <= 0)
    BY <1>1 DEF Name
  <2>3. QED
    BY <2>1, <2>2 DEF Reached
<1>6. 0 \in 0..Migrations
  BY MigrationsAssumption DEF MigrationsAssumption
<1>7. QED
  BY <1>2, <1>4, <1>5, <1>6 DEF MigrationsGood

\* The next migration, and what is left after it.
LEMMA NextMigration ==
    ASSUME NEW k \in 0..Migrations, k + 1 \in Name
    PROVE  /\ First(Name \ (1..k)) = k + 1
           /\ (Name \ (1..k)) \ {k + 1} = Name \ (1..(k + 1))
           /\ k + 1 \in 0..Migrations
           /\ 1..(k + 1) = (1..k) \cup {k + 1}
<1>1. Migrations \in Nat /\ k \in Nat
  BY MigrationsAssumption DEF MigrationsAssumption
<1>2. First(Name \ (1..k)) = k + 1
  <2>1. k + 1 \in Name \ (1..k) /\ \A j \in Name \ (1..k) : k + 1 <= j
    BY <1>1 DEF Name
  <2>2. \A m \in Name \ (1..k) : (\A j \in Name \ (1..k) : m <= j) => m = k + 1
    BY <1>1, <2>1 DEF Name
  <2>3. QED
    BY <2>1, <2>2 DEF First
<1>3. QED
  BY <1>1, <1>2 DEF Name

LEMMA SomethingIsLeft ==
    ASSUME NEW k \in 0..Migrations, Name \ (1..k) # {}
    PROVE  k + 1 \in Name
BY MigrationsAssumption DEF MigrationsAssumption, Name

LEMMA BeforeAndAfter ==
    ASSUME NEW k \in 0..Migrations, NEW j \in Name
    PROVE  /\ j <= k + 1 => j <= k \/ j = k + 1
           /\ j > k => j > k + 1 \/ j = k + 1
           /\ ~(k + 1 > k + 1) /\ k + 1 <= k + 1 /\ ~(k + 1 <= k)
           /\ (j <= k => j # k + 1) /\ (j > k + 1 => j # k + 1)
           /\ (j > (k + 1) + 1 => j > k + 1) /\ (j > k + 1 => j > k)
BY MigrationsAssumption DEF MigrationsAssumption, Name

LEMMA OneLess ==
    ASSUME NEW n \in Nat, NEW m, m = n - 1
    PROVE  m + 1 = n
OBVIOUS

LEMMA RowTypes ==
    ASSUME MigrationsTyped, NEW one \in records
    PROVE  /\ one.id \in Nat /\ one.name \in Name /\ one.state \in {"open", "finished", "rolled back"}
           /\ one = [id |-> one.id, name |-> one.name, state |-> one.state]
BY DEF MigrationsTyped, MigrationRow

\* One more row is one more name.
LEMMA NamesOfOneMore ==
    ASSUME NEW S, NEW new
    PROVE  {a.name : a \in S \cup {new}} = {a.name : a \in S} \cup {new.name}
OBVIOUS

\* The one row that is open is given another state.
LEMMA RowChanges ==
    ASSUME MigrationsTyped, RecordsAreNumbered,
           NEW one \in records, Unfinished = {one},
           NEW outcome, outcome = "finished" \/ outcome = "rolled back",
           records' = (records \ {one}) \cup {[one EXCEPT !.state = outcome]}
    PROVE  /\ records' \subseteq MigrationRow /\ IsFiniteSet(records') /\ RecordsAreNumbered'
           /\ Unfinished' = {}
           /\ Applied' = IF outcome = "finished" THEN Applied \cup {one.name} ELSE Applied
<1> DEFINE new == [one EXCEPT !.state = outcome]
<1>1. /\ new.id = one.id /\ new.name = one.name /\ new.state = outcome
      /\ one.id \in Nat /\ one.name \in Name
  BY DEF MigrationsTyped, MigrationRow
<1>2. new \in MigrationRow
  BY DEF MigrationsTyped, MigrationRow
<1>3. records' = (records \ {one}) \cup {new}
  OBVIOUS
<1> HIDE DEF new
<1>4. new \notin records \ {one}
  BY <1>1 DEF RecordsAreNumbered
<1>5. IsFiniteSet(records) /\ Cardinality(records) \in Nat
  BY FS_CardinalityType DEF MigrationsTyped
<1>6. IsFiniteSet(records \ {one}) /\ Cardinality(records \ {one}) = Cardinality(records) - 1
  BY <1>5, FS_RemoveElement
<1>7. IsFiniteSet(records') /\ Cardinality(records') = Cardinality(records)
  <2>1. IsFiniteSet((records \ {one}) \cup {new})
        /\ Cardinality((records \ {one}) \cup {new}) = Cardinality(records \ {one}) + 1
    BY <1>4, <1>6, FS_AddElement
  <2>2. QED
    <3>1. Cardinality(records \ {one}) + 1 = Cardinality(records)
      BY <1>5, <1>6, OneLess
    <3>2. QED
      BY <1>3, <2>1, <3>1
<1>8. RecordsAreNumbered'
  <2>1. ASSUME NEW a \in records' PROVE a.id <= Cardinality(records')
    BY <1>1, <1>3, <1>7, <2>1 DEF RecordsAreNumbered
  <2>2. ASSUME NEW a \in records', NEW b \in records', a.id = b.id PROVE a = b
    BY <1>1, <1>3, <2>2 DEF RecordsAreNumbered
  <2>3. QED
    BY <2>1, <2>2 DEF RecordsAreNumbered
<1>9. Unfinished' = {}
  <2>1. ASSUME NEW a \in records', a.state = "open" PROVE FALSE
    BY <1>1, <1>3, <2>1 DEF Unfinished
  <2>2. QED
    BY <2>1 DEF Unfinished
<1>10. Applied' = IF outcome = "finished" THEN Applied \cup {one.name} ELSE Applied
  <2>1. one.state = "open"
    BY DEF Unfinished
  <2>2. Applied = {a.name : a \in {x \in records : x.state = "finished"}}
        /\ Applied' = {a.name : a \in {x \in records' : x.state = "finished"}}
    BY DEF Applied
  <2>3. CASE outcome = "finished"
    <3>1. {x \in records' : x.state = "finished"} = {x \in records : x.state = "finished"} \cup {new}
      BY <1>1, <1>3, <2>1, <2>3
    <3>2. {a.name : a \in {x \in records' : x.state = "finished"}}
            = {a.name : a \in {x \in records : x.state = "finished"}} \cup {one.name}
      <4>1. {a.name : a \in {x \in records : x.state = "finished"} \cup {new}}
              = {a.name : a \in {x \in records : x.state = "finished"}} \cup {new.name}
        BY NamesOfOneMore
      <4>2. QED
        BY <1>1, <3>1, <4>1
    <3>3. QED
      BY <2>2, <2>3, <3>2
  <2>4. CASE outcome = "rolled back"
    <3>1. {x \in records' : x.state = "finished"} = {x \in records : x.state = "finished"}
      BY <1>1, <1>3, <2>1, <2>4
    <3>2. QED
      BY <2>2, <2>4, <3>1
  <2>5. QED
    BY <2>3, <2>4
<1>11. records' \subseteq MigrationRow
  BY <1>2, <1>3 DEF MigrationsTyped
<1>12. QED
  BY <1>7, <1>8, <1>9, <1>10, <1>11

\* Nothing but the run that acts is under way.
LEMMA OthersAreIdle ==
    ASSUME OneRunAtATime, NEW r \in Runner, runner[r].pc # "idle"
    PROVE  \A q \in Runner : q # r => runner[q].pc = "idle"
BY DEF OneRunAtATime

LEMMA BeginRunKeeps ==
    ASSUME MigrationsGood, NEW r \in Runner, BeginRun(r)
    PROVE  MigrationsInv'
<1>1. MigrationsTyped /\ OneRunAtATime /\ RecordsAreNumbered
  BY DEF MigrationsGood
<1>2. PICK k \in 0..Migrations : Reached(k) /\ RunsGoOn(k)
  BY DEF MigrationsGood
<1> DEFINE new == [NoRun EXCEPT !.pc = "record", !.todo = Name \ Applied]
<1>3. /\ MayBegin(Name \ Applied) /\ runner' = [runner EXCEPT ![r] = new]
      /\ together' = (together \/ Running # {}) /\ UNCHANGED <<ran, records>>
  BY DEF BeginRun
<1>4. new \in RunnerRow /\ new.pc = "record" /\ new.todo = Name \ Applied
  <2>1. PICK todo \in SUBSET Name : todo = Name \ Applied
    OBVIOUS
  <2>2. [NoRun EXCEPT !.pc = "record", !.todo = todo] \in RunnerRow
    BY DEF NoRun, RunnerRow
  <2>3. QED
    BY <2>1, <2>2 DEF NoRun
<1> HIDE DEF new
<1>5. CASE Running # {}
  BY <1>3, <1>5 DEF MigrationsInv
<1>6. CASE Running = {}
  <2>1. \A q \in Runner : runner[q].pc = "idle"
    BY <1>6 DEF Running
  <2>2. new \in RunnerRow /\ new.pc = "record" /\ new.todo = Name \ Applied
    BY <1>4
  <2>3. runner' \in [Runner -> RunnerRow] /\ runner'[r] = new /\ \A q \in Runner : q # r => runner'[q] = runner[q]
    BY <1>1, <1>3, <2>2 DEF MigrationsTyped
  <2>4. MigrationsTyped' /\ RecordsAreNumbered'
    BY <1>1, <1>3, <2>3 DEF MigrationsTyped, RecordsAreNumbered
  <2>5. OneRunAtATime'
    BY <2>1, <2>3 DEF OneRunAtATime
  <2>6. Unfinished' = Unfinished /\ Applied' = Applied /\ Unfinished = {} /\ Name \ Applied # {} /\ Applied = 1..k
    BY <1>2, <1>3 DEF Unfinished, Applied, MayBegin, Reached
  <2>7. Reached(k)'
    BY <1>2, <1>3, <2>6 DEF Reached
  <2>8. RunsGoOn(k)'
    <3>1. k + 1 \in Name
      BY <2>6, SomethingIsLeft
    <3>2. QED
      BY <2>1, <2>2, <2>3, <2>6, <3>1 DEF RunsGoOn
  <2>9. QED
    BY <2>4, <2>5, <2>7, <2>8 DEF MigrationsInv, MigrationsGood
<1>7. QED
  BY <1>5, <1>6

LEMMA RecordStartKeeps ==
    ASSUME MigrationsGood, NEW r \in Runner, RecordStart(r)
    PROVE  MigrationsInv'
<1>1. MigrationsTyped /\ OneRunAtATime /\ RecordsAreNumbered
  BY DEF MigrationsGood
<1>2. PICK k \in 0..Migrations : Reached(k) /\ RunsGoOn(k)
  BY DEF MigrationsGood
<1>3. runner[r].pc = "record" /\ runner[r].todo = Name \ (1..k) /\ k + 1 \in Name /\ Unfinished = {}
  BY <1>2 DEF RecordStart, RunsGoOn
<1>4. First(runner[r].todo) = k + 1
  BY <1>3, NextMigration
<1>5. PICK id : id = Cardinality(records) + 1
  OBVIOUS
<1>6. IsFiniteSet(records) /\ Cardinality(records) \in Nat /\ id \in Nat
  BY <1>1, <1>5, FS_CardinalityType DEF MigrationsTyped
<1> DEFINE new == [id |-> id, name |-> k + 1, state |-> "open"]
           run == [runner[r] EXCEPT !.pc = "execute", !.name = k + 1, !.step = 1, !.id = id]
<1>7. /\ records' = records \cup {new} /\ UNCHANGED <<ran, together>>
      /\ runner' = [runner EXCEPT ![r] = run]
  BY <1>4, <1>5 DEF RecordStart
<1>8. new \in MigrationRow /\ new.id = id /\ new.name = k + 1 /\ new.state = "open"
  BY <1>3, <1>6 DEF MigrationRow
<1>9. k + 1 \in Nat /\ runner[r] \in RunnerRow
  BY <1>1 DEF MigrationsTyped
<1>10. run \in RunnerRow /\ run.pc = "execute" /\ run.todo = runner[r].todo /\ run.name = k + 1 /\ run.step = 1 /\ run.id = id
  BY <1>6, <1>9 DEF RunnerRow
<1> HIDE DEF new, run
<1>11. runner' \in [Runner -> RunnerRow] /\ runner'[r] = run /\ \A q \in Runner : q # r => runner'[q] = runner[q]
  BY <1>1, <1>7, <1>10 DEF MigrationsTyped
<1>12. \A one \in records : one.id \in Nat /\ one.id < id
  <2> SUFFICES ASSUME NEW one \in records PROVE one.id \in Nat /\ one.id < id
    OBVIOUS
  <2>1. one.id \in Nat
    BY <1>1, RowTypes
  <2>2. one.id <= Cardinality(records)
    BY <1>1 DEF RecordsAreNumbered
  <2>3. QED
    BY <1>5, <1>6, <2>1, <2>2
<1>13. IsFiniteSet(records') /\ Cardinality(records') = id
  <2>1. new \notin records
    BY <1>8, <1>12, <1>6
  <2>2. QED
    BY <1>5, <1>6, <1>7, <2>1, FS_AddElement
<1>14. MigrationsTyped'
  BY <1>1, <1>7, <1>8, <1>11, <1>13 DEF MigrationsTyped
<1>15. RecordsAreNumbered'
  <2>1. ASSUME NEW a \in records' PROVE a.id <= Cardinality(records')
    BY <1>6, <1>7, <1>8, <1>12, <1>13, <2>1
  <2>2. ASSUME NEW a \in records', NEW b \in records', a.id = b.id PROVE a = b
    BY <1>1, <1>6, <1>7, <1>8, <1>12, <2>2 DEF RecordsAreNumbered
  <2>3. QED
    BY <2>1, <2>2 DEF RecordsAreNumbered
<1>16. \A q \in Runner : q # r => runner'[q].pc = "idle"
  BY <1>1, <1>3, <1>11, OthersAreIdle
<1>17. OneRunAtATime'
  BY <1>16 DEF OneRunAtATime
<1>18. Unfinished' = {new} /\ Applied' = Applied
  <2>1. {x \in records' : x.state = "open"} = {x \in records : x.state = "open"} \cup {new}
    BY <1>7, <1>8
  <2>2. {x \in records' : x.state = "finished"} = {x \in records : x.state = "finished"}
    BY <1>7, <1>8
  <2>3. QED
    BY <1>3, <2>1, <2>2 DEF Unfinished, Applied
<1>19. Reached(k)'
  BY <1>2, <1>3, <1>7, <1>8, <1>18 DEF Reached
<1>20. RunsGoOn(k)'
  <2>1. \A s \in 1..Statements : ran'[k + 1][s] = 0 /\ ~(s < 1)
    BY <1>2, <1>3, <1>7 DEF Reached
  <2>2. 1 \in 1..(Statements + 1)
    BY MigrationsAssumption DEF MigrationsAssumption
  <2>3. QED
    BY <1>3, <1>8, <1>10, <1>11, <1>16, <1>18, <2>1, <2>2 DEF RunsGoOn
<1>21. QED
  BY <1>14, <1>15, <1>17, <1>19, <1>20 DEF MigrationsInv, MigrationsGood

LEMMA ExecuteKeeps ==
    ASSUME MigrationsGood, NEW r \in Runner, Execute(r)
    PROVE  MigrationsInv'
<1>1. MigrationsTyped /\ OneRunAtATime /\ RecordsAreNumbered
  BY DEF MigrationsGood
<1>2. PICK k \in 0..Migrations : Reached(k) /\ RunsGoOn(k)
  BY DEF MigrationsGood
<1>3. PICK s : s = runner[r].step
  OBVIOUS
<1>4. /\ runner[r].pc = "execute" /\ runner[r].name = k + 1 /\ s \in 1..(Statements + 1) /\ k + 1 \in Name
      /\ runner[r].todo = Name \ (1..k)
      /\ \E one \in Unfinished : one.id = runner[r].id
      /\ \A t \in 1..Statements : ran[k + 1][t] = (IF t < s THEN 1 ELSE 0)
  BY <1>2, <1>3 DEF Execute, RunsGoOn
<1>5. /\ s <= Statements /\ ran' = [ran EXCEPT ![k + 1][s] = @ + 1]
      /\ runner' = [runner EXCEPT ![r].step = s + 1] /\ UNCHANGED <<records, together>>
  BY <1>3, <1>4 DEF Execute
<1>6. s \in 1..Statements /\ s \in Nat /\ Statements \in Nat /\ k \in Nat
  BY <1>4, <1>5, MigrationsAssumption DEF MigrationsAssumption
<1>7. ran' = [ran EXCEPT ![k + 1] = [ran[k + 1] EXCEPT ![s] = 1]]
  <2>1. ran[k + 1][s] + 1 = 1
    BY <1>4, <1>6
  <2>2. QED
    BY <1>5, <2>1
<1>8. ran' \in [Name -> [1..Statements -> Nat]] /\ \A m \in Name : m # k + 1 => ran'[m] = ran[m]
  BY <1>1, <1>4, <1>6, <1>7 DEF MigrationsTyped
<1>9. \A t \in 1..Statements : ran'[k + 1][t] = IF t < s + 1 THEN 1 ELSE 0
  <2>1. \A t \in 1..Statements : ran'[k + 1][t] = IF t = s THEN 1 ELSE ran[k + 1][t]
    BY <1>1, <1>4, <1>6, <1>7 DEF MigrationsTyped
  <2>2. QED
    BY <1>4, <1>6, <2>1
<1> DEFINE run == [runner[r] EXCEPT !.step = s + 1]
<1>10. runner' = [runner EXCEPT ![r] = run]
  BY <1>5
<1>11. runner[r] \in RunnerRow /\ s + 1 \in Nat
  BY <1>1, <1>6 DEF MigrationsTyped
<1>12. run \in RunnerRow /\ run.pc = "execute" /\ run.todo = runner[r].todo /\ run.name = k + 1 /\ run.step = s + 1
       /\ run.id = runner[r].id
  BY <1>4, <1>11 DEF RunnerRow
<1> HIDE DEF run
<1>13. runner' \in [Runner -> RunnerRow] /\ runner'[r] = run /\ \A q \in Runner : q # r => runner'[q] = runner[q]
  BY <1>1, <1>10, <1>12 DEF MigrationsTyped
<1>14. MigrationsTyped' /\ RecordsAreNumbered'
  BY <1>1, <1>5, <1>8, <1>13 DEF MigrationsTyped, RecordsAreNumbered
<1>15. \A q \in Runner : q # r => runner'[q].pc = "idle"
  BY <1>1, <1>4, <1>13, OthersAreIdle
<1>16. OneRunAtATime'
  BY <1>15 DEF OneRunAtATime
<1>17. Unfinished' = Unfinished /\ Applied' = Applied /\ Unfinished # {}
  BY <1>4, <1>5 DEF Unfinished, Applied
<1>18. Reached(k)'
  <2>1. \A m \in Name, t \in 1..Statements :
           /\ m <= k => ran'[m][t] = 1
           /\ m > k + 1 => ran'[m][t] = 0
    BY <1>2, <1>6, <1>8 DEF Reached
  <2>2. QED
    BY <1>2, <1>17, <2>1 DEF Reached
<1>19. RunsGoOn(k)'
  <2>1. s + 1 \in 1..(Statements + 1)
    BY <1>6
  <2>2. QED
    BY <1>4, <1>9, <1>12, <1>13, <1>15, <1>17, <2>1 DEF RunsGoOn
<1>20. QED
  BY <1>14, <1>16, <1>18, <1>19 DEF MigrationsInv, MigrationsGood

\* A run that is lost leaves its row open.
LEMMA RunEndsKeeps ==
    ASSUME MigrationsGood, NEW r \in Runner, RunEnds(r)
    PROVE  MigrationsInv'
<1>1. MigrationsTyped /\ OneRunAtATime /\ RecordsAreNumbered
  BY DEF MigrationsGood
<1>2. PICK k \in 0..Migrations : Reached(k) /\ RunsGoOn(k)
  BY DEF MigrationsGood
<1>3. runner[r].pc # "idle" /\ runner' = [runner EXCEPT ![r] = NoRun] /\ UNCHANGED <<ran, records, together>>
  BY DEF RunEnds
<1>4. NoRun \in RunnerRow /\ NoRun.pc = "idle"
  BY DEF NoRun, RunnerRow
<1>5. runner' \in [Runner -> RunnerRow] /\ \A q \in Runner : runner'[q].pc = "idle"
  BY <1>1, <1>3, <1>4, OthersAreIdle DEF MigrationsTyped
<1>6. MigrationsTyped' /\ RecordsAreNumbered'
  BY <1>1, <1>3, <1>5 DEF MigrationsTyped, RecordsAreNumbered
<1>7. OneRunAtATime' /\ RunsGoOn(k)'
  BY <1>5 DEF OneRunAtATime, RunsGoOn
<1>8. Reached(k)'
  BY <1>2, <1>3 DEF Reached, Applied, Unfinished
<1>9. QED
  BY <1>6, <1>7, <1>8 DEF MigrationsInv, MigrationsGood

LEMMA FinishKeeps ==
    ASSUME MigrationsGood, NEW r \in Runner, Finish(r)
    PROVE  MigrationsInv'
<1>1. MigrationsTyped /\ OneRunAtATime /\ RecordsAreNumbered
  BY DEF MigrationsGood
<1>2. PICK k \in 0..Migrations : Reached(k) /\ RunsGoOn(k)
  BY DEF MigrationsGood
<1>3. /\ runner[r].pc = "execute" /\ runner[r].name = k + 1 /\ runner[r].step \in 1..(Statements + 1)
      /\ k + 1 \in Name /\ runner[r].todo = Name \ (1..k) /\ runner[r].step > Statements
      /\ \A t \in 1..Statements : ran[k + 1][t] = (IF t < runner[r].step THEN 1 ELSE 0)
  BY <1>2 DEF Finish, RunsGoOn
<1>4. PICK one \in Unfinished : one.id = runner[r].id
  BY <1>2, <1>3 DEF RunsGoOn
<1>5. Unfinished = {one} /\ one \in records /\ one.name = k + 1
  BY <1>2, <1>4 DEF Reached, Unfinished
<1>6. records' = {IF x.id = one.id THEN [x EXCEPT !.state = "finished"] ELSE x : x \in records}
  BY <1>4 DEF Finish
<1>7. records' = (records \ {one}) \cup {[one EXCEPT !.state = "finished"]}
  BY <1>1, <1>5, <1>6 DEF RecordsAreNumbered
<1>8. /\ records' \subseteq MigrationRow /\ IsFiniteSet(records') /\ RecordsAreNumbered'
      /\ Unfinished' = {} /\ Applied' = Applied \cup {k + 1}
  BY <1>1, <1>5, <1>7, RowChanges
<1>9. /\ 1..(k + 1) = (1..k) \cup {k + 1} /\ k + 1 \in 0..Migrations
      /\ (Name \ (1..k)) \ {k + 1} = Name \ (1..(k + 1))
  BY <1>3, NextMigration
<1> DEFINE left == Name \ (1..(k + 1))
           run == IF left = {} THEN NoRun ELSE [NoRun EXCEPT !.pc = "record", !.todo = left]
<1>10. runner' = [runner EXCEPT ![r] = run] /\ UNCHANGED <<ran, together>>
  BY <1>3, <1>9 DEF Finish
<1>11. /\ run \in RunnerRow /\ run.pc \in {"idle", "record"}
       /\ run.pc # "idle" => run.todo = Name \ (1..(k + 1)) /\ k + 2 \in Name
  <2>1. CASE left = {}
    BY <2>1 DEF NoRun, RunnerRow
  <2>2. CASE left # {}
    <3>1. run = [pc |-> "record", todo |-> left, name |-> 0, step |-> 0, id |-> 0]
      BY <2>2 DEF NoRun
    <3>2. k + 2 \in Name
      <4>1. (k + 1) + 1 \in Name
        BY <1>9, <2>2, SomethingIsLeft
      <4>2. k \in Nat /\ (k + 1) + 1 = k + 2
        OBVIOUS
      <4>3. QED
        BY <4>1, <4>2
    <3>3. left \in SUBSET Name
      OBVIOUS
    <3> HIDE DEF left, run
    <3>4. run \in RunnerRow /\ run.pc = "record" /\ run.todo = left
      BY <3>1, <3>3 DEF RunnerRow
    <3>5. QED
      BY <3>2, <3>4 DEF left
  <2>3. QED
    BY <2>1, <2>2
<1> HIDE DEF run, left
<1>12. runner' \in [Runner -> RunnerRow] /\ runner'[r] = run /\ \A q \in Runner : q # r => runner'[q] = runner[q]
  BY <1>1, <1>10, <1>11 DEF MigrationsTyped
<1>13. MigrationsTyped'
  BY <1>1, <1>8, <1>10, <1>12 DEF MigrationsTyped
<1>14. \A q \in Runner : q # r => runner'[q].pc = "idle"
  BY <1>1, <1>3, <1>12, OthersAreIdle
<1>15. OneRunAtATime'
  BY <1>14 DEF OneRunAtATime
<1>16. Reached(k + 1)'
  <2>1. Applied' = 1..(k + 1)
    BY <1>2, <1>8, <1>9 DEF Reached
  <2>2. ASSUME NEW m \in Name, NEW s \in 1..Statements
        PROVE  /\ m <= k + 1 => ran'[m][s] = 1
               /\ m > k + 1 => ran'[m][s] = 0
    <3>1. k \in Nat /\ m \in Nat /\ Statements \in Nat /\ s \in Nat
      BY MigrationsAssumption DEF MigrationsAssumption, Name
    <3>2. m <= k => ran[m][s] = 1
      BY <1>2 DEF Reached
    <3>3. m > k + 1 => ran[m][s] = 0
      BY <1>2 DEF Reached
    <3>4. ran[k + 1][s] = 1
      BY <1>3, <3>1
    <3>5. QED
      BY <1>10, <3>1, <3>2, <3>3, <3>4
  <2>3. \A m \in Name : m > (k + 1) + 1 \/ m > k + 1 => m > k + 1
    BY MigrationsAssumption DEF MigrationsAssumption, Name
  <2>4. QED
    BY <1>8, <2>1, <2>2, <2>3 DEF Reached
<1>17. RunsGoOn(k + 1)'
  <2>1. (k + 1) + 1 = k + 2
    OBVIOUS
  <2>2. QED
    BY <1>8, <1>11, <1>12, <1>14, <2>1 DEF RunsGoOn
<1>18. QED
  BY <1>8, <1>9, <1>13, <1>15, <1>16, <1>17 DEF MigrationsInv, MigrationsGood

LEMMA ResolveKeeps ==
    ASSUME MigrationsGood, NEW m \in Name, NEW outcome,
           outcome = "finished" \/ outcome = "rolled back", Resolve(m, outcome)
    PROVE  MigrationsInv'
<1>1. MigrationsTyped /\ OneRunAtATime /\ RecordsAreNumbered
  BY DEF MigrationsGood
<1>2. PICK k \in 0..Migrations : Reached(k) /\ RunsGoOn(k)
  BY DEF MigrationsGood
<1>3. PICK one \in Unfinished : one.name = m
  BY DEF Resolve
<1>4. Unfinished = {one} /\ one \in records /\ m = k + 1
  BY <1>2, <1>3 DEF Reached, Unfinished
<1>5. records' = {IF x \in Unfinished /\ x.name = m THEN [x EXCEPT !.state = outcome] ELSE x : x \in records}
  BY DEF Resolve
<1>6. records' = (records \ {one}) \cup {[one EXCEPT !.state = outcome]}
  BY <1>3, <1>4, <1>5
<1>7. /\ records' \subseteq MigrationRow /\ IsFiniteSet(records') /\ RecordsAreNumbered'
      /\ Unfinished' = {} /\ Applied' = IF outcome = "finished" THEN Applied \cup {k + 1} ELSE Applied
  BY <1>1, <1>3, <1>4, <1>6, RowChanges
<1>8. /\ 1..(k + 1) = (1..k) \cup {k + 1} /\ k + 1 \in 0..Migrations
  BY <1>4, NextMigration
<1> DEFINE all == [s \in 1..Statements |-> IF outcome = "finished" THEN 1 ELSE 0]
<1>9. ran' = [ran EXCEPT ![m] = all] /\ UNCHANGED <<runner, together>>
  BY DEF Resolve
<1>10. all \in [1..Statements -> Nat] /\ \A s \in 1..Statements : all[s] = IF outcome = "finished" THEN 1 ELSE 0
  OBVIOUS
<1> HIDE DEF all
<1>11. ran' \in [Name -> [1..Statements -> Nat]] /\ ran'[m] = all /\ \A j \in Name : j # m => ran'[j] = ran[j]
  BY <1>1, <1>9, <1>10 DEF MigrationsTyped
<1>12. MigrationsTyped'
  BY <1>1, <1>7, <1>9, <1>11 DEF MigrationsTyped
<1>13. \A q \in Runner : runner'[q].pc = "idle"
  BY <1>9 DEF Resolve, Running
<1>14. OneRunAtATime' /\ RunsGoOn(k)' /\ RunsGoOn(k + 1)'
  BY <1>13 DEF OneRunAtATime, RunsGoOn
<1>15. \A j \in Name, s \in 1..Statements : (j <= k => ran[j][s] = 1) /\ (j > k + 1 => ran[j][s] = 0)
  BY <1>2 DEF Reached
<1>16. CASE outcome = "finished"
  <2>1. Applied' = 1..(k + 1)
    BY <1>2, <1>7, <1>8, <1>16 DEF Reached
  <2>2. ASSUME NEW j \in Name, NEW s \in 1..Statements
        PROVE  (j <= k + 1 => ran'[j][s] = 1) /\ (j > k + 1 => ran'[j][s] = 0)
    <3>1. CASE j = k + 1
      <4>1. ran'[j][s] = 1
        BY <1>4, <1>10, <1>11, <1>16, <3>1
      <4>2. ~(j > k + 1)
        BY <3>1, BeforeAndAfter
      <4>3. QED
        BY <4>1, <4>2
    <3>2. CASE j # k + 1
      <4>1. ran'[j] = ran[j]
        BY <1>4, <1>11, <3>2
      <4>2. (j <= k => ran[j][s] = 1) /\ (j > k + 1 => ran[j][s] = 0)
        BY <1>15
      <4>3. (j <= k + 1 => j <= k) /\ (j > k => j > k + 1)
        BY <3>2, BeforeAndAfter
      <4>4. QED
        BY <4>1, <4>2, <4>3
    <3>3. QED
      BY <3>1, <3>2
  <2>3. \A j \in Name : j > (k + 1) + 1 \/ j > k + 1 => j > k + 1
    BY BeforeAndAfter
  <2>4. Reached(k + 1)'
    BY <1>7, <2>1, <2>2, <2>3 DEF Reached
  <2>5. QED
    BY <1>7, <1>8, <1>12, <1>14, <2>4 DEF MigrationsInv, MigrationsGood
<1>17. CASE outcome = "rolled back"
  <2>1. Applied' = 1..k
    BY <1>2, <1>7, <1>17 DEF Reached
  <2>2. ASSUME NEW j \in Name, NEW s \in 1..Statements
        PROVE  (j <= k => ran'[j][s] = 1) /\ (j > k => ran'[j][s] = 0)
    <3>1. CASE j = k + 1
      <4>1. ran'[j][s] = 0
        <5>1. outcome # "finished"
          BY <1>17
        <5>2. QED
          BY <1>4, <1>10, <1>11, <3>1, <5>1
      <4>2. ~(j <= k)
        BY <3>1, BeforeAndAfter
      <4>3. QED
        BY <4>1, <4>2
    <3>2. CASE j # k + 1
      <4>1. ran'[j] = ran[j]
        BY <1>4, <1>11, <3>2
      <4>2. (j <= k => ran[j][s] = 1) /\ (j > k + 1 => ran[j][s] = 0)
        BY <1>15
      <4>3. (j <= k + 1 => j <= k) /\ (j > k => j > k + 1)
        BY <3>2, BeforeAndAfter
      <4>4. QED
        BY <4>1, <4>2, <4>3
    <3>3. QED
      BY <3>1, <3>2
  <2>3. \A j \in Name : j > k + 1 \/ j > k => j > k
    BY BeforeAndAfter
  <2>4. Reached(k)'
    BY <1>7, <2>1, <2>2, <2>3 DEF Reached
  <2>5. QED
    BY <1>7, <1>12, <1>14, <2>4 DEF MigrationsInv, MigrationsGood
<1>18. QED
  BY <1>16, <1>17

LEMMA MigrationsStep ==
    ASSUME MigrationsInv, [MigrationsNext]_migrationVars
    PROVE  MigrationsInv'
<1>1. CASE UNCHANGED migrationVars
  BY <1>1 DEF migrationVars, MigrationsInv, MigrationsGood, MigrationsTyped, OneRunAtATime, RecordsAreNumbered,
              Reached, RunsGoOn, Applied, Unfinished
<1>2. CASE together /\ MigrationsNext
  BY <1>2 DEF MigrationsInv, MigrationsNext, BeginRun, RecordStart, Execute, RunEnds, Finish, Resolve
<1>3. CASE ~together /\ MigrationsNext
  <2>1. MigrationsGood
    BY <1>3 DEF MigrationsInv
  <2>2. QED
    BY <1>3, <2>1, BeginRunKeeps, RecordStartKeeps, ExecuteKeeps, RunEndsKeeps, FinishKeeps, ResolveKeeps
       DEF MigrationsNext
<1>4. QED
  BY <1>1, <1>2, <1>3

LEMMA MigrationsHold == MigrationsInv => MigrationsLand
<1> SUFFICES ASSUME MigrationsGood
             PROVE  FinishedOnce /\ NothingUnrecorded /\ OneAfterAnother
  BY DEF MigrationsInv, MigrationsLand
<1>1. MigrationsTyped
  BY DEF MigrationsGood
<1>2. PICK k \in 0..Migrations : Reached(k)
  BY DEF MigrationsGood
<1>3. k \in Nat /\ \A j \in Name : j \in Nat
  BY MigrationsAssumption DEF MigrationsAssumption, Name
<1>4. 1..k \subseteq Name
  BY MigrationsAssumption DEF MigrationsAssumption, Name
<1>5. FinishedOnce
  BY <1>2, <1>3, <1>4 DEF FinishedOnce, Reached
<1>6. NothingUnrecorded
  <2> SUFFICES ASSUME NEW m \in Name, NEW s \in 1..Statements, ran[m][s] > 0,
                      m \notin Applied
               PROVE  \E x \in Unfinished : x.name = m
    BY DEF NothingUnrecorded
  <2>1. m > k
    BY <1>2, <1>3 DEF Reached, Name
  <2>2. m = k + 1 /\ Unfinished # {}
    BY <1>2, <1>3, <2>1 DEF Reached
  <2>3. QED
    BY <1>2, <2>2 DEF Reached
<1>7. OneAfterAnother
  <2>1. ASSUME NEW x \in Unfinished, NEW m \in 1..(x.name - 1) PROVE m \in Applied
    BY <1>2, <1>3 DEF Reached
  <2>2. Cardinality(Unfinished) <= 1
    <3>1. CASE Unfinished = {}
      BY <3>1, FS_EmptySet
    <3>2. CASE Unfinished # {}
      <4>1. PICK one \in Unfinished : Unfinished = {one}
        BY <1>2, <3>2 DEF Reached
      <4>2. QED
        <5>1. Cardinality({one}) = 1
          BY FS_Singleton
        <5>2. QED
          BY <4>1, <5>1
    <3>3. QED
      BY <3>1, <3>2
  <2>3. QED
    BY <2>1, <2>2 DEF OneAfterAnother
<1>8. QED
  BY <1>5, <1>6, <1>7

\* However many migrations and runs: every migration is applied once, in
\* order, or is the one that is open (scripts/cpanel-setup.cjs, migrate).
THEOREM MigrationsAreWhole == MigrationsSpec => []MigrationsLand
<1>1. MigrationsInit => MigrationsInv
  BY MigrationsStart
<1>2. MigrationsInv /\ [MigrationsNext]_migrationVars => MigrationsInv'
  BY MigrationsStep
<1>3. MigrationsInv => MigrationsLand
  BY MigrationsHold
<1>4. QED
  BY <1>1, <1>2, <1>3, PTL DEF MigrationsSpec

RowState == {"open", "finished", "rolled back"}
Settlement == {"finished", "rolled back"}

\* Whoever runs beside whom: migrations are applied in order, no row is of one
\* further than the next, and a run that is under way is at one that had its turn.
RowsOf(a) ==
    /\ Applied = 1..a
    /\ \A one \in records :
           /\ one = [id |-> one.id, name |-> one.name, state |-> one.state]
           /\ one.name \in Name /\ one.name <= a + 1 /\ one.state \in RowState

RunIsAt(r, j) ==
    /\ j + 1 \in Name /\ runner[r].todo = Name \ (1..j)
    /\ runner[r].pc = "execute" =>
           /\ runner[r].name = j + 1 /\ runner[r].step \in 1..(Statements + 1)
           /\ \E one \in records : one.id = runner[r].id /\ one.name = j + 1

RunsOf(a) ==
    /\ runner = [r \in Runner |-> runner[r]]
    /\ \A r \in Runner :
           /\ runner[r] = [pc |-> runner[r].pc, todo |-> runner[r].todo, name |-> runner[r].name,
                           step |-> runner[r].step, id |-> runner[r].id]
           /\ runner[r] = NoRun \/ (runner[r].pc \in {"record", "execute"} /\ runner[r].step \in 0..(Statements + 1))
           /\ runner[r].pc # "idle" => \E j \in 0..a : RunIsAt(r, j)

TurnsAreKept == runs \in 0..RunBound /\ \E a \in 0..Migrations : RowsOf(a) /\ RunsOf(a)

Settled(S, outcome) ==
    records' = {IF one \in S THEN [one EXCEPT !.state = outcome] ELSE one : one \in records}

\* Rows that are given another state: no fewer migrations are applied, and at
\* most the next one more.
LEMMA RowsAreSettled ==
    ASSUME NEW a \in 0..Migrations, RowsOf(a),
           NEW S \in SUBSET records, NEW outcome \in Settlement,
           outcome = "finished" \/ S \subseteq Unfinished, Settled(S, outcome)
    PROVE  /\ \E b \in a..Migrations : RowsOf(b)'
           /\ Applied \subseteq Applied'
           /\ outcome = "finished" => \A one \in S : one.name \in Applied'
           /\ \A one \in records : \E two \in records' : two.id = one.id /\ two.name = one.name
<1>1. /\ Applied = 1..a
      /\ \A one \in records :
           /\ one = [id |-> one.id, name |-> one.name, state |-> one.state]
           /\ one.name \in Name /\ one.name <= a + 1 /\ one.state \in RowState
  BY DEF RowsOf
<1>2. ASSUME NEW one \in records
      PROVE  \E two \in records' :
                 /\ two.id = one.id /\ two.name = one.name
                 /\ two.state = IF one \in S THEN outcome ELSE one.state
  <2>1. PICK two : two = IF one \in S THEN [one EXCEPT !.state = outcome] ELSE one
    OBVIOUS
  <2>2. one = [id |-> one.id, name |-> one.name, state |-> one.state]
    BY <1>1
  <2>3. two.id = one.id /\ two.name = one.name /\ two.state = IF one \in S THEN outcome ELSE one.state
    BY <2>1, <2>2
  <2>4. two \in records'
    BY <2>1 DEF Settled
  <2>5. QED
    BY <2>3, <2>4
<1>3. ASSUME NEW two \in records'
      PROVE  /\ two = [id |-> two.id, name |-> two.name, state |-> two.state]
             /\ \E one \in records :
                    /\ two.id = one.id /\ two.name = one.name
                    /\ two.state = IF one \in S THEN outcome ELSE one.state
  <2>1. PICK one \in records : two = IF one \in S THEN [one EXCEPT !.state = outcome] ELSE one
    BY DEF Settled
  <2>2. one = [id |-> one.id, name |-> one.name, state |-> one.state]
    BY <1>1
  <2>3. /\ two.id = one.id /\ two.name = one.name /\ two.state = IF one \in S THEN outcome ELSE one.state
        /\ two = [id |-> two.id, name |-> two.name, state |-> two.state]
    BY <2>1, <2>2
  <2>4. QED
    BY <2>3
<1>4. \A n : n \in Applied <=> \E one \in records : one.name = n /\ one.state = "finished"
  BY DEF Applied
<1>5. \A n : n \in Applied' <=> \E two \in records' : two.name = n /\ two.state = "finished"
  BY DEF Applied
<1>6. Applied \subseteq Applied'
  <2> SUFFICES ASSUME NEW n \in Applied PROVE n \in Applied'
    OBVIOUS
  <2>1. PICK one \in records : one.name = n /\ one.state = "finished"
    BY <1>4
  <2>2. one \in S => outcome = "finished"
    BY <2>1 DEF Unfinished
  <2>3. PICK two \in records' : two.name = one.name /\ two.state = IF one \in S THEN outcome ELSE one.state
    BY <1>2
  <2>4. two.name = n /\ two.state = "finished"
    BY <2>1, <2>2, <2>3
  <2>5. QED
    BY <1>5, <2>4
<1>7. outcome = "finished" => \A one \in S : one.name \in Applied'
  BY <1>2, <1>5
<1>8. ASSUME NEW two \in records'
      PROVE  two.name \in Name /\ two.name <= a + 1 /\ two.state \in RowState
  <2>1. PICK one \in records : two.name = one.name /\ two.state = IF one \in S THEN outcome ELSE one.state
    BY <1>3
  <2>2. one.name \in Name /\ one.name <= a + 1 /\ one.state \in RowState
    BY <1>1
  <2>3. two.name \in Name /\ two.name <= a + 1
    BY <2>1, <2>2
  <2>4. two.state \in RowState
    <3>1. Settlement \subseteq RowState
      BY DEF Settlement, RowState
    <3>2. QED
      BY <2>1, <2>2, <3>1
  <2>5. QED
    BY <2>3, <2>4
<1>9. a \in Nat /\ Migrations \in Nat /\ \A m \in Name : m \in Nat /\ m >= 1 /\ m <= Migrations
  <2>1. Migrations \in Nat
    BY MigrationsAssumption DEF MigrationsAssumption
  <2>2. a \in Nat
    BY <2>1
  <2>3. \A m \in Name : m \in Nat /\ m >= 1 /\ m <= Migrations
    BY <2>1 DEF Name
  <2>4. QED
    BY <2>1, <2>2, <2>3
<1>10. ASSUME NEW n \in Applied' PROVE n \in 1..(a + 1) /\ n \in Name
  <2>1. PICK two \in records' : two.name = n
    BY <1>5
  <2>2. n \in Name /\ n <= a + 1
    BY <1>8, <2>1
  <2>3. QED
    BY <1>9, <2>2
<1>11. PICK b \in a..Migrations : Applied' = 1..b
  <2>0. Applied' \subseteq 1..(a + 1) /\ 1..a \subseteq Applied'
    BY <1>1, <1>6, <1>10
  <2>1. CASE a + 1 \in Applied'
    <3>1. a + 1 \in a..Migrations
      BY <1>9, <1>10, <2>1
    <3>2. Applied' = 1..(a + 1)
      <4>1. \A n \in 1..(a + 1) : n \in 1..a \/ n = a + 1
        BY <1>9
      <4>2. \A n \in 1..(a + 1) : n \in Applied'
        BY <2>0, <2>1, <4>1
      <4>3. QED
        BY <2>0, <4>2
    <3>3. QED
      BY <3>1, <3>2
  <2>2. CASE a + 1 \notin Applied'
    <3>1. Applied' = 1..a
      <4>1. \A n \in 1..(a + 1) : n \in 1..a \/ n = a + 1
        BY <1>9
      <4>2. \A n \in Applied' : n \in 1..a
        BY <2>0, <2>2, <4>1
      <4>3. QED
        BY <2>0, <4>2
    <3>2. QED
      BY <1>9, <3>1
  <2>3. QED
    BY <2>1, <2>2
<1>12. RowsOf(b)'
  <2>1. ASSUME NEW two \in records' PROVE two.name <= b + 1
    <3>1. two.name \in Name /\ two.name <= a + 1
      BY <1>8
    <3>2. QED
      BY <1>9, <3>1
  <2>2. \A two \in records' : two = [id |-> two.id, name |-> two.name, state |-> two.state]
    BY <1>3
  <2>3. QED
    BY <1>8, <1>11, <2>1, <2>2 DEF RowsOf
<1>13. QED
  BY <1>2, <1>6, <1>7, <1>11, <1>12

\* A run that stands still goes on when rows are added or settled.
LEMMA OtherRunsGoOn ==
    ASSUME NEW a \in 0..Migrations, NEW b \in a..Migrations, NEW q \in Runner, RunsOf(a),
           runner'[q] = runner[q],
           \A one \in records : \E two \in records' : two.id = one.id /\ two.name = one.name
    PROVE  /\ runner'[q] = [pc |-> runner'[q].pc, todo |-> runner'[q].todo, name |-> runner'[q].name,
                            step |-> runner'[q].step, id |-> runner'[q].id]
           /\ \/ runner'[q] = NoRun
              \/ runner'[q].pc \in {"record", "execute"} /\ runner'[q].step \in 0..(Statements + 1)
           /\ runner'[q].pc # "idle" => \E j \in 0..b : RunIsAt(q, j)'
<1>1. a \in Nat /\ b \in Nat /\ \A j \in 0..a : j \in 0..b
  BY MigrationsAssumption DEF MigrationsAssumption
<1>2. ASSUME NEW j \in 0..a, RunIsAt(q, j) PROVE RunIsAt(q, j)'
  BY <1>2 DEF RunIsAt
<1>3. QED
  BY <1>1, <1>2 DEF RunsOf

\* The run that acts, by what it becomes.
LEMMA RunChanges ==
    ASSUME NEW a \in 0..Migrations, NEW b \in a..Migrations, NEW r \in Runner, NEW run,
           runs' \in 0..RunBound, RunsOf(a), RowsOf(b)', runner' = [runner EXCEPT ![r] = run],
           \A one \in records : \E two \in records' : two.id = one.id /\ two.name = one.name,
           run = [pc |-> run.pc, todo |-> run.todo, name |-> run.name, step |-> run.step, id |-> run.id],
           run = NoRun \/ (run.pc \in {"record", "execute"} /\ run.step \in 0..(Statements + 1)),
           run.pc # "idle" => \E j \in 0..b : RunIsAt(r, j)'
    PROVE  TurnsAreKept'
<1>1. runner = [q \in Runner |-> runner[q]]
  BY DEF RunsOf
<1>2. runner'[r] = run /\ runner' = [q \in Runner |-> runner'[q]] /\ \A q \in Runner \ {r} : runner'[q] = runner[q]
  BY <1>1
<1>3. ASSUME NEW q \in Runner
      PROVE  /\ runner'[q] = [pc |-> runner'[q].pc, todo |-> runner'[q].todo, name |-> runner'[q].name,
                              step |-> runner'[q].step, id |-> runner'[q].id]
             /\ \/ runner'[q] = NoRun
                \/ runner'[q].pc \in {"record", "execute"} /\ runner'[q].step \in 0..(Statements + 1)
             /\ runner'[q].pc # "idle" => \E j \in 0..b : RunIsAt(q, j)'
  <2>1. CASE q = r
    BY <1>2, <2>1
  <2>2. CASE q # r
    BY <1>2, <2>2, OtherRunsGoOn
  <2>3. QED
    BY <2>1, <2>2
<1>4. RunsOf(b)'
  BY <1>2, <1>3 DEF RunsOf
<1>5. b \in 0..Migrations
  BY MigrationsAssumption DEF MigrationsAssumption
<1>6. QED
  BY <1>4, <1>5 DEF TurnsAreKept

LEMMA NothingIsRecorded ==
    ASSUME NEW a, RowsOf(a), records' = records
    PROVE  RowsOf(a)' /\ \A one \in records : \E two \in records' : two.id = one.id /\ two.name = one.name
<1>1. Applied' = Applied
  BY DEF Applied
<1>2. QED
  BY <1>1 DEF RowsOf

LEMMA RunAnew ==
    ASSUME NEW todo \in SUBSET Name
    PROVE  [NoRun EXCEPT !.pc = "record", !.todo = todo]
               = [pc |-> "record", todo |-> todo, name |-> 0, step |-> 0, id |-> 0]
<1>1. PICK run : run = [NoRun EXCEPT !.pc = "record", !.todo = todo]
  OBVIOUS
<1>2. NoRun \in RunnerRow
  BY DEF NoRun, RunnerRow
<1>3. run \in RunnerRow /\ run.pc = "record" /\ run.todo = todo
      /\ run.name = NoRun.name /\ run.step = NoRun.step /\ run.id = NoRun.id
  BY <1>1, <1>2 DEF RunnerRow
<1>4. NoRun.name = 0 /\ NoRun.step = 0 /\ NoRun.id = 0
  BY DEF NoRun
<1>5. run = [pc |-> run.pc, todo |-> run.todo, name |-> run.name, step |-> run.step, id |-> run.id]
  BY <1>3 DEF RunnerRow
<1>6. QED
  BY <1>1, <1>3, <1>4, <1>5

LEMMA BeginRunTakesTurn ==
    ASSUME NEW a \in 0..Migrations, RowsOf(a), RunsOf(a), runs \in 0..RunBound, NEW r \in Runner, BeginRun(r)
    PROVE  TurnsAreKept'
<1>1. PICK todo \in SUBSET Name : todo = Name \ Applied
  OBVIOUS
<1>2. PICK run : run = [pc |-> "record", todo |-> todo, name |-> 0, step |-> 0, id |-> 0]
  OBVIOUS
<1>3. /\ runner' = [runner EXCEPT ![r] = run] /\ runs < RunBound /\ runs' = runs + 1 /\ records' = records
      /\ todo # {}
  <2>1. run = [NoRun EXCEPT !.pc = "record", !.todo = todo]
    BY <1>2, RunAnew
  <2>2. runner' = [runner EXCEPT ![r] = [NoRun EXCEPT !.pc = "record", !.todo = todo]]
    BY <1>1 DEF BeginRun
  <2>3. runs < RunBound /\ runs' = runs + 1 /\ records' = records /\ todo # {}
    BY <1>1 DEF BeginRun, MayBegin
  <2>4. QED
    BY <2>1, <2>2, <2>3
<1>4. todo = Name \ (1..a) /\ a + 1 \in Name
  <2>1. todo = Name \ (1..a)
    BY <1>1 DEF RowsOf
  <2>2. QED
    BY <1>3, <2>1, SomethingIsLeft
<1>5. run.pc = "record" /\ run.todo = todo /\ run.step = 0
      /\ run = [pc |-> run.pc, todo |-> run.todo, name |-> run.name, step |-> run.step, id |-> run.id]
  BY <1>2
<1>6. runs' \in 0..RunBound /\ 0 \in 0..(Statements + 1) /\ a \in Nat /\ a \in 0..a /\ a \in a..Migrations
  BY <1>3, MigrationsAssumption DEF MigrationsAssumption
<1>7. RowsOf(a)' /\ \A one \in records : \E two \in records' : two.id = one.id /\ two.name = one.name
  BY <1>3, NothingIsRecorded
<1>8. runner'[r] = run
  BY <1>3 DEF RunsOf
<1>9. RunIsAt(r, a)'
  BY <1>4, <1>5, <1>8 DEF RunIsAt
<1>10. QED
  BY <1>3, <1>5, <1>6, <1>7, <1>9, RunChanges

LEMMA RecordStartTakesTurn ==
    ASSUME NEW a \in 0..Migrations, RowsOf(a), RunsOf(a), runs \in 0..RunBound, NEW r \in Runner, RecordStart(r)
    PROVE  TurnsAreKept'
<1>1. runner[r].pc = "record" /\ runs' = runs
  BY DEF RecordStart
<1>2. PICK j \in 0..a : RunIsAt(r, j)
  BY <1>1 DEF RunsOf
<1>3. j \in 0..Migrations /\ a \in Nat /\ j \in Nat /\ j + 1 <= a + 1 /\ a \in a..Migrations /\ 1 \in 1..(Statements + 1)
      /\ 1 \in 0..(Statements + 1)
  BY MigrationsAssumption DEF MigrationsAssumption
<1>4. j + 1 \in Name /\ runner[r].todo = Name \ (1..j)
  BY <1>2 DEF RunIsAt
<1>5. First(runner[r].todo) = j + 1
  BY <1>3, <1>4, NextMigration
<1>6. PICK id : id = Cardinality(records) + 1
  OBVIOUS
<1>7. PICK new : new = [id |-> id, name |-> j + 1, state |-> "open"]
  OBVIOUS
<1>8. PICK run : run = [runner[r] EXCEPT !.pc = "execute", !.name = j + 1, !.step = 1, !.id = id]
  OBVIOUS
<1>9. records' = records \cup {new} /\ runner' = [runner EXCEPT ![r] = run]
  BY <1>5, <1>6, <1>7, <1>8 DEF RecordStart
<1>10. /\ run.pc = "execute" /\ run.todo = Name \ (1..j) /\ run.name = j + 1 /\ run.step = 1 /\ run.id = id
       /\ run = [pc |-> run.pc, todo |-> run.todo, name |-> run.name, step |-> run.step, id |-> run.id]
  <2>1. runner[r] = [pc |-> runner[r].pc, todo |-> runner[r].todo, name |-> runner[r].name,
                     step |-> runner[r].step, id |-> runner[r].id]
    BY DEF RunsOf
  <2>2. QED
    BY <1>4, <1>8, <2>1
<1>11. new.id = id /\ new.name = j + 1 /\ new.state = "open" /\ new = [id |-> new.id, name |-> new.name, state |-> new.state]
  BY <1>7
<1>12. RowsOf(a)'
  <2>1. Applied' = Applied
    <3>1. {x \in records' : x.state = "finished"} = {x \in records : x.state = "finished"}
      BY <1>9, <1>11
    <3>2. QED
      BY <3>1 DEF Applied
  <2>2. ASSUME NEW one \in records'
        PROVE  /\ one = [id |-> one.id, name |-> one.name, state |-> one.state]
               /\ one.name \in Name /\ one.name <= a + 1 /\ one.state \in RowState
    <3>1. CASE one \in records
      BY <3>1 DEF RowsOf
    <3>2. CASE one = new
      <4>1. new.state \in RowState
        BY <1>11 DEF RowState
      <4>2. new.name \in Name /\ new.name <= a + 1
        BY <1>3, <1>4, <1>11
      <4>3. QED
        BY <1>11, <3>2, <4>1, <4>2
    <3>3. QED
      BY <1>9, <3>1, <3>2
  <2>3. QED
    BY <2>1, <2>2 DEF RowsOf
<1>13. \A one \in records : \E two \in records' : two.id = one.id /\ two.name = one.name
  BY <1>9
<1>14. runner'[r] = run
  BY <1>9 DEF RunsOf
<1>15. RunIsAt(r, j)'
  BY <1>3, <1>4, <1>9, <1>10, <1>11, <1>14 DEF RunIsAt
<1>16. run.pc \in {"record", "execute"} /\ run.step \in 0..(Statements + 1)
  BY <1>3, <1>10
<1>17. QED
  BY <1>1, <1>3, <1>9, <1>10, <1>12, <1>13, <1>15, <1>16, RunChanges

LEMMA ExecuteTakesTurn ==
    ASSUME NEW a \in 0..Migrations, RowsOf(a), RunsOf(a), runs \in 0..RunBound, NEW r \in Runner, Execute(r)
    PROVE  TurnsAreKept'
<1>1. PICK s : s = runner[r].step
  OBVIOUS
<1>2. PICK run : run = [runner[r] EXCEPT !.step = s + 1]
  OBVIOUS
<1>3. /\ runner[r].pc = "execute" /\ s <= Statements /\ runs' = runs /\ records' = records
      /\ runner' = [runner EXCEPT ![r] = run]
  BY <1>1, <1>2 DEF Execute
<1>4. PICK j \in 0..a : RunIsAt(r, j)
  BY <1>3 DEF RunsOf
<1>5. /\ j + 1 \in Name /\ runner[r].todo = Name \ (1..j)
      /\ runner[r].name = j + 1 /\ s \in 1..(Statements + 1)
      /\ \E one \in records : one.id = runner[r].id /\ one.name = j + 1
  BY <1>1, <1>3, <1>4 DEF RunIsAt
<1>6. s + 1 \in 1..(Statements + 1) /\ s + 1 \in 0..(Statements + 1) /\ a \in a..Migrations
  BY <1>3, <1>5, MigrationsAssumption DEF MigrationsAssumption
<1>7. /\ run.pc = "execute" /\ run.todo = runner[r].todo /\ run.name = j + 1 /\ run.step = s + 1 /\ run.id = runner[r].id
      /\ run = [pc |-> run.pc, todo |-> run.todo, name |-> run.name, step |-> run.step, id |-> run.id]
  <2>1. runner[r] = [pc |-> runner[r].pc, todo |-> runner[r].todo, name |-> runner[r].name,
                     step |-> runner[r].step, id |-> runner[r].id]
    BY DEF RunsOf
  <2>2. QED
    BY <1>2, <1>3, <1>5, <2>1
<1>8. RowsOf(a)' /\ \A one \in records : \E two \in records' : two.id = one.id /\ two.name = one.name
  BY <1>3, NothingIsRecorded
<1>9. runner'[r] = run
  BY <1>3 DEF RunsOf
<1>10. RunIsAt(r, j)'
  BY <1>3, <1>5, <1>6, <1>7, <1>9 DEF RunIsAt
<1>11. QED
  BY <1>3, <1>6, <1>7, <1>8, <1>10, RunChanges

LEMMA RunEndsTakesTurn ==
    ASSUME NEW a \in 0..Migrations, RowsOf(a), RunsOf(a), runs \in 0..RunBound, NEW r \in Runner, RunEnds(r)
    PROVE  TurnsAreKept'
<1>1. runner' = [runner EXCEPT ![r] = NoRun] /\ runs' = runs /\ records' = records
  BY DEF RunEnds
<1>2. RowsOf(a)' /\ \A one \in records : \E two \in records' : two.id = one.id /\ two.name = one.name
  BY <1>1, NothingIsRecorded
<1>3. /\ NoRun.pc = "idle"
      /\ NoRun = [pc |-> NoRun.pc, todo |-> NoRun.todo, name |-> NoRun.name, step |-> NoRun.step, id |-> NoRun.id]
  BY DEF NoRun
<1>4. a \in a..Migrations
  BY MigrationsAssumption DEF MigrationsAssumption
<1>5. QED
  BY <1>1, <1>2, <1>3, <1>4, RunChanges

LEMMA FinishTakesTurn ==
    ASSUME NEW a \in 0..Migrations, RowsOf(a), RunsOf(a), runs \in 0..RunBound, NEW r \in Runner, Finish(r)
    PROVE  TurnsAreKept'
<1>1. PICK left : left = runner[r].todo \ {runner[r].name}
  OBVIOUS
<1>2. PICK run : run = IF left = {} THEN NoRun ELSE [pc |-> "record", todo |-> left, name |-> 0, step |-> 0, id |-> 0]
  OBVIOUS
<1>3. PICK S \in SUBSET records : S = {x \in records : x.id = runner[r].id}
  OBVIOUS
<1>4. /\ runner[r].pc = "execute" /\ runs' = runs /\ runner' = [runner EXCEPT ![r] = run]
      /\ Settled(S, "finished")
  <2>1. runner[r].pc = "execute" /\ runs' = runs
    BY DEF Finish
  <2>2. runner' = [runner EXCEPT ![r] = run]
    <3>1. runner' = [runner EXCEPT ![r] =
                         IF left = {} THEN NoRun ELSE [NoRun EXCEPT !.pc = "record", !.todo = left]]
      BY <1>1 DEF Finish
    <3>2. run = IF left = {} THEN NoRun ELSE [NoRun EXCEPT !.pc = "record", !.todo = left]
      BY <1>2 DEF NoRun
    <3>3. QED
      BY <3>1, <3>2
  <2>3. Settled(S, "finished")
    <3>1. records' = {IF x.id = runner[r].id THEN [x EXCEPT !.state = "finished"] ELSE x : x \in records}
      BY DEF Finish
    <3>2. \A x \in records : x \in S <=> x.id = runner[r].id
      BY <1>3
    <3>3. QED
      BY <3>1, <3>2 DEF Settled
  <2>4. QED
    BY <2>1, <2>2, <2>3
<1>5. PICK j \in 0..a : RunIsAt(r, j)
  BY <1>4 DEF RunsOf
<1>6. /\ j + 1 \in Name /\ runner[r].todo = Name \ (1..j) /\ runner[r].name = j + 1
      /\ \E one \in records : one.id = runner[r].id /\ one.name = j + 1
  BY <1>4, <1>5 DEF RunIsAt
<1>7. "finished" \in Settlement
  BY DEF Settlement
<1>8. /\ \E b \in a..Migrations : RowsOf(b)'
      /\ \A one \in S : one.name \in Applied'
      /\ \A one \in records : \E two \in records' : two.id = one.id /\ two.name = one.name
  BY <1>4, <1>7, RowsAreSettled
<1>9. PICK b \in a..Migrations : RowsOf(b)'
  BY <1>8
<1>10. j + 1 \in 0..b
  <2>1. j + 1 \in Applied'
    BY <1>3, <1>6, <1>8
  <2>2. j + 1 \in 1..b
    BY <1>9, <2>1 DEF RowsOf
  <2>3. QED
    BY <2>2
<1>11. j \in 0..Migrations /\ j \in Nat /\ 0 \in 0..(Statements + 1)
  BY MigrationsAssumption DEF MigrationsAssumption
<1>12. left = Name \ (1..(j + 1)) /\ j + 1 \in 0..Migrations
  BY <1>1, <1>6, <1>11, NextMigration
<1>13. /\ run = [pc |-> run.pc, todo |-> run.todo, name |-> run.name, step |-> run.step, id |-> run.id]
       /\ run = NoRun \/ (run.pc \in {"record", "execute"} /\ run.step \in 0..(Statements + 1))
       /\ run.pc # "idle" => run.pc = "record" /\ run.todo = left /\ left # {}
  <2>1. CASE left = {}
    BY <1>2, <2>1 DEF NoRun
  <2>2. CASE left # {}
    BY <1>2, <1>11, <2>2
  <2>3. QED
    BY <2>1, <2>2
<1>14. runner'[r] = run
  BY <1>4 DEF RunsOf
<1>15. ASSUME run.pc # "idle" PROVE RunIsAt(r, j + 1)'
  <2>1. (j + 1) + 1 \in Name
    BY <1>12, <1>13, <1>15, SomethingIsLeft
  <2>2. QED
    BY <1>12, <1>13, <1>14, <1>15, <2>1 DEF RunIsAt
<1>16. QED
  BY <1>4, <1>8, <1>9, <1>10, <1>13, <1>15, RunChanges

LEMMA ResolveTakesTurn ==
    ASSUME NEW a \in 0..Migrations, RowsOf(a), RunsOf(a), runs \in 0..RunBound,
           NEW m \in Name, NEW outcome \in Settlement, Resolve(m, outcome)
    PROVE  TurnsAreKept'
<1>1. PICK S \in SUBSET records : S = {x \in records : x \in Unfinished /\ x.name = m}
  OBVIOUS
<1>2. /\ Running = {} /\ runs' = runs /\ runner' = runner /\ Settled(S, outcome)
      /\ S \subseteq Unfinished
  BY <1>1 DEF Resolve, Settled
<1>3. /\ \E b \in a..Migrations : RowsOf(b)'
      /\ \A one \in records : \E two \in records' : two.id = one.id /\ two.name = one.name
  BY <1>2, RowsAreSettled
<1>4. PICK b \in a..Migrations : RowsOf(b)'
  BY <1>3
<1>5. RunsOf(b)'
  <2>1. runner' = [r \in Runner |-> runner'[r]]
    BY <1>2 DEF RunsOf
  <2>2. QED
    BY <1>2, <1>3, <2>1, OtherRunsGoOn DEF RunsOf
<1>6. b \in 0..Migrations
  BY MigrationsAssumption DEF MigrationsAssumption
<1>7. QED
  BY <1>2, <1>4, <1>5, <1>6 DEF TurnsAreKept

LEMMA MigrationsTypesStay == MigrationsSpec => []MigrationsTypeOK
<1>1. MigrationsInit => TurnsAreKept
  <2> SUFFICES ASSUME MigrationsInit
               PROVE  TurnsAreKept
    OBVIOUS
  <2>1. records = {} /\ runs = 0 /\ runner = [r \in Runner |-> NoRun]
    BY DEF MigrationsInit
  <2>2. Applied = 1..0
    BY <2>1 DEF Applied
  <2>3. RowsOf(0)
    BY <2>1, <2>2 DEF RowsOf
  <2>4. NoRun = [pc |-> NoRun.pc, todo |-> NoRun.todo, name |-> NoRun.name, step |-> NoRun.step, id |-> NoRun.id]
        /\ NoRun.pc = "idle"
    BY DEF NoRun
  <2>5. RunsOf(0)
    BY <2>1, <2>4 DEF RunsOf
  <2>6. 0 \in 0..Migrations /\ runs \in 0..RunBound
    BY <2>1, MigrationsAssumption DEF MigrationsAssumption
  <2>7. QED
    BY <2>3, <2>5, <2>6 DEF TurnsAreKept
<1>2. TurnsAreKept /\ [MigrationsNext]_migrationVars => TurnsAreKept'
  <2> SUFFICES ASSUME TurnsAreKept, [MigrationsNext]_migrationVars
               PROVE  TurnsAreKept'
    OBVIOUS
  <2>1. PICK a \in 0..Migrations : RowsOf(a) /\ RunsOf(a)
    BY DEF TurnsAreKept
  <2>2. runs \in 0..RunBound
    BY DEF TurnsAreKept
  <2>3. CASE UNCHANGED migrationVars
    <3>1. runner' = runner /\ records' = records /\ runs' = runs
      BY <2>3 DEF migrationVars
    <3>2. RowsOf(a)'
      BY <2>1, <3>1, NothingIsRecorded
    <3>3. RunsOf(a)'
      BY <2>1, <3>1 DEF RunsOf, RunIsAt
    <3>4. QED
      BY <2>2, <3>1, <3>2, <3>3 DEF TurnsAreKept
  <2>4. ASSUME NEW m \in Name, NEW outcome \in {"finished", "rolled back"}, Resolve(m, outcome)
        PROVE  TurnsAreKept'
    BY <2>1, <2>2, <2>4, ResolveTakesTurn DEF Settlement
  <2>5. QED
    BY <2>1, <2>2, <2>3, <2>4, BeginRunTakesTurn, RecordStartTakesTurn, ExecuteTakesTurn, RunEndsTakesTurn,
       FinishTakesTurn DEF MigrationsNext
<1>3. TurnsAreKept => MigrationsTypeOK
  <2> SUFFICES ASSUME TurnsAreKept
               PROVE  MigrationsTypeOK
    OBVIOUS
  <2>1. PICK a \in 0..Migrations : RowsOf(a) /\ RunsOf(a)
    BY DEF TurnsAreKept
  <2>2. \A one \in records : one.name \in Name /\ one.state \in {"open", "finished", "rolled back"}
    BY <2>1 DEF RowsOf, RowState
  <2>3. \A r \in Runner : runner[r].pc \in {"idle", "record", "execute"} /\ runner[r].step <= Statements + 1
    <3>1. NoRun.pc = "idle" /\ NoRun.step = 0 /\ 0 <= Statements + 1
      BY MigrationsAssumption DEF MigrationsAssumption, NoRun
    <3>2. \A r \in Runner : runner[r] = NoRun \/ (runner[r].pc \in {"record", "execute"} /\ runner[r].step \in 0..(Statements + 1))
      BY <2>1 DEF RunsOf
    <3>3. QED
      BY <3>1, <3>2
  <2>4. QED
    BY <2>2, <2>3 DEF TurnsAreKept, MigrationsTypeOK
<1>4. QED
  BY <1>1, <1>2, <1>3, PTL DEF MigrationsSpec

---------------------------------------------------------------------------
(* Bundle: what is built and packed                                      *)

\* What may be in a place of cpanel-dist.
Content == {"none", "linux", "foreign", "whole", "cut", "page"}
DistRow == [program : Nat, env : BOOLEAN, packages : {"none", "traced", "whole"}, scripts : Nat,
            argon2 : Content, ffmpeg : Content, sharp : Content, finished : BOOLEAN]

BundleTyped ==
    /\ tree \in Nat /\ standalone \in Nat /\ standalone <= tree
    /\ fetched \in [Downloads -> {"nothing", "whole", "page", "cut"}]
    /\ fetched["ffmpeg"] = "cut" => cut
    /\ building = NoZip \/ building = [of |-> building.of, state |-> building.state]

\* What the steps before this one have put into the directory, which is not
\* finished yet.
BuiltSoFar(step, d) ==
    /\ d \in DistRow /\ ~d.finished /\ standalone > 0
    /\ step # "copy" => d.program = standalone
    /\ step \notin {"copy", "strip"} => ~d.env
    /\ step \in {"scripts", "argon2", "ffmpeg", "sharp", "prove"} => d.packages = "whole"
    /\ step \in {"argon2", "ffmpeg", "sharp", "prove"} => d.scripts = tree
    /\ step \in {"ffmpeg", "sharp", "prove"} => d.argon2 = "linux"
    /\ step \in {"sharp", "prove"} => d.ffmpeg = "linux" \/ (d.ffmpeg = "cut" /\ cut)
    /\ step = "prove" => d.sharp = "linux"

\* The tree stands still while a build is under way.
BuildGoesInOrder == command \in BuildSteps => BuiltSoFar(command, dist)

\* Whatever is finished can be shipped, also when it was put into an archive
\* since.
FinishedIsShippable ==
    /\ dist.finished => Shippable(dist)
    /\ building.state \in {"partial", "whole"} /\ building.of.finished => Shippable(building.of)
    /\ archive.state = "whole" /\ archive.of.finished => Shippable(archive.of)

\* An archive that was read back is whole until it has its name.
ArchivesAreRead ==
    /\ NamedIsVerified
    /\ command \in PackSteps => building # NoZip
    /\ command = "write" => building.state = "partial"
    /\ command \in {"remove", "rename"} => building.state = "whole" \/ slipped

BundleInv == BundleTyped /\ BuildGoesInOrder /\ FinishedIsShippable /\ ArchivesAreRead

LEMMA BundleStart == BundleInit => BundleInv
<1> SUFFICES ASSUME BundleInit
             PROVE  BundleInv
  OBVIOUS
<1>1. BundleTyped
  BY DEF BundleInit, BundleTyped, Downloads
<1>2. BuildGoesInOrder
  BY DEF BundleInit, BuildGoesInOrder, BuildSteps
<1>3. FinishedIsShippable
  BY DEF BundleInit, FinishedIsShippable, Absent, NoZip
<1>4. ArchivesAreRead
  BY DEF BundleInit, ArchivesAreRead, NamedIsVerified, NoZip, PackSteps
<1>5. QED
  BY <1>1, <1>2, <1>3, <1>4 DEF BundleInv

\* What could be shipped can be, as long as cut stands.
LEMMA StillShippable ==
    ASSUME cut => cut', NEW d, Shippable(d)
    PROVE  Shippable(d)'
BY DEF Shippable

\* The directory and the archives stay as they are.
LEMMA NothingIsMade ==
    ASSUME FinishedIsShippable, UNCHANGED <<dist, building, archive>>, cut => cut'
    PROVE  FinishedIsShippable'
<1>1. dist.finished => Shippable(dist)'
  BY StillShippable DEF FinishedIsShippable
<1>2. building.state \in {"partial", "whole"} /\ building.of.finished => Shippable(building.of)'
  BY StillShippable DEF FinishedIsShippable
<1>3. archive.state = "whole" /\ archive.of.finished => Shippable(archive.of)'
  BY StillShippable DEF FinishedIsShippable
<1>4. QED
  BY <1>1, <1>2, <1>3 DEF FinishedIsShippable, Shippable

\* Between the commands.
LEMMA NoCommandKeeps ==
    ASSUME BundleInv, EditTree \/ NextBuild \/ CommandStops \/ ClearFetched
    PROVE  BundleInv'
<1>1. BundleTyped /\ BuildGoesInOrder /\ FinishedIsShippable /\ ArchivesAreRead
  BY DEF BundleInv
<1>2. command' = "none" /\ UNCHANGED <<dist, building, archive, cut, slipped>>
  BY DEF EditTree, NextBuild, CommandStops, ClearFetched
<1>3. BundleTyped'
  <2>1. CASE EditTree
    BY <1>1, <2>1 DEF EditTree, BundleTyped
  <2>2. CASE NextBuild
    BY <1>1, <2>2 DEF NextBuild, BundleTyped
  <2>3. CASE CommandStops
    BY <1>1, <2>3 DEF CommandStops, BundleTyped
  <2>4. CASE ClearFetched
    <3>1. PICK x \in Downloads : fetched' = [fetched EXCEPT ![x] = "nothing"]
      BY <2>4 DEF ClearFetched
    <3>2. UNCHANGED <<tree, standalone, cut, building>>
      BY <2>4 DEF ClearFetched
    <3>3. fetched' \in [Downloads -> {"nothing", "whole", "page", "cut"}]
      BY <1>1, <3>1 DEF BundleTyped
    <3>4. fetched'["ffmpeg"] = "cut" => fetched["ffmpeg"] = "cut"
      BY <1>1, <3>1 DEF BundleTyped, Downloads
    <3>5. QED
      BY <1>1, <3>2, <3>3, <3>4 DEF BundleTyped
  <2>5. QED
    BY <2>1, <2>2, <2>3, <2>4
<1>4. BuildGoesInOrder'
  BY <1>2 DEF BuildGoesInOrder, BuildSteps
<1>5. FinishedIsShippable'
  BY <1>1, <1>2, NothingIsMade
<1>6. ArchivesAreRead'
  BY <1>1, <1>2 DEF ArchivesAreRead, NamedIsVerified, PackSteps
<1>7. QED
  BY <1>3, <1>4, <1>5, <1>6 DEF BundleInv

LEMMA BeginBundleKeeps ==
    ASSUME BundleInv, BeginBundle
    PROVE  BundleInv'
<1>1. BundleTyped /\ BuildGoesInOrder /\ FinishedIsShippable /\ ArchivesAreRead
  BY DEF BundleInv
<1>2. /\ standalone # 0 /\ command' = "copy" /\ dist' = EmptyDist
      /\ UNCHANGED <<tree, standalone, fetched, building, archive, cut, slipped>>
  BY DEF BeginBundle, Run
<1>3. BundleTyped'
  BY <1>1, <1>2 DEF BundleTyped
<1>4. BuildGoesInOrder'
  <2>1. EmptyDist \in DistRow /\ ~EmptyDist.finished
    BY DEF EmptyDist, DistRow, Content
  <2>2. standalone' > 0
    BY <1>1, <1>2 DEF BundleTyped
  <2>3. QED
    BY <1>2, <2>1, <2>2 DEF BuildGoesInOrder, BuiltSoFar
<1>5. FinishedIsShippable'
  <2>1. ~dist'.finished
    BY <1>2 DEF EmptyDist
  <2>2. building.state \in {"partial", "whole"} /\ building.of.finished => Shippable(building.of)'
    BY <1>1, <1>2, StillShippable DEF FinishedIsShippable
  <2>3. archive.state = "whole" /\ archive.of.finished => Shippable(archive.of)'
    BY <1>1, <1>2, StillShippable DEF FinishedIsShippable
  <2>4. QED
    BY <1>2, <2>1, <2>2, <2>3 DEF FinishedIsShippable, Shippable
<1>6. ArchivesAreRead'
  BY <1>1, <1>2 DEF ArchivesAreRead, NamedIsVerified, PackSteps
<1>7. QED
  BY <1>3, <1>4, <1>5, <1>6 DEF BundleInv

\* A step of the build: what it makes of the directory is what the next one
\* needs.
LEMMA StepKeeps ==
    ASSUME BundleInv, NEW from, NEW to \in BuildSteps, NEW new, Step(from, to, new),
           BuiltSoFar(to, new)
    PROVE  BundleInv'
<1>1. BundleTyped /\ BuildGoesInOrder /\ FinishedIsShippable /\ ArchivesAreRead
  BY DEF BundleInv
<1>2. /\ command' = to /\ dist' = new
      /\ UNCHANGED <<tree, standalone, fetched, building, archive, cut, slipped>>
  BY DEF Step
<1>3. BundleTyped'
  BY <1>1, <1>2 DEF BundleTyped
<1>4. BuildGoesInOrder'
  <2>1. BuiltSoFar(to, new)'
    BY <1>2 DEF BuiltSoFar
  <2>2. QED
    BY <1>2, <2>1 DEF BuildGoesInOrder
<1>5. FinishedIsShippable'
  <2>1. ~dist'.finished
    BY <1>2 DEF BuiltSoFar
  <2>2. building.state \in {"partial", "whole"} /\ building.of.finished => Shippable(building.of)'
    BY <1>1, <1>2, StillShippable DEF FinishedIsShippable
  <2>3. archive.state = "whole" /\ archive.of.finished => Shippable(archive.of)'
    BY <1>1, <1>2, StillShippable DEF FinishedIsShippable
  <2>4. QED
    BY <1>2, <2>1, <2>2, <2>3 DEF FinishedIsShippable, Shippable
<1>6. ArchivesAreRead'
  <2>1. to \notin PackSteps
    BY DEF BuildSteps, PackSteps
  <2>2. QED
    BY <1>1, <1>2, <2>1 DEF ArchivesAreRead, NamedIsVerified, PackSteps
<1>7. QED
  BY <1>3, <1>4, <1>5, <1>6 DEF BundleInv

\* The directory with one place of it changed is a directory.
LEMMA DistParts ==
    ASSUME NEW d \in DistRow
    PROVE  /\ d.program \in Nat /\ d.env \in BOOLEAN /\ d.packages \in {"none", "traced", "whole"}
           /\ d.scripts \in Nat /\ d.argon2 \in Content /\ d.ffmpeg \in Content
           /\ d.sharp \in Content /\ d.finished \in BOOLEAN
           /\ d = [program |-> d.program, env |-> d.env, packages |-> d.packages,
                   scripts |-> d.scripts, argon2 |-> d.argon2, ffmpeg |-> d.ffmpeg,
                   sharp |-> d.sharp, finished |-> d.finished]
BY DEF DistRow

LEMMA CopyStandaloneKeeps ==
    ASSUME BundleInv, CopyStandalone
    PROVE  BundleInv'
<1>1. BundleTyped /\ BuildGoesInOrder
  BY DEF BundleInv
<1>2. PICK packages \in {"traced", "whole"} :
          Step("copy", "strip",
               [dist EXCEPT !.program = standalone, !.env = TRUE, !.packages = packages,
                            !.argon2 = NativeHere, !.ffmpeg = NativeHere, !.sharp = NativeHere])
  BY DEF CopyStandalone
<1>3. BuiltSoFar("copy", dist)
  BY <1>1, <1>2 DEF BuildGoesInOrder, Step, BuildSteps
<1> DEFINE new == [dist EXCEPT !.program = standalone, !.env = TRUE, !.packages = packages,
                            !.argon2 = NativeHere, !.ffmpeg = NativeHere, !.sharp = NativeHere]
<1>4. BuiltSoFar("strip", new)
  <2>1. NativeHere \in Content /\ standalone \in Nat
    BY <1>1 DEF NativeHere, Content, BundleTyped
  <2>2. dist \in DistRow /\ ~dist.finished /\ standalone > 0
    BY <1>3 DEF BuiltSoFar
  <2>3. new \in DistRow /\ new.program = standalone /\ new.finished = dist.finished
    BY <2>1, <2>2 DEF DistRow
  <2>4. QED
    BY <2>2, <2>3 DEF BuiltSoFar
<1>5. "strip" \in BuildSteps
  BY DEF BuildSteps
<1>6. QED
  BY <1>2, <1>4, <1>5, StepKeeps

LEMMA StripSecretsKeeps ==
    ASSUME BundleInv, StripSecrets
    PROVE  BundleInv'
<1>1. BundleTyped /\ BuildGoesInOrder
  BY DEF BundleInv
<1> DEFINE new == [dist EXCEPT !.env = FALSE]
<1>2. Step("strip", "repair", new)
  BY DEF StripSecrets
<1>3. BuiltSoFar("strip", dist)
  BY <1>1, <1>2 DEF BuildGoesInOrder, Step, BuildSteps
<1>4. BuiltSoFar("repair", new)
  <2>1. dist \in DistRow /\ ~dist.finished /\ standalone > 0
    BY <1>3 DEF BuiltSoFar
  <2>2. new \in DistRow
    BY <1>1, <2>1 DEF DistRow, Content, BundleTyped
  <2>3. /\ new.program = dist.program /\ new.env = FALSE /\ new.packages = dist.packages /\ new.scripts = dist.scripts
         /\ new.argon2 = dist.argon2 /\ new.ffmpeg = dist.ffmpeg /\ new.sharp = dist.sharp /\ new.finished = dist.finished
    BY <2>1, DistParts
  <2>4. QED
    BY <1>3, <2>1, <2>2, <2>3 DEF BuiltSoFar
<1>5. "repair" \in BuildSteps
  BY DEF BuildSteps
<1>6. QED
  BY <1>2, <1>4, <1>5, StepKeeps

LEMMA RepairPackagesKeeps ==
    ASSUME BundleInv, RepairPackages
    PROVE  BundleInv'
<1>1. BundleTyped /\ BuildGoesInOrder
  BY DEF BundleInv
<1> DEFINE new == [dist EXCEPT !.packages = "whole"]
<1>2. Step("repair", "scripts", new)
  BY DEF RepairPackages
<1>3. BuiltSoFar("repair", dist)
  BY <1>1, <1>2 DEF BuildGoesInOrder, Step, BuildSteps
<1>4. BuiltSoFar("scripts", new)
  <2>1. dist \in DistRow /\ ~dist.finished /\ standalone > 0
    BY <1>3 DEF BuiltSoFar
  <2>2. new \in DistRow
    BY <1>1, <2>1 DEF DistRow, Content, BundleTyped
  <2>3. /\ new.program = dist.program /\ new.env = dist.env /\ new.packages = "whole" /\ new.scripts = dist.scripts
         /\ new.argon2 = dist.argon2 /\ new.ffmpeg = dist.ffmpeg /\ new.sharp = dist.sharp /\ new.finished = dist.finished
    BY <2>1, DistParts
  <2>4. QED
    BY <1>3, <2>1, <2>2, <2>3 DEF BuiltSoFar
<1>5. "scripts" \in BuildSteps
  BY DEF BuildSteps
<1>6. QED
  BY <1>2, <1>4, <1>5, StepKeeps

LEMMA AddScriptsKeeps ==
    ASSUME BundleInv, AddScripts
    PROVE  BundleInv'
<1>1. BundleTyped /\ BuildGoesInOrder
  BY DEF BundleInv
<1> DEFINE new == [dist EXCEPT !.scripts = tree]
<1>2. Step("scripts", "argon2", new)
  BY DEF AddScripts
<1>3. BuiltSoFar("scripts", dist)
  BY <1>1, <1>2 DEF BuildGoesInOrder, Step, BuildSteps
<1>4. BuiltSoFar("argon2", new)
  <2>1. dist \in DistRow /\ ~dist.finished /\ standalone > 0
    BY <1>3 DEF BuiltSoFar
  <2>2. new \in DistRow
    BY <1>1, <2>1 DEF DistRow, Content, BundleTyped
  <2>3. /\ new.program = dist.program /\ new.env = dist.env /\ new.packages = dist.packages /\ new.scripts = tree
         /\ new.argon2 = dist.argon2 /\ new.ffmpeg = dist.ffmpeg /\ new.sharp = dist.sharp /\ new.finished = dist.finished
    BY <2>1, DistParts
  <2>4. QED
    BY <1>3, <2>1, <2>2, <2>3 DEF BuiltSoFar
<1>5. "argon2" \in BuildSteps
  BY DEF BuildSteps
<1>6. QED
  BY <1>2, <1>4, <1>5, StepKeeps

LEMMA AddArgon2Keeps ==
    ASSUME BundleInv, AddArgon2
    PROVE  BundleInv'
<1>1. BundleTyped /\ BuildGoesInOrder
  BY DEF BundleInv
<1> DEFINE new == [dist EXCEPT !.argon2 = "linux"]
<1>2. Step("argon2", "ffmpeg", new)
  BY DEF AddArgon2
<1>3. BuiltSoFar("argon2", dist)
  BY <1>1, <1>2 DEF BuildGoesInOrder, Step, BuildSteps
<1>4. BuiltSoFar("ffmpeg", new)
  <2>1. dist \in DistRow /\ ~dist.finished /\ standalone > 0
    BY <1>3 DEF BuiltSoFar
  <2>2. new \in DistRow
    BY <1>1, <2>1 DEF DistRow, Content, BundleTyped
  <2>3. /\ new.program = dist.program /\ new.env = dist.env /\ new.packages = dist.packages /\ new.scripts = dist.scripts
         /\ new.argon2 = "linux" /\ new.ffmpeg = dist.ffmpeg /\ new.sharp = dist.sharp /\ new.finished = dist.finished
    BY <2>1, DistParts
  <2>4. QED
    BY <1>3, <2>1, <2>2, <2>3 DEF BuiltSoFar
<1>5. "ffmpeg" \in BuildSteps
  BY DEF BuildSteps
<1>6. QED
  BY <1>2, <1>4, <1>5, StepKeeps

LEMMA AddFfmpegKeeps ==
    ASSUME BundleInv, AddFfmpeg
    PROVE  BundleInv'
<1>1. BundleTyped /\ BuildGoesInOrder
  BY DEF BundleInv
<1> DEFINE kept == IF machine = "linux" \/ fetched["ffmpeg"] = "whole" THEN "linux" ELSE fetched["ffmpeg"]
           new == [dist EXCEPT !.ffmpeg = kept]
<1>2. Step("ffmpeg", "sharp", new) /\ (machine = "linux" \/ fetched["ffmpeg"] \in {"whole", "cut"})
  BY DEF AddFfmpeg
<1>3. BuiltSoFar("ffmpeg", dist)
  BY <1>1, <1>2 DEF BuildGoesInOrder, Step, BuildSteps
<1>4. kept = "linux" \/ (kept = "cut" /\ cut)
  BY <1>1, <1>2 DEF BundleTyped
<1>5. BuiltSoFar("sharp", new)
  <2> HIDE DEF kept
  <2>1. dist \in DistRow /\ ~dist.finished /\ standalone > 0
    BY <1>3 DEF BuiltSoFar
  <2>2. new \in DistRow
    BY <1>4, <2>1 DEF DistRow, Content
  <2>3. /\ new.program = dist.program /\ new.env = dist.env /\ new.packages = dist.packages /\ new.scripts = dist.scripts
         /\ new.argon2 = dist.argon2 /\ new.ffmpeg = kept /\ new.sharp = dist.sharp /\ new.finished = dist.finished
    BY <2>1, DistParts
  <2>4. QED
    BY <1>3, <1>4, <2>1, <2>2, <2>3 DEF BuiltSoFar
<1>6. "sharp" \in BuildSteps
  BY DEF BuildSteps
<1> HIDE DEF new
<1>7. QED
  BY <1>2, <1>5, <1>6, StepKeeps

LEMMA AddSharpKeeps ==
    ASSUME BundleInv, AddSharp
    PROVE  BundleInv'
<1>1. BundleTyped /\ BuildGoesInOrder
  BY DEF BundleInv
<1> DEFINE new == [dist EXCEPT !.sharp = "linux"]
<1>2. Step("sharp", "prove", new)
  BY DEF AddSharp
<1>3. BuiltSoFar("sharp", dist)
  BY <1>1, <1>2 DEF BuildGoesInOrder, Step, BuildSteps
<1>4. BuiltSoFar("prove", new)
  <2>1. dist \in DistRow /\ ~dist.finished /\ standalone > 0
    BY <1>3 DEF BuiltSoFar
  <2>2. new \in DistRow
    BY <1>1, <2>1 DEF DistRow, Content, BundleTyped
  <2>3. /\ new.program = dist.program /\ new.env = dist.env /\ new.packages = dist.packages /\ new.scripts = dist.scripts
         /\ new.argon2 = dist.argon2 /\ new.ffmpeg = dist.ffmpeg /\ new.sharp = "linux" /\ new.finished = dist.finished
    BY <2>1, DistParts
  <2>4. QED
    BY <1>3, <2>1, <2>2, <2>3 DEF BuiltSoFar
<1>5. "prove" \in BuildSteps
  BY DEF BuildSteps
<1>6. QED
  BY <1>2, <1>4, <1>5, StepKeeps

\* The last step: what is finished now can be shipped.
LEMMA ProveLinuxKeeps ==
    ASSUME BundleInv, ProveLinux
    PROVE  BundleInv'
<1>1. BundleTyped /\ BuildGoesInOrder /\ FinishedIsShippable /\ ArchivesAreRead
  BY DEF BundleInv
<1> DEFINE new == [dist EXCEPT !.finished = TRUE]
<1>2. /\ command = "prove" /\ command' = "none" /\ dist' = new
      /\ UNCHANGED <<tree, standalone, fetched, building, archive, cut, slipped>>
  BY DEF ProveLinux, Step
<1>3. BuiltSoFar("prove", dist)
  BY <1>1, <1>2 DEF BuildGoesInOrder, BuildSteps
<1>4. Shippable(new)
  <2>1. dist \in DistRow /\ standalone > 0 /\ standalone <= tree /\ standalone \in Nat /\ tree \in Nat
    BY <1>1, <1>3 DEF BuiltSoFar, BundleTyped
  <2>2. /\ dist.program = standalone /\ ~dist.env /\ dist.packages = "whole" /\ dist.scripts = tree
        /\ dist.argon2 = "linux" /\ (dist.ffmpeg = "linux" \/ (dist.ffmpeg = "cut" /\ cut)) /\ dist.sharp = "linux"
    BY <1>3 DEF BuiltSoFar
  <2>3. /\ new.program = dist.program /\ new.env = dist.env /\ new.packages = dist.packages /\ new.scripts = dist.scripts
         /\ new.argon2 = dist.argon2 /\ new.ffmpeg = dist.ffmpeg /\ new.sharp = dist.sharp /\ new.finished = TRUE
    BY <2>1, DistParts
  <2>4. 0 < new.program /\ new.program <= new.scripts
    BY <2>1, <2>2, <2>3
  <2>5. QED
    BY <2>2, <2>3, <2>4 DEF Shippable
<1>5. BundleTyped'
  BY <1>1, <1>2 DEF BundleTyped
<1>6. BuildGoesInOrder'
  BY <1>2 DEF BuildGoesInOrder, BuildSteps
<1>7. FinishedIsShippable'
  <2> HIDE DEF new
  <2>1. Shippable(dist)'
    BY <1>2, <1>4 DEF Shippable
  <2>2. building.state \in {"partial", "whole"} /\ building.of.finished => Shippable(building.of)'
    BY <1>1, <1>2, StillShippable DEF FinishedIsShippable
  <2>3. archive.state = "whole" /\ archive.of.finished => Shippable(archive.of)'
    BY <1>1, <1>2, StillShippable DEF FinishedIsShippable
  <2>4. QED
    BY <1>2, <2>1, <2>2, <2>3 DEF FinishedIsShippable, Shippable
<1>8. ArchivesAreRead'
  BY <1>1, <1>2 DEF ArchivesAreRead, NamedIsVerified, PackSteps
<1>9. QED
  BY <1>5, <1>6, <1>7, <1>8 DEF BundleInv

LEMMA FetchKeeps ==
    ASSUME BundleInv, NEW x \in Downloads, Fetch(x)
    PROVE  BundleInv'
<1>1. BundleTyped /\ BuildGoesInOrder /\ FinishedIsShippable /\ ArchivesAreRead
  BY DEF BundleInv
<1>2. UNCHANGED <<tree, standalone, dist, building, archive, slipped>> /\ command = x
  BY DEF Fetch
<1>3. PICK kept \in {"whole", "page", "cut"} :
          /\ fetched' = [fetched EXCEPT ![x] = kept]
          /\ kept = "cut" => command' = "none" /\ cut' = (cut \/ x = "ffmpeg")
          /\ kept # "cut" => UNCHANGED <<command, cut>>
  BY DEF Fetch
<1>4. cut => cut'
  BY <1>3
<1>5. BundleTyped'
  <2>1. fetched' \in [Downloads -> {"nothing", "whole", "page", "cut"}]
    BY <1>1, <1>3 DEF BundleTyped
  <2>2. fetched'["ffmpeg"] = "cut" => cut'
    <3>1. CASE x = "ffmpeg"
      <4>1. fetched'["ffmpeg"] = kept
        BY <1>1, <1>3, <3>1 DEF BundleTyped
      <4>2. kept = "cut" => cut'
        BY <1>3, <3>1
      <4>3. QED
        BY <4>1, <4>2
    <3>2. CASE x # "ffmpeg"
      <4>1. fetched'["ffmpeg"] = fetched["ffmpeg"]
        BY <1>1, <1>3, <3>2 DEF BundleTyped
      <4>2. QED
        BY <1>1, <1>4, <4>1 DEF BundleTyped
    <3>3. QED
      BY <3>1, <3>2
  <2>3. QED
    BY <1>1, <1>2, <2>1, <2>2 DEF BundleTyped
<1>6. BuildGoesInOrder'
  <2>1. command' = "none" \/ UNCHANGED <<command, cut>>
    BY <1>3
  <2>2. QED
    BY <1>1, <1>2, <2>1 DEF BuildGoesInOrder, BuiltSoFar, BuildSteps
<1>7. FinishedIsShippable'
  BY <1>1, <1>2, <1>4, NothingIsMade
<1>8. ArchivesAreRead'
  <2>1. command' \notin PackSteps
    BY <1>2, <1>3 DEF Downloads, PackSteps
  <2>2. QED
    BY <1>1, <1>2, <2>1 DEF ArchivesAreRead, NamedIsVerified, PackSteps
<1>9. QED
  BY <1>5, <1>6, <1>7, <1>8 DEF BundleInv

\* The archive is of the directory as it is.
LEMMA BeginPackKeeps ==
    ASSUME BundleInv, BeginPack
    PROVE  BundleInv'
<1>1. BundleTyped /\ BuildGoesInOrder /\ FinishedIsShippable /\ ArchivesAreRead
  BY DEF BundleInv
<1>2. /\ command' = "write" /\ building' = Zip("partial")
      /\ UNCHANGED <<tree, standalone, dist, fetched, archive, cut, slipped>>
  BY DEF BeginPack, Run
<1>3. building'.of = dist /\ building'.state = "partial" /\ building' = [of |-> dist, state |-> "partial"]
  BY <1>2 DEF Zip
<1>4. BundleTyped'
  BY <1>1, <1>2, <1>3 DEF BundleTyped
<1>5. BuildGoesInOrder'
  BY <1>2 DEF BuildGoesInOrder, BuildSteps
<1>6. FinishedIsShippable'
  <2>1. dist.finished => Shippable(dist)'
    BY <1>1, <1>2, StillShippable DEF FinishedIsShippable
  <2>2. archive.state = "whole" /\ archive.of.finished => Shippable(archive.of)'
    BY <1>1, <1>2, StillShippable DEF FinishedIsShippable
  <2>3. QED
    BY <1>2, <1>3, <2>1, <2>2 DEF FinishedIsShippable, Shippable
<1>7. ArchivesAreRead'
  <2>1. building' # NoZip
    BY <1>3 DEF NoZip
  <2>2. QED
    BY <1>1, <1>2, <1>3, <2>1 DEF ArchivesAreRead, NamedIsVerified
<1>8. QED
  BY <1>4, <1>5, <1>6, <1>7 DEF BundleInv

LEMMA WriteArchiveKeeps ==
    ASSUME BundleInv, WriteArchive
    PROVE  BundleInv'
<1>1. BundleTyped /\ BuildGoesInOrder /\ FinishedIsShippable /\ ArchivesAreRead
  BY DEF BundleInv
<1>2. /\ command = "write" /\ command' = "verify" /\ building' = Zip("whole")
      /\ UNCHANGED <<tree, standalone, dist, fetched, archive, cut, slipped>>
  BY DEF WriteArchive
<1>3. building'.of = dist /\ building'.state = "whole" /\ building' = [of |-> dist, state |-> "whole"]
  BY <1>2 DEF Zip
<1>4. BundleTyped'
  BY <1>1, <1>2, <1>3 DEF BundleTyped
<1>5. BuildGoesInOrder'
  BY <1>2 DEF BuildGoesInOrder, BuildSteps
<1>6. FinishedIsShippable'
  <2>1. dist.finished => Shippable(dist)'
    BY <1>1, <1>2, StillShippable DEF FinishedIsShippable
  <2>2. archive.state = "whole" /\ archive.of.finished => Shippable(archive.of)'
    BY <1>1, <1>2, StillShippable DEF FinishedIsShippable
  <2>3. QED
    BY <1>2, <1>3, <2>1, <2>2 DEF FinishedIsShippable, Shippable
<1>7. ArchivesAreRead'
  <2>1. building' # NoZip
    BY <1>3 DEF NoZip
  <2>2. QED
    BY <1>1, <1>2, <1>3, <2>1 DEF ArchivesAreRead, NamedIsVerified
<1>8. QED
  BY <1>4, <1>5, <1>6, <1>7 DEF BundleInv

\* Another program's file: it was there before the reading, or slipped in after.
LEMMA ResynchroniseKeeps ==
    ASSUME BundleInv, Resynchronise
    PROVE  BundleInv'
<1>1. BundleTyped /\ BuildGoesInOrder /\ FinishedIsShippable /\ ArchivesAreRead
  BY DEF BundleInv
<1>2. /\ command \in {"verify", "remove", "rename"}
      /\ building' = [building EXCEPT !.state = "other"]
      /\ slipped' = (slipped \/ command # "verify")
      /\ UNCHANGED <<tree, standalone, dist, fetched, command, archive, cut>>
  BY DEF Resynchronise
<1>3. building = [of |-> building.of, state |-> building.state]
  BY <1>1, <1>2 DEF BundleTyped, ArchivesAreRead, PackSteps
<1>4. building' = [of |-> building.of, state |-> "other"] /\ building'.state = "other" /\ building'.of = building.of
  BY <1>2, <1>3
<1>5. BundleTyped'
  BY <1>1, <1>2, <1>4 DEF BundleTyped
<1>6. BuildGoesInOrder'
  BY <1>2 DEF BuildGoesInOrder, BuildSteps
<1>7. FinishedIsShippable'
  <2>1. dist.finished => Shippable(dist)'
    BY <1>1, <1>2, StillShippable DEF FinishedIsShippable
  <2>2. archive.state = "whole" /\ archive.of.finished => Shippable(archive.of)'
    BY <1>1, <1>2, StillShippable DEF FinishedIsShippable
  <2>3. QED
    BY <1>2, <1>4, <2>1, <2>2 DEF FinishedIsShippable, Shippable
<1>8. ArchivesAreRead'
  <2>1. building' # NoZip
    BY <1>4 DEF NoZip
  <2>2. QED
    BY <1>1, <1>2, <1>4, <2>1 DEF ArchivesAreRead, NamedIsVerified
<1>9. QED
  BY <1>5, <1>6, <1>7, <1>8 DEF BundleInv

LEMMA ReadBackKeeps ==
    ASSUME BundleInv, ReadBack
    PROVE  BundleInv'
<1>1. BundleTyped /\ BuildGoesInOrder /\ FinishedIsShippable /\ ArchivesAreRead
  BY DEF BundleInv
<1>2. /\ command = "verify" /\ command' = IF building.state = "whole" THEN "remove" ELSE "none"
      /\ UNCHANGED <<tree, standalone, dist, fetched, building, archive, cut, slipped>>
  BY DEF ReadBack
<1>3. BundleTyped'
  BY <1>1, <1>2 DEF BundleTyped
<1>4. BuildGoesInOrder'
  BY <1>2 DEF BuildGoesInOrder, BuildSteps
<1>5. FinishedIsShippable'
  BY <1>1, <1>2, NothingIsMade
<1>6. ArchivesAreRead'
  BY <1>1, <1>2 DEF ArchivesAreRead, NamedIsVerified, PackSteps
<1>7. QED
  BY <1>3, <1>4, <1>5, <1>6 DEF BundleInv

LEMMA RemoveOldArchiveKeeps ==
    ASSUME BundleInv, RemoveOldArchive
    PROVE  BundleInv'
<1>1. BundleTyped /\ BuildGoesInOrder /\ FinishedIsShippable /\ ArchivesAreRead
  BY DEF BundleInv
<1>2. /\ command = "remove" /\ command' = "rename" /\ archive' = NoZip
      /\ UNCHANGED <<tree, standalone, dist, fetched, building, cut, slipped>>
  BY DEF RemoveOldArchive
<1>3. archive'.state = "none"
  BY <1>2 DEF NoZip
<1>4. BundleTyped'
  BY <1>1, <1>2 DEF BundleTyped
<1>5. BuildGoesInOrder'
  BY <1>2 DEF BuildGoesInOrder, BuildSteps
<1>6. FinishedIsShippable'
  <2>1. dist.finished => Shippable(dist)'
    BY <1>1, <1>2, StillShippable DEF FinishedIsShippable
  <2>2. building.state \in {"partial", "whole"} /\ building.of.finished => Shippable(building.of)'
    BY <1>1, <1>2, StillShippable DEF FinishedIsShippable
  <2>3. QED
    BY <1>2, <1>3, <2>1, <2>2 DEF FinishedIsShippable, Shippable
<1>7. ArchivesAreRead'
  BY <1>1, <1>2, <1>3 DEF ArchivesAreRead, NamedIsVerified, PackSteps
<1>8. QED
  BY <1>4, <1>5, <1>6, <1>7 DEF BundleInv

LEMMA NameArchiveKeeps ==
    ASSUME BundleInv, NameArchive
    PROVE  BundleInv'
<1>1. BundleTyped /\ BuildGoesInOrder /\ FinishedIsShippable /\ ArchivesAreRead
  BY DEF BundleInv
<1>2. /\ command = "rename" /\ command' = "none" /\ archive' = building /\ building' = NoZip
      /\ UNCHANGED <<tree, standalone, dist, fetched, cut, slipped>>
  BY DEF NameArchive
<1>3. building'.state = "none"
  BY <1>2 DEF NoZip
<1>4. BundleTyped'
  BY <1>1, <1>2 DEF BundleTyped
<1>5. BuildGoesInOrder'
  BY <1>2 DEF BuildGoesInOrder, BuildSteps
<1>6. FinishedIsShippable'
  <2>1. dist.finished => Shippable(dist)'
    BY <1>1, <1>2, StillShippable DEF FinishedIsShippable
  <2>2. archive'.state = "whole" /\ archive'.of.finished => Shippable(archive.of)'
    BY <1>1, <1>2 DEF FinishedIsShippable, Shippable
  <2>3. QED
    BY <1>2, <1>3, <2>1, <2>2 DEF FinishedIsShippable, Shippable
<1>7. ArchivesAreRead'
  BY <1>1, <1>2, <1>3 DEF ArchivesAreRead, NamedIsVerified, PackSteps
<1>8. QED
  BY <1>4, <1>5, <1>6, <1>7 DEF BundleInv

LEMMA BundleStays ==
    ASSUME BundleInv, UNCHANGED bundleVars
    PROVE  BundleInv'
<1>1. UNCHANGED <<tree, standalone, dist, fetched, command, building, archive, cut, slipped>>
  BY DEF bundleVars
<1>2. QED
  BY <1>1 DEF BundleInv, BundleTyped, BuildGoesInOrder, BuiltSoFar, FinishedIsShippable, Shippable,
              ArchivesAreRead, NamedIsVerified

\* What build:cpanel finished and pack:cpanel named can be shipped, for
\* however many commands and versions (scripts/build-cpanel.mjs,
\* scripts/pack-cpanel.mjs).
THEOREM BundlesAreWhole == BundleSpec => []BundlesLand
<1>1. BundleInit => BundleInv
  BY BundleStart
<1>2. BundleInv /\ [BundleNext]_bundleVars => BundleInv'
  BY NoCommandKeeps, BeginBundleKeeps, CopyStandaloneKeeps, StripSecretsKeeps, RepairPackagesKeeps,
     AddScriptsKeeps, AddArgon2Keeps, FetchKeeps, AddFfmpegKeeps, AddSharpKeeps, ProveLinuxKeeps,
     BeginPackKeeps, WriteArchiveKeeps, ResynchroniseKeeps, ReadBackKeeps, RemoveOldArchiveKeeps,
     NameArchiveKeeps, BundleStays DEF BundleNext
<1>3. BundleInv => BundlesLand
  BY DEF BundleInv, BundlesLand, FinishedIsShippable, ArchivesAreRead
<1>4. QED
  BY <1>1, <1>2, <1>3, PTL DEF BundleSpec

Zips == {"none", "partial", "whole", "other"}
StepOfCommand == BuildSteps \cup PackSteps \cup {"none"}

\* A command is at one of its steps, and an archive is as one of them left it.
CommandsAreBounded ==
    /\ machine \in {"linux", "windows"} /\ tree \in 1..TreeBound /\ commands \in 0..CommandBound
    /\ command \in StepOfCommand /\ building.state \in Zips /\ archive.state \in Zips

LEMMA CommandsStayBounded == BundleInv /\ CommandsAreBounded /\ [BundleNext]_bundleVars => CommandsAreBounded'
<1> SUFFICES ASSUME BundleInv, CommandsAreBounded, [BundleNext]_bundleVars
             PROVE  CommandsAreBounded'
  OBVIOUS
<1>1. TreeBound \in Nat \ {0} /\ CommandBound \in Nat
  BY BundleAssumption DEF BundleAssumption
<1>2. BuildSteps \subseteq StepOfCommand /\ PackSteps \subseteq StepOfCommand /\ "none" \in StepOfCommand
  BY DEF StepOfCommand
<1>3. NoZip.state \in Zips
  BY DEF NoZip, Zips
<1>4. CASE UNCHANGED bundleVars
  BY <1>4 DEF bundleVars, CommandsAreBounded
<1>5. CASE EditTree
  BY <1>1, <1>5 DEF EditTree, CommandsAreBounded
<1>6. CASE NextBuild \/ ClearFetched
  BY <1>6 DEF NextBuild, ClearFetched, CommandsAreBounded
<1>7. CASE CommandStops
  BY <1>2, <1>7 DEF CommandStops, CommandsAreBounded
<1>8. ASSUME NEW from, NEW to \in StepOfCommand, NEW new, Step(from, to, new)
      PROVE  CommandsAreBounded'
  BY <1>8 DEF Step, CommandsAreBounded
<1>9. CASE CopyStandalone \/ StripSecrets \/ RepairPackages \/ AddScripts \/ AddArgon2 \/ AddFfmpeg \/ AddSharp
           \/ ProveLinux
  <2>1. {"strip", "repair", "scripts", "argon2", "ffmpeg", "sharp", "prove", "none"} \subseteq StepOfCommand
    BY DEF StepOfCommand, BuildSteps
  <2>2. \E from, to, new : to \in StepOfCommand /\ Step(from, to, new)
    BY <1>9, <2>1 DEF CopyStandalone, StripSecrets, RepairPackages, AddScripts, AddArgon2, AddFfmpeg, AddSharp,
                      ProveLinux
  <2>3. QED
    BY <1>8, <2>2
<1>10. CASE BeginBundle
  <2>1. "copy" \in StepOfCommand
    BY <1>2 DEF BuildSteps
  <2>2. QED
    BY <1>1, <1>10, <2>1 DEF BeginBundle, Run, CommandsAreBounded
<1>11. ASSUME NEW x \in Downloads, Fetch(x)
       PROVE  CommandsAreBounded'
  BY <1>2, <1>11 DEF Fetch, CommandsAreBounded
<1>12. CASE BeginPack
  <2>1. "write" \in StepOfCommand
    BY <1>2 DEF PackSteps
  <2>2. Zip("partial").state \in Zips
    BY DEF Zip, Zips
  <2>3. building' = Zip("partial") /\ command' = "write" /\ commands < CommandBound /\ commands' = commands + 1
        /\ UNCHANGED <<machine, tree, archive>>
    BY <1>12 DEF BeginPack, Run
  <2>4. building'.state \in Zips
    BY <2>2, <2>3
  <2>5. commands' \in 0..CommandBound
    BY <1>1, <2>3 DEF CommandsAreBounded
  <2>6. QED
    BY <2>1, <2>3, <2>4, <2>5 DEF CommandsAreBounded
<1>13. CASE WriteArchive
  <2>1. "verify" \in StepOfCommand
    BY <1>2 DEF PackSteps
  <2>2. Zip("whole").state \in Zips
    BY DEF Zip, Zips
  <2>3. building' = Zip("whole") /\ command' = "verify" /\ UNCHANGED <<machine, tree, archive, commands>>
    BY <1>13 DEF WriteArchive
  <2>4. building'.state \in Zips
    BY <2>2, <2>3
  <2>5. QED
    BY <2>1, <2>3, <2>4 DEF CommandsAreBounded
<1>14. CASE Resynchronise
  <2>1. building # NoZip
    BY <1>14 DEF Resynchronise, BundleInv, ArchivesAreRead, PackSteps
  <2>2. building = [of |-> building.of, state |-> building.state]
    BY <2>1 DEF BundleInv, BundleTyped
  <2>3. building' = [building EXCEPT !.state = "other"] /\ UNCHANGED <<machine, tree, command, archive, commands>>
    BY <1>14 DEF Resynchronise
  <2>4. building'.state = "other"
    BY <2>2, <2>3
  <2>5. building'.state \in Zips
    BY <2>4 DEF Zips
  <2>6. QED
    BY <2>3, <2>5 DEF CommandsAreBounded
<1>15. CASE ReadBack
  <2>1. "remove" \in StepOfCommand
    BY <1>2 DEF PackSteps
  <2>2. QED
    BY <1>2, <1>15, <2>1 DEF ReadBack, CommandsAreBounded
<1>16. CASE RemoveOldArchive
  <2>1. "rename" \in StepOfCommand
    BY <1>2 DEF PackSteps
  <2>2. QED
    BY <1>3, <1>16, <2>1 DEF RemoveOldArchive, CommandsAreBounded
<1>17. CASE NameArchive
  BY <1>2, <1>3, <1>17 DEF NameArchive, CommandsAreBounded
<1>18. QED
  BY <1>4, <1>5, <1>6, <1>7, <1>9, <1>10, <1>11, <1>12, <1>13, <1>14, <1>15, <1>16, <1>17 DEF BundleNext

LEMMA BundleTypesStay == BundleSpec => []BundleTypeOK
<1>1. BundleInit => CommandsAreBounded
  <2> SUFFICES ASSUME BundleInit PROVE CommandsAreBounded
    OBVIOUS
  <2>1. tree \in 1..TreeBound /\ commands \in 0..CommandBound
    BY BundleAssumption DEF BundleAssumption, BundleInit
  <2>2. building.state \in Zips /\ archive.state \in Zips /\ command \in StepOfCommand
    BY DEF BundleInit, NoZip, Zips, StepOfCommand
  <2>3. QED
    BY <2>1, <2>2 DEF BundleInit, CommandsAreBounded
<1>2. BundleInv /\ CommandsAreBounded => BundleTypeOK
  <2> SUFFICES ASSUME BundleInv, CommandsAreBounded PROVE BundleTypeOK
    OBVIOUS
  <2>1. standalone \in 0..TreeBound
    BY BundleAssumption DEF BundleAssumption, BundleInv, BundleTyped, CommandsAreBounded
  <2>2. fetched \in [Downloads -> {"nothing", "whole", "page", "cut"}]
    BY DEF BundleInv, BundleTyped
  <2>3. {building.state, archive.state} \subseteq {"none", "partial", "whole", "other"}
    BY DEF CommandsAreBounded, Zips
  <2>4. command \in BuildSteps \cup PackSteps \cup {"none"}
    BY DEF CommandsAreBounded, StepOfCommand
  <2>5. QED
    BY <2>1, <2>2, <2>3, <2>4 DEF CommandsAreBounded, BundleTypeOK
<1>3. BundleInv /\ [BundleNext]_bundleVars => BundleInv'
  BY NoCommandKeeps, BeginBundleKeeps, CopyStandaloneKeeps, StripSecretsKeeps, RepairPackagesKeeps,
     AddScriptsKeeps, AddArgon2Keeps, FetchKeeps, AddFfmpegKeeps, AddSharpKeeps, ProveLinuxKeeps,
     BeginPackKeeps, WriteArchiveKeeps, ResynchroniseKeeps, ReadBackKeeps, RemoveOldArchiveKeeps,
     NameArchiveKeeps, BundleStays DEF BundleNext
<1>4. QED
  BY <1>1, <1>2, <1>3, BundleStart, CommandsStayBounded, PTL DEF BundleSpec

---------------------------------------------------------------------------
(* Health: the page and the configuration                                *)

HealthPageRow == [at : {"none", "measuring", "version", "done", "failed"}, status : Status]

HealthTyped ==
    /\ watched \subseteq Check
    /\ fact = [c \in watched |-> fact[c]] /\ \A c \in watched : fact[c] \in Facts(c)
    /\ reach \in [Subject -> {"answers", "refuses", "hangs"}]
    /\ row \in [watched -> HealthPageRow]
    /\ verdicts \in [watched -> SUBSET {"right", "untold", "wrong"}]
    /\ written \in Config /\ env \in Config

\* Only a process that serves has a page, and only one that may serves.
PageIsServed ==
    /\ ~serving => \A c \in watched : row[c].at = "none" /\ row[c].status = "info"
    /\ serving => MayServe(env)

\* What a row could find now is among what it was right to find since its
\* report began.
VerdictsAreKept == \A c \in watched : row[c].at # "none" => Verdict(c, fact[c]) \in verdicts[c]

\* A row that says "ok" was right then, one that says "info" was no worse than
\* untold, and one that could not run is a warning.
RowsAreGraded ==
    \A c \in watched :
        /\ row[c].status = "ok" => "right" \in verdicts[c]
        /\ row[c].at \in {"version", "done"} /\ row[c].status = "info" =>
               "right" \in verdicts[c] \/ "untold" \in verdicts[c]
        /\ row[c].at = "failed" => row[c].status = "warn"

\* Who does not answer now is among those that did not since the report began.
TroubleIsKept ==
    \A c \in watched : row[c].at # "none" =>
        \A s \in Subject : Unanswered(s, reach[s]) => s \in troubled

ConfigIsGraded == "config" \in watched /\ row["config"].status = "fail" => Blockers(env) # {}

HealthInv ==
    /\ HealthTyped /\ PageIsServed /\ VerdictsAreKept /\ RowsAreGraded
    /\ TroubleIsKept /\ RowsFailAlone /\ ConfigIsGraded

\* What a grade says of the fact it is of.
GradedRightly(c, f) ==
    /\ Grade(c, f) \in Status
    /\ Grade(c, f) = "ok" => Right(c, f)
    /\ Grade(c, f) = "info" => Untold(c, f)

LEMMA LatencyIsGraded ==
    ASSUME NEW f \in Facts("db")
    PROVE  GradedRightly("db", f)
<1>1. f \in {100, 101, 501}
  BY DEF Facts
<1>2. Grade("db", f) = GradeLatency(f)
  BY DEF Grade
<1>3. Right("db", f) <=> f <= 100
  BY DEF Right
<1>4. f > 500 \/ f > 100 \/ f <= 100
  BY <1>1
<1>5. GradeLatency(f) \in {"fail", "warn", "ok"} /\ (GradeLatency(f) = "ok" => ~(f > 500) /\ ~(f > 100))
  BY DEF GradeLatency
<1>6. QED
  BY <1>2, <1>3, <1>4, <1>5 DEF GradedRightly, Status

LEMMA MigrationsAreGraded ==
    ASSUME NEW f \in Facts("migrations")
    PROVE  GradedRightly("migrations", f)
<1>1. Grade("migrations", f) = GradeMigrations(f)
  BY DEF Grade
<1>2. Right("migrations", f) <=> f.failed = {} /\ f.shipped # NoFiles /\ f.shipped \subseteq f.applied
  BY DEF Right
<1>3. f.shipped = NoFiles /\ f.failed = {} => Untold("migrations", f)
  BY DEF Untold
<1>4. /\ GradeMigrations(f) \in Status
      /\ GradeMigrations(f) = "ok" => f.failed = {} /\ f.shipped # NoFiles /\ f.shipped \subseteq f.applied
      /\ GradeMigrations(f) = "info" => f.shipped = NoFiles /\ f.failed = {}
  <2>1. CASE f.failed # {}
    BY <2>1 DEF GradeMigrations, Status
  <2>2. CASE f.failed = {} /\ f.shipped = NoFiles
    BY <2>2 DEF GradeMigrations, Status
  <2>3. CASE f.failed = {} /\ f.shipped # NoFiles
    BY <2>3 DEF GradeMigrations, Status
  <2>4. QED
    BY <2>1, <2>2, <2>3
<1>5. QED
  BY <1>1, <1>2, <1>3, <1>4 DEF GradedRightly

LEMMA CertificateIsGraded ==
    ASSUME NEW f \in Facts("tls")
    PROVE  GradedRightly("tls", f)
<1>1. Grade("tls", f) = GradeCertificate(f)
  BY DEF Grade
<1>2. Right("tls", f) <=> f.trusted /\ f.coversHost /\ f.daysLeft > 20
  BY DEF Right
<1>3. f.daysLeft \in {6, 20, 21}
  BY DEF Facts
<1>4. f.daysLeft < 21 \/ f.daysLeft > 20
  BY <1>3
<1>5. GradeCertificate(f) \in {"fail", "warn", "ok"}
  BY DEF GradeCertificate
<1>6. GradeCertificate(f) = "ok" => f.trusted /\ f.coversHost /\ ~(f.daysLeft < 21)
  BY DEF GradeCertificate
<1>7. QED
  BY <1>1, <1>2, <1>4, <1>5, <1>6 DEF GradedRightly, Status

\* "ok" is what every nameserver answers the same way.
LEMMA NameserversAreGraded ==
    ASSUME NEW f \in Facts("dns")
    PROVE  GradedRightly("dns", f)
<1>1. Grade("dns", f) = GradeNameservers(f)
  BY DEF Grade
<1>2. Right("dns", f) <=> \A n \in NameServer : f[n] = {"here"}
  BY DEF Right
<1> DEFINE answered == {n \in NameServer : f[n] # NoAnswer}
           several == Cardinality({f[n] : n \in answered}) > 1
<1>3. GradeNameservers(f) =
          CASE answered = {} -> "fail"
            [] several -> "fail"
            [] \E n \in answered : f[n] # {"here"} -> "fail"
            [] answered # {} /\ \A n \in answered : f[n] = {"here"} ->
                   IF answered = NameServer THEN "ok" ELSE "warn"
  BY DEF GradeNameservers
<1> HIDE DEF answered, several
<1>4. (\E n \in answered : f[n] # {"here"}) \/ (\A n \in answered : f[n] = {"here"})
  OBVIOUS
<1>5. GradeNameservers(f) \in {"fail", "warn", "ok"}
  <2>1. CASE answered = {}
    BY <1>3, <2>1
  <2>2. CASE answered # {} /\ several
    BY <1>3, <2>2
  <2>3. CASE answered # {} /\ ~several /\ \E n \in answered : f[n] # {"here"}
    BY <1>3, <2>3
  <2>4. CASE answered # {} /\ ~several /\ \A n \in answered : f[n] = {"here"}
    BY <1>3, <2>4
  <2>5. QED
    BY <1>4, <2>1, <2>2, <2>3, <2>4
<1>6. GradeNameservers(f) = "ok" => answered = NameServer /\ \A n \in answered : f[n] = {"here"}
  <2>1. CASE answered = {}
    BY <1>3, <2>1
  <2>2. CASE answered # {} /\ several
    BY <1>3, <2>2
  <2>3. CASE answered # {} /\ ~several /\ \E n \in answered : f[n] # {"here"}
    BY <1>3, <2>3
  <2>4. CASE answered # {} /\ ~several /\ \A n \in answered : f[n] = {"here"}
    BY <1>3, <2>4
  <2>5. QED
    BY <1>4, <2>1, <2>2, <2>3, <2>4
<1>7. QED
  BY <1>1, <1>2, <1>5, <1>6 DEF GradedRightly, Status

LEMMA HeadersAreGraded ==
    ASSUME NEW f \in Facts("headers")
    PROVE  GradedRightly("headers", f)
<1>1. Grade("headers", f) = GradeHeaders(f, HasDomain(env))
  BY DEF Grade
<1>2. Right("headers", f) <=> f.csp = "strict" /\ f.others /\ (HasDomain(env) => f.hsts = "year")
  BY DEF Right
<1>3. GradeHeaders(f, HasDomain(env)) \in {"fail", "ok"}
  BY DEF GradeHeaders
<1>4. GradeHeaders(f, HasDomain(env)) = "ok"
          => f.csp = "strict" /\ f.others /\ (HasDomain(env) => f.hsts = "year")
  BY DEF GradeHeaders
<1>5. QED
  BY <1>1, <1>2, <1>3, <1>4 DEF GradedRightly, Status

LEMMA AuditIsGraded ==
    ASSUME NEW f \in Facts("audit")
    PROVE  GradedRightly("audit", f)
<1>1. Grade("audit", f) = GradeAudit(f)
  BY DEF Grade
<1>2. Right("audit", f) <=> f.there /\ f.high + f.moderate = 0 /\ f.ageDays <= 30
  BY DEF Right
<1>3. f = [there |-> FALSE] \/ f \in [there : {TRUE}, high : 0..1, moderate : 0..1, ageDays : {30, 31}]
  BY DEF Facts
<1>4. CASE f = [there |-> FALSE]
  <2>1. ~f.there
    BY <1>4
  <2>2. GradeAudit(f) = "info"
    BY <2>1 DEF GradeAudit
  <2>3. Untold("audit", f)
    BY <2>1 DEF Untold
  <2>4. QED
    BY <1>1, <2>2, <2>3 DEF GradedRightly, Status
<1>5. CASE f \in [there : {TRUE}, high : 0..1, moderate : 0..1, ageDays : {30, 31}]
  <2>1. f.there /\ f.high \in 0..1 /\ f.moderate \in 0..1 /\ f.ageDays \in {30, 31}
    BY <1>5
  <2>2. f.high > 0 \/ f.high = 0
    BY <2>1
  <2>3. GradeAudit(f) \in {"fail", "warn", "ok"}
    <3>1. CASE f.high > 0
      BY <2>1, <3>1 DEF GradeAudit
    <3>2. CASE f.high = 0 /\ ~(f.high > 0)
      BY <2>1, <3>2 DEF GradeAudit
    <3>3. QED
      BY <2>2, <3>1, <3>2
  <2>4. GradeAudit(f) = "ok" => f.high = 0 /\ ~(f.moderate > 0 \/ f.ageDays > 30)
    <3>1. CASE f.high > 0
      BY <2>1, <3>1 DEF GradeAudit
    <3>2. CASE f.high = 0 /\ ~(f.high > 0)
      BY <2>1, <3>2 DEF GradeAudit
    <3>3. QED
      BY <2>2, <3>1, <3>2
  <2>5. f.high = 0 /\ ~(f.moderate > 0 \/ f.ageDays > 30) => f.high + f.moderate = 0 /\ f.ageDays <= 30
    BY <2>1
  <2>6. QED
    BY <1>1, <1>2, <2>1, <2>3, <2>4, <2>5 DEF GradedRightly, Status
<1>6. QED
  BY <1>3, <1>4, <1>5

LEMMA AdminMfaIsGraded ==
    ASSUME NEW f \in Facts("mfa")
    PROVE  GradedRightly("mfa", f)
<1>1. Grade("mfa", f) = GradeAdminMfa(f)
  BY DEF Grade
<1>2. Right("mfa", f) <=> f = {}
  BY DEF Right
<1>3. QED
  BY <1>1, <1>2 DEF GradeAdminMfa, GradedRightly, Status

LEMMA SignInsAreGraded ==
    ASSUME NEW f \in Facts("signins")
    PROVE  GradedRightly("signins", f)
<1>1. Grade("signins", f) = GradeSignIns(f)
  BY DEF Grade
<1>2. Right("signins", f) <=> f.mfaFailed = 0 /\ f.failed < 50
  BY DEF Right
<1>3. f.mfaFailed \in 0..1 /\ f.failed \in {49, 50}
  BY DEF Facts
<1>4. ~(f.mfaFailed > 0 \/ f.failed >= 50) => f.mfaFailed = 0 /\ f.failed < 50
  BY <1>3
<1>5. GradeSignIns(f) \in {"warn", "ok"} /\ (GradeSignIns(f) = "ok" => ~(f.mfaFailed > 0 \/ f.failed >= 50))
  BY DEF GradeSignIns
<1>6. QED
  BY <1>1, <1>2, <1>4, <1>5 DEF GradedRightly, Status

LEMMA DiskIsGraded ==
    ASSUME NEW f \in Facts("disk")
    PROVE  GradedRightly("disk", f)
<1>1. Grade("disk", f) = GradeDisk(f)
  BY DEF Grade
<1>2. Right("disk", f) <=> f >= 15
  BY DEF Right
<1>3. f \in {4, 14, 15}
  BY DEF Facts
<1>4. f < 15 \/ f >= 15
  BY <1>3
<1>5. GradeDisk(f) \in {"fail", "warn", "ok"} /\ (GradeDisk(f) = "ok" => ~(f < 15))
  BY DEF GradeDisk
<1>6. QED
  BY <1>1, <1>2, <1>4, <1>5 DEF GradedRightly, Status

LEMMA ConfigurationIsGraded ==
    ASSUME env \in Config, NEW f \in Facts("config")
    PROVE  /\ GradedRightly("config", f)
           /\ Grade("config", f) = "fail" => Blockers(env) # {}
<1>1. Grade("config", f) = GradeConfig(env)
  BY DEF Grade
<1>2. Right("config", f) <=> env.wrong = {}
  BY DEF Right
<1>3. env.wrong \subseteq Required \cup Optional
  BY DEF Config
<1>4. Blockers(env) = {} /\ Warnings(env) = {} => env.wrong = {}
  BY <1>3 DEF Blockers, Warnings
<1>5. QED
  BY <1>1, <1>2, <1>4 DEF GradeConfig, GradedRightly, Status

LEMMA GradesAreRight ==
    ASSUME env \in Config, NEW c \in Check, NEW f \in Facts(c)
    PROVE  GradedRightly(c, f)
<1>1. \/ c = "db" \/ c = "migrations" \/ c = "tls" \/ c = "dns" \/ c = "headers"
      \/ c = "audit" \/ c = "mfa" \/ c = "signins" \/ c = "disk" \/ c = "config"
  BY DEF Check
<1>2. CASE c = "db"
  BY <1>2, LatencyIsGraded
<1>3. CASE c = "migrations"
  BY <1>3, MigrationsAreGraded
<1>4. CASE c = "tls"
  BY <1>4, CertificateIsGraded
<1>5. CASE c = "dns"
  BY <1>5, NameserversAreGraded
<1>6. CASE c = "headers"
  BY <1>6, HeadersAreGraded
<1>7. CASE c = "audit"
  BY <1>7, AuditIsGraded
<1>8. CASE c = "mfa"
  BY <1>8, AdminMfaIsGraded
<1>9. CASE c = "signins"
  BY <1>9, SignInsAreGraded
<1>10. CASE c = "disk"
  BY <1>10, DiskIsGraded
<1>11. CASE c = "config"
  BY <1>11, ConfigurationIsGraded
<1>12. QED
  BY <1>1, <1>2, <1>3, <1>4, <1>5, <1>6, <1>7, <1>8, <1>9, <1>10, <1>11

\* There is a fact that is right, for every check but the configuration.
LEMMA AllMayBeWell ==
    ASSUME NEW c \in Check
    PROVE  \E f \in Facts(c) : c = "config" \/ Right(c, f)
<1>1. \/ c = "db" \/ c = "migrations" \/ c = "tls" \/ c = "dns" \/ c = "headers"
      \/ c = "audit" \/ c = "mfa" \/ c = "signins" \/ c = "disk" \/ c = "config"
  BY DEF Check
<1>2. CASE c = "db"
  <2>1. 100 \in Facts("db") /\ Right("db", 100)
    BY DEF Facts, Right
  <2>2. QED
    BY <1>2, <2>1
<1>3. CASE c = "migrations"
  <2> DEFINE f == [applied |-> Migration, failed |-> {}, shipped |-> Migration]
  <2>1. f \in Facts("migrations")
    BY DEF Facts
  <2>2. f.failed = {} /\ f.shipped # NoFiles /\ f.shipped \subseteq f.applied
    BY HealthAssumption DEF HealthAssumption
  <2>3. Right("migrations", f)
    BY <2>2 DEF Right
  <2>4. QED
    BY <1>3, <2>1, <2>3
<1>4. CASE c = "tls"
  <2> DEFINE f == [trusted |-> TRUE, coversHost |-> TRUE, daysLeft |-> 21]
  <2>1. f \in Facts("tls") /\ Right("tls", f)
    BY DEF Facts, Right
  <2>2. QED
    BY <1>4, <2>1
<1>5. CASE c = "dns"
  <2> DEFINE f == [n \in NameServer |-> {"here"}]
  <2>1. f \in Facts("dns") /\ Right("dns", f)
    BY DEF Facts, Right
  <2>2. QED
    BY <1>5, <2>1
<1>6. CASE c = "headers"
  <2> DEFINE f == [csp |-> "strict", others |-> TRUE, hsts |-> "year"]
  <2>1. f \in Facts("headers") /\ Right("headers", f)
    BY DEF Facts, Right
  <2>2. QED
    BY <1>6, <2>1
<1>7. CASE c = "audit"
  <2> DEFINE f == [there |-> TRUE, high |-> 0, moderate |-> 0, ageDays |-> 30]
  <2>1. f \in Facts("audit") /\ Right("audit", f)
    BY DEF Facts, Right
  <2>2. QED
    BY <1>7, <2>1
<1>8. CASE c = "mfa"
  <2>1. {} \in Facts("mfa") /\ Right("mfa", {})
    BY DEF Facts, Right
  <2>2. QED
    BY <1>8, <2>1
<1>9. CASE c = "signins"
  <2> DEFINE f == [mfaFailed |-> 0, failed |-> 49]
  <2>1. f \in Facts("signins") /\ Right("signins", f)
    BY DEF Facts, Right
  <2>2. QED
    BY <1>9, <2>1
<1>10. CASE c = "disk"
  <2>1. 15 \in Facts("disk") /\ Right("disk", 15)
    BY DEF Facts, Right
  <2>2. QED
    BY <1>10, <2>1
<1>11. CASE c = "config"
  <2>1. "as it runs" \in Facts("config")
    BY DEF Facts
  <2>2. QED
    BY <1>11, <2>1
<1>12. QED
  BY <1>1, <1>2, <1>3, <1>4, <1>5, <1>6, <1>7, <1>8, <1>9, <1>10, <1>11

\* A grade of this moment is among the verdicts of it.
LEMMA VerdictsOfGrades ==
    ASSUME env \in Config, NEW c \in Check, NEW f \in Facts(c)
    PROVE  /\ Grade(c, f) \in Status
           /\ Grade(c, f) = "ok" => Verdict(c, f) = "right"
           /\ Grade(c, f) = "info" => Verdict(c, f) \in {"right", "untold"}
           /\ Verdict(c, f) \in {"right", "untold", "wrong"}
           /\ Skipped(c) => Verdict(c, f) \in {"right", "untold"}
<1>1. GradedRightly(c, f)
  BY GradesAreRight
<1>2. Skipped(c) => Untold(c, f)
  BY DEF Skipped, Untold
<1>3. Verdict(c, f) = IF Right(c, f) THEN "right" ELSE IF Untold(c, f) THEN "untold" ELSE "wrong"
  BY DEF Verdict
<1>4. QED
  BY <1>1, <1>2, <1>3 DEF GradedRightly

\* The row of a page: what it is made of.
LEMMA PageRowTypes ==
    ASSUME HealthTyped, NEW c \in watched
    PROVE  /\ row[c] \in HealthPageRow /\ row[c].at \in {"none", "measuring", "version", "done", "failed"}
           /\ row[c].status \in Status /\ c \in Check /\ fact[c] \in Facts(c)
           /\ verdicts[c] \in SUBSET {"right", "untold", "wrong"}
<1>1. row[c] \in HealthPageRow
  BY DEF HealthTyped
<1>2. row[c].at \in {"none", "measuring", "version", "done", "failed"} /\ row[c].status \in Status
  BY <1>1 DEF HealthPageRow
<1>3. QED
  BY <1>1, <1>2 DEF HealthTyped

LEMMA RowIs ==
    ASSUME NEW at \in {"none", "measuring", "version", "done", "failed"}, NEW status \in Status
    PROVE  Row(at, status) \in HealthPageRow /\ Row(at, status).at = at /\ Row(at, status).status = status
BY DEF Row, HealthPageRow

LEMMA HealthStart == HealthInit => HealthInv
<1> SUFFICES ASSUME HealthInit
             PROVE  HealthInv
  OBVIOUS
<1>1. watched \subseteq Check
  BY HealthAssumption DEF HealthAssumption, HealthInit
<1>2. /\ row = [c \in watched |-> Row("none", "info")] /\ verdicts = [c \in watched |-> {}]
      /\ reach = [s \in Subject |-> "answers"] /\ env = written /\ serving = FALSE
      /\ fact = [c \in watched |-> CHOOSE f \in Facts(c) : c = "config" \/ Right(c, f)]
  BY DEF HealthInit
<1>3. "info" \in Status
  BY DEF Status
<1>4. \A c \in watched : row[c] \in HealthPageRow /\ row[c].at = "none" /\ row[c].status = "info"
  BY <1>2, <1>3, RowIs
<1>5. written \in Config
  <2>1. PICK w \in SUBSET (Required \cup Optional), b \in BOOLEAN : written = [wrong |-> w, fallbacks |-> b]
    BY DEF HealthInit
  <2>2. QED
    BY <2>1 DEF Config
<1>6. HealthTyped
  <2>1. \A c \in watched : fact[c] \in Facts(c)
    BY <1>1, <1>2, AllMayBeWell
  <2>2. row \in [watched -> HealthPageRow]
    BY <1>2, <1>4
  <2>3. reach \in [Subject -> {"answers", "refuses", "hangs"}]
    BY <1>2
  <2>4. verdicts \in [watched -> SUBSET {"right", "untold", "wrong"}]
    BY <1>2
  <2>5. fact = [c \in watched |-> fact[c]]
    BY <1>2
  <2>6. QED
    BY <1>1, <1>2, <1>5, <2>1, <2>2, <2>3, <2>4, <2>5 DEF HealthTyped
<1>7. PageIsServed
  BY <1>2, <1>4 DEF PageIsServed
<1>8. VerdictsAreKept /\ RowsAreGraded /\ TroubleIsKept /\ RowsFailAlone
  BY <1>4 DEF VerdictsAreKept, RowsAreGraded, TroubleIsKept, RowsFailAlone
<1>9. ConfigIsGraded
  BY <1>4 DEF ConfigIsGraded
<1>10. QED
  BY <1>6, <1>7, <1>8, <1>9 DEF HealthInv

\* The page is opened: every row is measured anew.
LEMMA OpenHealthKeeps ==
    ASSUME HealthInv, OpenHealth
    PROVE  HealthInv'
<1>1. HealthTyped /\ PageIsServed
  BY DEF HealthInv
<1>2. /\ serving
      /\ row' = [c \in watched |-> IF Skipped(c) THEN Row("done", "info") ELSE Waiting]
      /\ verdicts' = [c \in watched |-> {Verdict(c, fact[c])}]
      /\ troubled' = {s \in Subject : Unanswered(s, reach[s])}
      /\ UNCHANGED <<watched, fact, reach, bigFolder, written, env, serving>>
  BY DEF OpenHealth
<1>3. "info" \in Status
  BY DEF Status
<1>4. ASSUME NEW c \in watched
      PROVE  /\ row'[c] \in HealthPageRow /\ row'[c].status = "info" /\ row'[c].at \in {"done", "measuring"}
             /\ row'[c].at = "done" => Skipped(c)
  <2>1. Waiting = Row("measuring", "info")
    BY DEF Waiting
  <2>2. CASE Skipped(c)
    BY <1>2, <1>3, <2>2, RowIs
  <2>3. CASE ~Skipped(c)
    BY <1>2, <1>3, <2>1, <2>3, RowIs
  <2>4. QED
    BY <2>2, <2>3
<1>5. ASSUME NEW c \in watched
      PROVE  /\ verdicts'[c] = {Verdict(c, fact[c])}
             /\ Verdict(c, fact[c]) \in {"right", "untold", "wrong"}
             /\ Skipped(c) => Verdict(c, fact[c]) \in {"right", "untold"}
  <2>1. c \in Check /\ fact[c] \in Facts(c) /\ env \in Config
    BY <1>1, PageRowTypes DEF HealthTyped
  <2>2. QED
    BY <1>2, <2>1, VerdictsOfGrades
<1>6. HealthTyped'
  <2>1. row' \in [watched -> HealthPageRow]
    BY <1>2, <1>4
  <2>2. verdicts' \in [watched -> SUBSET {"right", "untold", "wrong"}]
    <3>1. \A c \in watched : {Verdict(c, fact[c])} \in SUBSET {"right", "untold", "wrong"}
      BY <1>5
    <3>2. QED
      BY <1>2, <3>1
  <2>3. QED
    BY <1>1, <1>2, <2>1, <2>2 DEF HealthTyped
<1>7. PageIsServed'
  BY <1>1, <1>2 DEF PageIsServed, MayServe, Blockers
<1>8. VerdictsAreKept'
  <2>1. \A c \in watched : Verdict(c, fact[c])' = Verdict(c, fact[c])
    BY <1>2 DEF Verdict, Right, Untold, HasDomain
  <2>2. QED
    BY <1>2, <1>5, <2>1 DEF VerdictsAreKept
<1>9. RowsAreGraded'
  BY <1>2, <1>4, <1>5 DEF RowsAreGraded
<1>10. TroubleIsKept'
  BY <1>2 DEF TroubleIsKept, Unanswered
<1>11. RowsFailAlone'
  BY <1>2, <1>4 DEF RowsFailAlone
<1>12. ConfigIsGraded'
  BY <1>2, <1>4 DEF ConfigIsGraded
<1>13. QED
  BY <1>6, <1>7, <1>8, <1>9, <1>10, <1>11, <1>12 DEF HealthInv

\* One row goes on, to what its verdicts allow.
LEMMA RowGoesOn ==
    ASSUME HealthInv, NEW c \in watched, NEW new,
           row[c].at # "none", new \in HealthPageRow, new.at # "none",
           row' = [row EXCEPT ![c] = new],
           UNCHANGED <<watched, fact, reach, bigFolder, verdicts, troubled, written, env, serving>>,
           new.status = "ok" => "right" \in verdicts[c],
           new.at \in {"version", "done"} /\ new.status = "info" =>
               "right" \in verdicts[c] \/ "untold" \in verdicts[c],
           new.at = "failed" => new.status = "warn" /\ (~bigFolder => SubjectOf(c) \in troubled),
           c = "config" /\ new.status = "fail" => Blockers(env) # {}
    PROVE  HealthInv'
<1>1. /\ HealthTyped /\ PageIsServed /\ VerdictsAreKept /\ RowsAreGraded
      /\ TroubleIsKept /\ RowsFailAlone /\ ConfigIsGraded
  BY DEF HealthInv
<1>2. row' \in [watched -> HealthPageRow] /\ row'[c] = new /\ \A d \in watched : d # c => row'[d] = row[d]
  BY <1>1 DEF HealthTyped
<1>3. serving
  BY <1>1 DEF PageIsServed
<1>4. HealthTyped'
  BY <1>1, <1>2 DEF HealthTyped
<1>5. PageIsServed'
  BY <1>1, <1>3 DEF PageIsServed, MayServe, Blockers
<1>6. VerdictsAreKept'
  <2>1. \A d \in watched : Verdict(d, fact[d])' = Verdict(d, fact[d])
    BY DEF Verdict, Right, Untold, HasDomain
  <2>2. QED
    BY <1>1, <1>2, <2>1 DEF VerdictsAreKept
<1>7. RowsAreGraded'
  BY <1>1, <1>2 DEF RowsAreGraded
<1>8. TroubleIsKept'
  BY <1>1, <1>2 DEF TroubleIsKept, Unanswered
<1>9. RowsFailAlone'
  BY <1>1, <1>2 DEF RowsFailAlone
<1>10. ConfigIsGraded'
  <2> SUFFICES ASSUME "config" \in watched, row'["config"].status = "fail"
               PROVE  Blockers(env) # {}
    BY DEF ConfigIsGraded, Blockers
  <2>1. QED
    BY <1>1, <1>2 DEF ConfigIsGraded
<1>11. QED
  BY <1>4, <1>5, <1>6, <1>7, <1>8, <1>9, <1>10 DEF HealthInv

LEMMA MeasureKeeps ==
    ASSUME HealthInv, NEW c \in watched, Measure(c)
    PROVE  HealthInv'
<1>1. HealthTyped /\ VerdictsAreKept
  BY DEF HealthInv
<1>2. PICK at \in {"version", "done"} : at = IF c = "db" THEN "version" ELSE "done"
  OBVIOUS
<1>3. PICK status : status = Grade(c, fact[c])
  OBVIOUS
<1>4. /\ row[c].at = "measuring" /\ row' = [row EXCEPT ![c] = Row(at, status)]
      /\ UNCHANGED <<watched, fact, reach, bigFolder, verdicts, troubled, written, env, serving>>
  BY <1>2, <1>3 DEF Measure
<1>5. c \in Check /\ fact[c] \in Facts(c) /\ env \in Config
  BY <1>1, PageRowTypes DEF HealthTyped
<1>6. /\ status \in Status
      /\ status = "ok" => Verdict(c, fact[c]) = "right"
      /\ status = "info" => Verdict(c, fact[c]) \in {"right", "untold"}
  BY <1>3, <1>5, VerdictsOfGrades
<1>7. Verdict(c, fact[c]) \in verdicts[c]
  BY <1>1, <1>4 DEF VerdictsAreKept
<1>8. c = "config" /\ status = "fail" => Blockers(env) # {}
  BY <1>3, <1>5, ConfigurationIsGraded
<1>9. Row(at, status) \in HealthPageRow /\ Row(at, status).at = at /\ Row(at, status).status = status
  BY <1>6, RowIs
<1>10. QED
  BY <1>4, <1>6, <1>7, <1>8, <1>9, RowGoesOn

LEMMA ReadVersionKeeps ==
    ASSUME HealthInv, NEW c \in watched, ReadVersion(c)
    PROVE  HealthInv'
<1>1. HealthTyped /\ RowsAreGraded /\ ConfigIsGraded
  BY DEF HealthInv
<1>2. /\ row[c].at = "version" /\ row' = [row EXCEPT ![c].at = "done"]
      /\ UNCHANGED <<watched, fact, reach, bigFolder, verdicts, troubled, written, env, serving>>
  BY DEF ReadVersion
<1> DEFINE new == [row[c] EXCEPT !.at = "done"]
<1>3. row[c] \in HealthPageRow
  BY <1>1, PageRowTypes
<1>4. new \in HealthPageRow /\ new.at = "done" /\ new.status = row[c].status
  BY <1>3 DEF HealthPageRow
<1>5. row' = [row EXCEPT ![c] = new]
  BY <1>2
<1>6. /\ new.status = "ok" => "right" \in verdicts[c]
      /\ new.status = "info" => "right" \in verdicts[c] \/ "untold" \in verdicts[c]
      /\ c = "config" /\ new.status = "fail" => Blockers(env) # {}
  BY <1>1, <1>2, <1>4 DEF RowsAreGraded, ConfigIsGraded
<1> HIDE DEF new
<1>7. QED
  BY <1>2, <1>4, <1>5, <1>6, RowGoesOn

\* What is thrown is shown, and its subject did not answer.
LEMMA ThrowKeeps ==
    ASSUME HealthInv, NEW c \in watched, Throw(c)
    PROVE  HealthInv'
<1>1. HealthTyped /\ TroubleIsKept
  BY DEF HealthInv
<1> DEFINE new == IF c = "db" THEN Row("done", "fail") ELSE CouldNotRun
<1>2. /\ row[c].at = "measuring" /\ ~Answers(c) /\ row' = [row EXCEPT ![c] = new]
      /\ UNCHANGED <<watched, fact, reach, bigFolder, verdicts, troubled, written, env, serving>>
  BY DEF Throw
<1>3. SubjectOf(c) \in Subject
  BY DEF SubjectOf, Subject
<1>4. SubjectOf(c) \in troubled
  BY <1>1, <1>2, <1>3 DEF TroubleIsKept, Answers
<1>5. "fail" \in Status /\ "warn" \in Status /\ CouldNotRun = Row("failed", "warn")
  BY DEF Status, CouldNotRun
<1>6. CASE c = "db"
  <2>1. new \in HealthPageRow /\ new.at = "done" /\ new.status = "fail"
    BY <1>5, <1>6, RowIs
  <2> HIDE DEF new
  <2>2. QED
    BY <1>2, <1>6, <2>1, RowGoesOn
<1>7. CASE c # "db"
  <2>1. new \in HealthPageRow /\ new.at = "failed" /\ new.status = "warn"
    BY <1>5, <1>7, RowIs
  <2> HIDE DEF new
  <2>2. QED
    BY <1>2, <1>4, <2>1, RowGoesOn
<1>8. QED
  BY <1>6, <1>7

LEMMA TimeOutKeeps ==
    ASSUME HealthInv, NEW c \in watched, TimeOut(c)
    PROVE  HealthInv'
<1>1. HealthTyped /\ TroubleIsKept
  BY DEF HealthInv
<1>2. /\ row[c].at \in {"measuring", "version"} /\ (reach[SubjectOf(c)] = "hangs" \/ bigFolder)
      /\ row' = [row EXCEPT ![c] = CouldNotRun]
      /\ UNCHANGED <<watched, fact, reach, bigFolder, verdicts, troubled, written, env, serving>>
  BY DEF TimeOut
<1>3. SubjectOf(c) \in Subject
  BY DEF SubjectOf, Subject
<1>4. ~bigFolder => SubjectOf(c) \in troubled
  BY <1>1, <1>2, <1>3 DEF TroubleIsKept, Unanswered
<1>5. CouldNotRun \in HealthPageRow /\ CouldNotRun.at = "failed" /\ CouldNotRun.status = "warn"
  BY RowIs DEF CouldNotRun, Status
<1>6. QED
  BY <1>2, <1>4, <1>5, RowGoesOn

\* The world moves on, and the verdicts with it.
LEMMA FactChangesKeeps ==
    ASSUME HealthInv, NEW c \in watched, FactChanges(c)
    PROVE  HealthInv'
<1>1. /\ HealthTyped /\ PageIsServed /\ VerdictsAreKept /\ RowsAreGraded
      /\ TroubleIsKept /\ RowsFailAlone /\ ConfigIsGraded
  BY DEF HealthInv
<1>2. PICK f \in Facts(c) : fact' = [fact EXCEPT ![c] = f]
  BY DEF FactChanges
<1>3. /\ verdicts' = [verdicts EXCEPT ![c] = @ \cup {Verdict(c, fact'[c])}]
      /\ UNCHANGED <<watched, reach, bigFolder, row, troubled, written, env, serving>>
  BY DEF FactChanges
<1>4. c \in Check /\ env \in Config
  BY <1>1 DEF HealthTyped
<1>5. fact'[c] = f /\ fact' = [d \in watched |-> fact'[d]] /\ \A d \in watched : d # c => fact'[d] = fact[d]
  BY <1>1, <1>2 DEF HealthTyped
<1>6. PICK v \in {"right", "untold", "wrong"} : v = Verdict(c, f)
  BY <1>4, VerdictsOfGrades
<1>7. verdicts' = [verdicts EXCEPT ![c] = verdicts[c] \cup {v}]
  BY <1>3, <1>5, <1>6
<1>8. /\ verdicts' \in [watched -> SUBSET {"right", "untold", "wrong"}]
      /\ verdicts'[c] = verdicts[c] \cup {v}
      /\ \A d \in watched : d # c => verdicts'[d] = verdicts[d]
  BY <1>1, <1>6, <1>7 DEF HealthTyped
<1>9. \A d \in watched : verdicts[d] \subseteq verdicts'[d]
  BY <1>8
<1>10. HealthTyped'
  <2>1. \A d \in watched : fact'[d] \in Facts(d)
    BY <1>1, <1>2, <1>5 DEF HealthTyped
  <2>2. \A d : Facts(d)' = Facts(d)
    BY DEF Facts
  <2>3. QED
    BY <1>1, <1>3, <1>5, <1>8, <2>1, <2>2 DEF HealthTyped
<1>11. PageIsServed'
  BY <1>1, <1>3 DEF PageIsServed, MayServe, Blockers
<1>12. VerdictsAreKept'
  <2> SUFFICES ASSUME NEW d \in watched, row[d].at # "none"
               PROVE  Verdict(d, fact[d])' \in verdicts'[d]
    BY <1>3 DEF VerdictsAreKept
  <2>1. CASE d = c
    <3>1. Verdict(d, fact[d])' = Verdict(c, f)
      BY <1>3, <1>5, <2>1 DEF Verdict, Right, Untold, HasDomain
    <3>2. QED
      BY <1>6, <1>8, <2>1, <3>1
  <2>2. CASE d # c
    <3>1. fact'[d] = fact[d]
      BY <1>5, <2>2
    <3>2. Verdict(d, fact[d])' = Verdict(d, fact[d])
      BY <1>3, <3>1 DEF Verdict, Right, Untold, HasDomain
    <3>3. Verdict(d, fact[d]) \in verdicts[d]
      BY <1>1 DEF VerdictsAreKept
    <3>4. QED
      BY <1>8, <2>2, <3>2, <3>3
  <2>3. QED
    BY <2>1, <2>2
<1>13. RowsAreGraded'
  BY <1>1, <1>3, <1>9 DEF RowsAreGraded
<1>14. TroubleIsKept' /\ RowsFailAlone' /\ ConfigIsGraded'
  BY <1>1, <1>3 DEF TroubleIsKept, Unanswered, RowsFailAlone, ConfigIsGraded, Blockers
<1>15. QED
  BY <1>10, <1>11, <1>12, <1>13, <1>14 DEF HealthInv

LEMMA ReachChangesKeeps ==
    ASSUME HealthInv, NEW s \in Subject, ReachChanges(s)
    PROVE  HealthInv'
<1>1. /\ HealthTyped /\ PageIsServed /\ VerdictsAreKept /\ RowsAreGraded
      /\ TroubleIsKept /\ RowsFailAlone /\ ConfigIsGraded
  BY DEF HealthInv
<1>2. PICK r \in {"answers", "refuses", "hangs"} :
          /\ reach' = [reach EXCEPT ![s] = r]
          /\ troubled' = IF Unanswered(s, r) THEN troubled \cup {s} ELSE troubled
  BY DEF ReachChanges
<1>3. UNCHANGED <<watched, fact, bigFolder, row, verdicts, written, env, serving>>
  BY DEF ReachChanges
<1>4. /\ reach' \in [Subject -> {"answers", "refuses", "hangs"}] /\ reach'[s] = r
      /\ \A t \in Subject : t # s => reach'[t] = reach[t]
  BY <1>1, <1>2 DEF HealthTyped
<1>5. troubled \subseteq troubled'
  BY <1>2
<1>6. HealthTyped'
  BY <1>1, <1>3, <1>4 DEF HealthTyped
<1>7. PageIsServed' /\ ConfigIsGraded'
  BY <1>1, <1>3 DEF PageIsServed, MayServe, Blockers, ConfigIsGraded
<1>8. VerdictsAreKept'
  <2>1. \A d \in watched : Verdict(d, fact[d])' = Verdict(d, fact[d])
    BY <1>3 DEF Verdict, Right, Untold, HasDomain
  <2>2. QED
    BY <1>1, <1>3, <2>1 DEF VerdictsAreKept
<1>9. RowsAreGraded' /\ RowsFailAlone'
  BY <1>1, <1>3, <1>5 DEF RowsAreGraded, RowsFailAlone
<1>10. TroubleIsKept'
  <2> SUFFICES ASSUME NEW c \in watched, row[c].at # "none", NEW t \in Subject, Unanswered(t, reach'[t])
               PROVE  t \in troubled'
    BY <1>3 DEF TroubleIsKept, Unanswered
  <2>1. CASE t = s
    BY <1>2, <1>4, <2>1
  <2>2. CASE t # s
    BY <1>1, <1>4, <1>5, <2>2 DEF TroubleIsKept
  <2>3. QED
    BY <2>1, <2>2
<1>11. QED
  BY <1>6, <1>7, <1>8, <1>9, <1>10 DEF HealthInv

\* The configuration on disk is not the one the process runs with.
LEMMA ConfigureKeeps ==
    ASSUME HealthInv, Configure
    PROVE  HealthInv'
<1>1. /\ HealthTyped /\ PageIsServed /\ VerdictsAreKept /\ RowsAreGraded
      /\ TroubleIsKept /\ RowsFailAlone /\ ConfigIsGraded
  BY DEF HealthInv
<1>2. written' \in Config /\ UNCHANGED <<watched, fact, reach, bigFolder, row, verdicts, troubled, env, serving>>
  BY DEF Configure
<1>3. Config' = Config
  BY DEF Config
<1>4. HealthTyped'
  BY <1>1, <1>2, <1>3 DEF HealthTyped
<1>5. VerdictsAreKept'
  <2>1. \A d \in watched : Verdict(d, fact[d])' = Verdict(d, fact[d])
    BY <1>2 DEF Verdict, Right, Untold, HasDomain
  <2>2. QED
    BY <1>1, <1>2, <2>1 DEF VerdictsAreKept
<1>6. PageIsServed' /\ RowsAreGraded' /\ TroubleIsKept' /\ RowsFailAlone' /\ ConfigIsGraded'
  BY <1>1, <1>2 DEF PageIsServed, MayServe, Blockers, RowsAreGraded, TroubleIsKept, Unanswered,
                    RowsFailAlone, ConfigIsGraded
<1>7. QED
  BY <1>4, <1>5, <1>6 DEF HealthInv

\* No row is there when the process starts or has stopped.
LEMMA NoPage ==
    ASSUME \A c \in watched : row[c].at = "none" /\ row[c].status = "info"
    PROVE  VerdictsAreKept /\ RowsAreGraded /\ TroubleIsKept /\ RowsFailAlone /\ ConfigIsGraded
BY DEF VerdictsAreKept, RowsAreGraded, TroubleIsKept, RowsFailAlone, ConfigIsGraded

LEMMA StartServingKeeps ==
    ASSUME HealthInv, StartServing
    PROVE  HealthInv'
<1>1. HealthTyped /\ PageIsServed
  BY DEF HealthInv
<1>2. /\ ~serving /\ env' = written /\ serving' = MayServe(written)
      /\ UNCHANGED <<watched, fact, reach, bigFolder, row, verdicts, troubled, written>>
  BY DEF StartServing
<1>3. \A c \in watched' : row'[c].at = "none" /\ row'[c].status = "info"
  BY <1>1, <1>2 DEF PageIsServed
<1>4. HealthTyped'
  BY <1>1, <1>2 DEF HealthTyped
<1>5. PageIsServed'
  BY <1>2, <1>3 DEF PageIsServed, MayServe, Blockers
<1>6. VerdictsAreKept' /\ RowsAreGraded' /\ TroubleIsKept' /\ RowsFailAlone' /\ ConfigIsGraded'
  BY <1>3 DEF VerdictsAreKept, RowsAreGraded, TroubleIsKept, RowsFailAlone, ConfigIsGraded
<1>7. QED
  BY <1>4, <1>5, <1>6 DEF HealthInv

LEMMA StopServingKeeps ==
    ASSUME HealthInv, StopServing
    PROVE  HealthInv'
<1>1. HealthTyped /\ PageIsServed
  BY DEF HealthInv
<1>2. /\ serving' = FALSE
      /\ row' = [c \in watched |-> Row("none", "info")] /\ verdicts' = [c \in watched |-> {}]
      /\ UNCHANGED <<watched, fact, reach, bigFolder, written, env>>
  BY DEF StopServing
<1>3. \A c \in watched : row'[c] \in HealthPageRow /\ row'[c].at = "none" /\ row'[c].status = "info"
  BY <1>2, RowIs DEF Status
<1>4. HealthTyped'
  <2>1. row' \in [watched -> HealthPageRow]
    BY <1>2, <1>3
  <2>2. verdicts' \in [watched -> SUBSET {"right", "untold", "wrong"}]
    BY <1>2
  <2>3. QED
    BY <1>1, <1>2, <2>1, <2>2 DEF HealthTyped
<1>5. PageIsServed'
  BY <1>2, <1>3 DEF PageIsServed
<1>6. VerdictsAreKept' /\ RowsAreGraded' /\ TroubleIsKept' /\ RowsFailAlone' /\ ConfigIsGraded'
  BY <1>2, <1>3 DEF VerdictsAreKept, RowsAreGraded, TroubleIsKept, RowsFailAlone, ConfigIsGraded
<1>7. QED
  BY <1>4, <1>5, <1>6 DEF HealthInv

LEMMA HealthStays ==
    ASSUME HealthInv, UNCHANGED healthVars
    PROVE  HealthInv'
<1>1. /\ HealthTyped /\ PageIsServed /\ VerdictsAreKept /\ RowsAreGraded
      /\ TroubleIsKept /\ RowsFailAlone /\ ConfigIsGraded
  BY DEF HealthInv
<1>2. UNCHANGED <<watched, fact, reach, bigFolder, row, verdicts, troubled, written, env, serving>>
  BY DEF healthVars
<1>3. HealthTyped'
  BY <1>1, <1>2 DEF HealthTyped
<1>4. VerdictsAreKept'
  <2>1. \A d \in watched : Verdict(d, fact[d])' = Verdict(d, fact[d])
    BY <1>2 DEF Verdict, Right, Untold, HasDomain
  <2>2. QED
    BY <1>1, <1>2, <2>1 DEF VerdictsAreKept
<1>5. PageIsServed' /\ RowsAreGraded' /\ TroubleIsKept' /\ RowsFailAlone' /\ ConfigIsGraded'
  BY <1>1, <1>2 DEF PageIsServed, MayServe, Blockers, RowsAreGraded, TroubleIsKept, Unanswered,
                    RowsFailAlone, ConfigIsGraded
<1>6. QED
  BY <1>3, <1>4, <1>5 DEF HealthInv

LEMMA HealthStep ==
    ASSUME HealthInv, [HealthNext]_healthVars
    PROVE  HealthInv'
BY OpenHealthKeeps, ConfigureKeeps, StartServingKeeps, StopServingKeeps, MeasureKeeps, ReadVersionKeeps,
   ThrowKeeps, TimeOutKeeps, FactChangesKeeps, ReachChangesKeeps, HealthStays DEF HealthNext

\* The worst status is one of them, or "ok" when none raises an alarm, and
\* none is worse.
LEMMA WorstIsWorst ==
    ASSUME NEW S \in SUBSET Status
    PROVE  /\ \A s \in S : Rank[s] <= Rank[Worst(S)]
           /\ Worst(S) = "ok" => S \subseteq {"ok", "info"}
<1>1. Rank["fail"] = 2 /\ Rank["warn"] = 1 /\ Rank["ok"] = 0 /\ Rank["info"] = 0
  BY DEF Rank, Status
<1>2. \A s \in S : s = "fail" \/ s = "warn" \/ s = "ok" \/ s = "info"
  BY DEF Status
<1>3. CASE \A s \in S : Rank[s] = 0
  <2>1. Worst(S) = "ok"
    BY <1>3 DEF Worst
  <2>2. \A s \in S : Rank[s] <= 0
    BY <1>3
  <2>3. S \subseteq {"ok", "info"}
    BY <1>1, <1>2, <1>3
  <2>4. QED
    BY <1>1, <2>1, <2>2, <2>3
<1>4. CASE ~(\A s \in S : Rank[s] = 0)
  <2>1. "fail" \in S \/ "warn" \in S
    BY <1>1, <1>2, <1>4
  <2>2. \E s \in S : \A t \in S : Rank[t] <= Rank[s]
    <3>1. CASE "fail" \in S
      <4>1. \A t \in S : Rank[t] <= Rank["fail"]
        BY <1>1, <1>2
      <4>2. QED
        BY <3>1, <4>1
    <3>2. CASE "fail" \notin S
      <4>1. \A t \in S : Rank[t] <= Rank["warn"]
        BY <1>1, <1>2, <3>2
      <4>2. QED
        BY <2>1, <3>2, <4>1
    <3>3. QED
      BY <3>1, <3>2
  <2>3. Worst(S) \in S /\ \A t \in S : Rank[t] <= Rank[Worst(S)]
    BY <1>4, <2>2 DEF Worst
  <2>4. Worst(S) # "ok"
    BY <1>1, <2>1, <2>3
  <2>5. QED
    BY <2>3, <2>4
<1>5. QED
  BY <1>3, <1>4

LEMMA HealthHolds == HealthInv => HealthIsTold
<1> SUFFICES ASSUME HealthInv
             PROVE  HealthIsTold
  OBVIOUS
<1>1. HealthTyped /\ PageIsServed /\ RowsAreGraded /\ RowsFailAlone /\ ConfigIsGraded
  BY DEF HealthInv
<1> DEFINE all == {row[c].status : c \in watched}
<1>2. all \in SUBSET Status /\ Overall = Worst(all)
  BY <1>1, PageRowTypes DEF Overall
<1>3. TroubleShows
  <2>1. ASSUME NEW c \in watched, row[c].status = "ok" PROVE "right" \in verdicts[c]
    BY <1>1, <2>1 DEF RowsAreGraded
  <2>2. ASSUME Reported, Overall = "ok", NEW c \in watched PROVE verdicts[c] # {"wrong"}
    <3>1. all \subseteq {"ok", "info"}
      BY <1>2, <2>2, WorstIsWorst
    <3>2. row[c].status = "ok" \/ row[c].status = "info"
      BY <3>1
    <3>3. row[c].at \in {"done", "failed"}
      BY <2>2 DEF Reported
    <3>4. "right" \in verdicts[c] \/ "untold" \in verdicts[c]
      BY <1>1, <3>2, <3>3 DEF RowsAreGraded
    <3>5. QED
      BY <3>4
  <2>3. \A c \in watched : Rank[row[c].status] <= Rank[Overall]
    BY <1>2, WorstIsWorst
  <2>4. QED
    BY <2>1, <2>2, <2>3 DEF TroubleShows
<1>4. ServesConfigured
  <2> SUFFICES ASSUME serving, ~env.fallbacks
               PROVE  Blockers(env) = {} /\ ("config" \in watched => row["config"].status # "fail")
    BY DEF ServesConfigured
  <2>1. Blockers(env) = {}
    BY <1>1 DEF PageIsServed, MayServe
  <2>2. QED
    BY <1>1, <2>1 DEF ConfigIsGraded
<1>5. QED
  BY <1>1, <1>3, <1>4 DEF HealthIsTold

\* The page tells what is wrong, whatever is watched and configured
\* (lib/health/checks.ts, lib/health/grade.ts, instrumentation.ts).
THEOREM PagesAreTold == HealthSpec => []HealthIsTold
<1>1. HealthInit => HealthInv
  BY HealthStart
<1>2. HealthInv /\ [HealthNext]_healthVars => HealthInv'
  BY HealthStep
<1>3. HealthInv => HealthIsTold
  BY HealthHolds
<1>4. QED
  BY <1>1, <1>2, <1>3, PTL DEF HealthSpec

\* What the types of the rows leave out.
RowsAreWatched == watched \in Watches /\ serving \in BOOLEAN /\ bigFolder \in BOOLEAN /\ troubled \subseteq Subject

LEMMA WatchGoesOn == RowsAreWatched /\ [HealthNext]_healthVars => RowsAreWatched'
<1> SUFFICES ASSUME RowsAreWatched, [HealthNext]_healthVars
             PROVE  RowsAreWatched'
  OBVIOUS
<1> USE DEF RowsAreWatched
<1>1. CASE UNCHANGED healthVars
  BY <1>1 DEF healthVars
<1>2. CASE OpenHealth
  BY <1>2 DEF OpenHealth
<1>3. CASE Configure
  BY <1>3 DEF Configure
<1>4. CASE StartServing
  <2>1. MayServe(written) \in BOOLEAN
    BY DEF MayServe
  <2>2. QED
    BY <1>4, <2>1 DEF StartServing
<1>5. CASE StopServing
  BY <1>5 DEF StopServing
<1>6. ASSUME NEW c \in watched, Measure(c) \/ ReadVersion(c) \/ Throw(c) \/ TimeOut(c) \/ FactChanges(c)
      PROVE  RowsAreWatched'
  BY <1>6 DEF Measure, ReadVersion, Throw, TimeOut, FactChanges
<1>7. ASSUME NEW s \in Subject, ReachChanges(s)
      PROVE  RowsAreWatched'
  BY <1>7 DEF ReachChanges
<1>8. QED
  BY <1>1, <1>2, <1>3, <1>4, <1>5, <1>6, <1>7 DEF HealthNext

LEMMA HealthTypesStay == HealthSpec => []HealthTypeOK
<1>1. HealthInit => RowsAreWatched
  BY DEF HealthInit, RowsAreWatched
<1>2. RowsAreWatched /\ HealthInv => HealthTypeOK
  BY DEF RowsAreWatched, HealthInv, HealthTyped, HealthTypeOK, HealthPageRow
<1>3. QED
  BY <1>1, <1>2, HealthStart, HealthStep, WatchGoesOn, PTL DEF HealthSpec

---------------------------------------------------------------------------
(* The whole                                                             *)

\* A behaviour that exercises one part is a behaviour of that part, and the
\* others stand still.
LEMMA SitePartsBehave ==
    SiteSpec => /\ DiscussionSpec /\ ThreadSpec /\ ComposerSpec /\ PushSpec /\ EngagementSpec
                /\ ReadingSpec /\ LimitsSpec /\ MailSpec /\ DeploySpec /\ MigrationsSpec
                /\ BundleSpec /\ HealthSpec
<1>1. SiteInit => /\ DiscussionInit /\ ThreadInit /\ ComposerInit /\ PushInit /\ EngagementInit
                  /\ ReadingInit /\ LimitsInit /\ MailInit /\ DeployInit /\ MigrationsInit
                  /\ BundleInit /\ HealthInit
  BY DEF SiteInit
<1>2. [SiteNext]_siteVars => [DiscussionNext]_commentVars
  BY DEF SiteNext, siteVars, Alone
<1>3. [SiteNext]_siteVars => [ThreadNext]_threadVars
  BY DEF SiteNext, siteVars, Alone
<1>4. [SiteNext]_siteVars => [ComposerNext]_composerVars
  BY DEF SiteNext, siteVars, Alone
<1>5. [SiteNext]_siteVars => [PushNext]_pushVars
  BY DEF SiteNext, siteVars, Alone
<1>6. [SiteNext]_siteVars => [EngagementNext]_engagementVars
  BY DEF SiteNext, siteVars, Alone
<1>7. [SiteNext]_siteVars => [ReadingNext]_readingVars
  BY DEF SiteNext, siteVars, Alone
<1>8. [SiteNext]_siteVars => [LimitsNext]_limitVars
  BY DEF SiteNext, siteVars, Alone
<1>9. [SiteNext]_siteVars => [MailNext]_mailVars
  BY DEF SiteNext, siteVars, Alone
<1>10. [SiteNext]_siteVars => [DeployNext]_deployVars
  BY DEF SiteNext, siteVars, Alone
<1>11. [SiteNext]_siteVars => [MigrationsNext]_migrationVars
  BY DEF SiteNext, siteVars, Alone
<1>12. [SiteNext]_siteVars => [BundleNext]_bundleVars
  BY DEF SiteNext, siteVars, Alone
<1>13. [SiteNext]_siteVars => [HealthNext]_healthVars
  BY DEF SiteNext, siteVars, Alone
<1>14. QED
  BY <1>1, <1>2, <1>3, <1>4, <1>5, <1>6, <1>7, <1>8, <1>9, <1>10, <1>11, <1>12, <1>13, PTL
     DEF SiteSpec, DiscussionSpec, ThreadSpec, ComposerSpec, PushSpec, EngagementSpec,
         ReadingSpec, LimitsSpec, MailSpec, DeploySpec, MigrationsSpec,
         BundleSpec, HealthSpec

\* Whatever a behaviour exercises, every part keeps its types: SiteTypeOK, for
\* every value of the constants.
THEOREM SiteTypeInvariance == SiteSpec => []SiteTypeOK
<1>1. SiteInit => concern \in SiteConcerns
  BY DEF SiteInit
<1>2. concern \in SiteConcerns /\ [SiteNext]_siteVars => (concern \in SiteConcerns)'
  BY DEF SiteNext, siteVars, Alone
<1>3. concern \in SiteConcerns /\ DiscussionTypeOK /\ ThreadTypeOK /\ ComposerTypeOK /\ PushTypeOK
        /\ EngagementTypeOK /\ ReadingTypeOK /\ LimitsTypeOK /\ MailTypeOK
        /\ MigrationsTypeOK /\ DeployTypeOK /\ BundleTypeOK /\ HealthTypeOK
      => SiteTypeOK
  BY DEF SiteTypeOK
<1>4. QED
  BY <1>1, <1>2, <1>3, SitePartsBehave, DiscussionTypesStay, ThreadTypesStay, ComposerTypesStay, PushTypesStay,
     EngagementTypesStay, ReadingTypesStay, LimitsTypesStay, MailTypesStay, MigrationsTypesStay, DeployTypesStay,
     BundleTypesStay, HealthTypesStay, PTL DEF SiteSpec

\* A comment is public as its author and the moderators decided, by the
\* settings in force, and what is typed into the page is posted once:
\* CommentsStandAsDecided, for every number of readers, comments, requests and
\* pieces of text.
THEOREM SiteComments == SiteSpec => []CommentsStandAsDecided
<1>1. TakenDownStaysDown /\ PublicTextWasVetted /\ SettingsAreCurrent /\ ComposerHolds => CommentsStandAsDecided
  BY DEF CommentsStandAsDecided
<1>2. QED
  BY <1>1, SitePartsBehave, CommentsStand, WordsArriveOnce, PTL

\* A browser at rest that shows its reader as subscribed is reached, and what
\* readers press and read is counted once, and no more of it than they did:
\* ReadersAreServed, for every number of tabs, endpoints, stories, pages and
\* presses.
THEOREM SiteServesItsReaders == SiteSpec => []ReadersAreServed
<1>1. SubscribedIsReached /\ CountedOnce /\ ReadingIsCounted => ReadersAreServed
  BY DEF ReadersAreServed
<1>2. QED
  BY <1>1, SitePartsBehave, SubscribersAreReached, ReadersCountOnce, ReadingIsTrue, PTL

\* The limiter's windows and the mail server each worker remembers are no
\* older than they may be: MemoryIsTrue, for every limit, window, number of
\* workers and life of the cache.
THEOREM SiteMemoryIsTrue == SiteSpec => []MemoryIsTrue
<1>1. LimitsHold /\ SavedMailIsUsed => MemoryIsTrue
  BY DEF MemoryIsTrue
<1>2. QED
  BY <1>1, SitePartsBehave, TheLimitIsTheLimit, MailIsCurrent, PTL

\* A release is bundled whole, migrated once and in order, serves whole, and
\* its page tells what is wrong: ReleasesLand, for every number of versions,
\* migrations, statements, runs and commands, and every configuration.
THEOREM SiteReleasesLand == SiteSpec => []ReleasesLand
<1>1. BundlesLand /\ MigrationsLand /\ DeploysLand /\ HealthIsTold => ReleasesLand
  BY DEF ReleasesLand
<1>2. QED
  BY <1>1, SitePartsBehave, BundlesAreWhole, MigrationsAreWhole, DeploysAreWhole, PagesAreTold, PTL
=============================================================================
