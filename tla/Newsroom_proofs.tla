--------------------------- MODULE Newsroom_proofs ---------------------------
(***************************************************************************)
(* Proofs about the desk and what people hand in.  A behaviour of          *)
(* NewsroomSpec exercises one part at most, so each part keeps its own     *)
(* specification; for each of the ten an inductive invariant is proved,    *)
(* section by section, and the three invariants the runs check follow for  *)
(* every number of stories, files, desks, rows, readers and texts:         *)
(*                                                                         *)
(*   - articles: a story nobody raced for is in one hand at most, and what *)
(*     that hand has read and checked still holds;                         *)
(*   - sources: positions run from one without a gap while one request at  *)
(*     a time is served, and no hop leads inside the host's network;       *)
(*   - editor: what is on its way is on the screen, what has arrived is in *)
(*     its row, and one save at a time creates the article;                *)
(*   - uploads: a file is stored when it is checked, gets its row when it  *)
(*     is stored, and an answered upload has left quarantine;              *)
(*   - surfaces: while a section without stories is deleted, none is given *)
(*     to it unless its save was written meanwhile;                        *)
(*   - translations: whatever is two links away is found from either side; *)
(*   - credits: the line under a figure is behind its row only while the   *)
(*     answer to a save is on its way;                                     *)
(*   - forms: a page waits for one call at most, with its button disabled; *)
(*   - filing: a press files the photos the page showed, and its reference *)
(*     is heard, about to be, or lost;                                     *)
(*   - casework: a row of the queue is behind its report only while the    *)
(*     answer to a move is on its way, or for what others did.             *)
(***************************************************************************)
EXTENDS Newsroom, FiniteSetTheorems, WellFoundedInduction, TLAPS

---------------------------------------------------------------------------
(* Numbers                                                               *)

LEMMA Least ==
    ASSUME NEW T, T \subseteq Nat, T # {}
    PROVE  \E x \in T : \A y \in T : x <= y
<1>1. \E x \in T : \A y \in T : <<y, x>> \notin OpToRel(<, Nat)
  BY NatLessThanWellFounded, WFMin
<1>2. PICK x \in T : \A y \in T : <<y, x>> \notin OpToRel(<, Nat)
  BY <1>1
<1>3. ASSUME NEW y \in T PROVE x <= y
  <2>1. <<y, x>> \notin OpToRel(<, Nat)
    BY <1>2
  <2>2. x \in Nat /\ y \in Nat
    OBVIOUS
  <2>3. ~(y < x)
    BY <2>1, <2>2 DEF OpToRel
  <2>4. QED
    BY <2>2, <2>3
<1>4. QED
  BY <1>3

LEMMA Greatest ==
    ASSUME NEW T, T \subseteq Nat, T # {}, NEW n \in Nat, \A y \in T : y <= n
    PROVE  \E x \in T : \A y \in T : y <= x
<1> DEFINE U == {m \in Nat : \A y \in T : y <= m}
<1>1. n \in U /\ U \subseteq Nat
  OBVIOUS
<1>2. PICK m \in U : \A u \in U : m <= u
  BY <1>1, Least
<1>3. CASE m \in T
  BY <1>2, <1>3
<1>4. CASE m \notin T
  <2>1. \A y \in T : y < m /\ y \in Nat
    BY <1>2, <1>4
  <2>5. PICK y \in T : TRUE
    OBVIOUS
  <2>6. m \in Nat /\ y \in Nat /\ y < m
    BY <1>2, <2>1
  <2>2. m > 0
    BY <2>6
  <2>3. m - 1 \in U
    BY <2>1, <2>2, <2>6
  <2>4. QED
    BY <1>2, <2>2, <2>3, <2>6
<1>5. QED
  BY <1>3, <1>4

---------------------------------------------------------------------------
(* Articles: a story, its desk and its scheduler                         *)

SavePc == {"save: rights", "save: write", "save: link"}
PublishPc == {"publish: rights", "publish: link", "publish: write", "publish: alert"}

\* A request at the desk, by what it carries along.
DeskRow(r) ==
    /\ r.pc \in SavePc \cup PublishPc \cup {"unpublish", "archive"} /\ r.id \in Story
    /\ r = [pc |-> r.pc, id |-> r.id, seen |-> r.seen]
    /\ r.pc \in SavePc => r.seen.status \in Status /\ r.seen.input \in ArticleInputs
    /\ r.pc \in PublishPc => r.seen \subseteq MediaFile

DueRow == [id : Story, body : SUBSET MediaFile, isBreaking : BOOLEAN]

ArticlesTyped ==
    /\ story \in [Story -> StoryRow] /\ attached \in [Story -> SUBSET MediaFile]
    /\ licensed \subseteq MediaFile /\ alerted \subseteq Story /\ quiet \in BOOLEAN
    /\ withdrawn \subseteq Story /\ news \subseteq Story
    /\ desk = [d \in Desk |-> desk[d]] /\ \A d \in Desk : desk[d] = NoRequest \/ DeskRow(desk[d])
    /\ pass.pc \in {"idle", "next", "write", "alert"} /\ pass.left \subseteq DueRow
    /\ pass.pc = "idle" => pass.left = {}
    /\ pass.pc \in {"write", "alert"} => pass.now \in pass.left

Holds(d, s) == desk[d] # NoRequest /\ desk[d].id = s
Now(pc, x) == pass.pc = pc /\ pass.now = x

\* One hand at most has the story.
InOneHand(s) ==
    /\ \A d \in Desk, e \in Desk : Holds(d, s) /\ Holds(e, s) => d = e
    /\ \A d \in Desk : Holds(d, s) => \A x \in pass.left : x.id # s
    /\ \A x \in pass.left, y \in pass.left : x.id = s /\ y.id = s => x = y

\* What a request read is still so, and what it has checked still holds.
HandIsRight(s, r) ==
    /\ r.pc \in {"save: rights", "save: write"} => r.seen.status = story[s].status
    /\ r.pc = "save: write" /\ story[s].status = "PUBLISHED" =>
           r.seen.input.body \subseteq licensed
    /\ r.pc = "save: link" => r.seen.input.body = story[s].body
    /\ r.pc \in {"publish: rights", "publish: link", "publish: write"} => r.seen = story[s].body
    /\ r.pc \in {"publish: link", "publish: write"} => r.seen \subseteq licensed
    /\ r.pc = "publish: write" => attached[s] = r.seen
    /\ r.pc = "publish: alert" => story[s].status = "PUBLISHED"

\* So with what the scheduler has on its list.
DueIsRight(s, x) ==
    /\ Now("alert", x) => story[s].status = "PUBLISHED"
    /\ ~Now("alert", x) => story[s].status = "SCHEDULED"
    /\ x.body = story[s].body /\ x.isBreaking = story[s].isBreaking
    /\ Now("write", x) => x.body \subseteq licensed

ToAlert(s) ==
    \/ \E d \in Desk : Holds(d, s) /\ desk[d].pc = "publish: alert"
    \/ \E x \in pass.left : x.id = s /\ Now("alert", x)

\* Nobody but d has the story.
OnlyAtDesk(d, s) ==
    /\ \A e \in Desk : e # d => ~Holds(e, s)
    /\ \A x \in pass.left : x.id # s

StoryIsRight(s) ==
    /\ InOneHand(s)
    /\ \A d \in Desk : Holds(d, s) => HandIsRight(s, desk[d])
    /\ \A x \in pass.left : x.id = s => DueIsRight(s, x)
    /\ attached[s] = story[s].body \/ \E d \in Desk : Holds(d, s) /\ desk[d].pc = "save: link"
    /\ story[s].status = "PUBLISHED" => story[s].body \subseteq licensed /\ s \notin withdrawn
    /\ story[s].status = "SCHEDULED" => s \notin withdrawn
    /\ s \in news => s \in alerted \/ (ToAlert(s) /\ story[s].isBreaking)

\* What holds of every story that no two requests raced for.
ArticlesInv == ArticlesTyped /\ \A s \in Story \ raced : StoryIsRight(s)

LEMMA HandStays ==
    ASSUME ArticlesTyped, NEW d \in Desk, NEW r, r = NoRequest \/ DeskRow(r),
           desk' = [desk EXCEPT ![d] = r]
    PROVE  /\ desk' = [e \in Desk |-> desk'[e]]
           /\ \A e \in Desk : desk'[e] = NoRequest \/ DeskRow(desk'[e])
           /\ desk'[d] = r /\ \A e \in Desk : e # d => desk'[e] = desk[e]
<1>1. desk'[d] = r /\ (\A e \in Desk : e # d => desk'[e] = desk[e]) /\ desk' = [e \in Desk |-> desk'[e]]
  BY DEF ArticlesTyped
<1>2. QED
  BY <1>1 DEF ArticlesTyped

LEMMA RequestIsNone ==
    ASSUME NEW r, DeskRow(r)
    PROVE  r # NoRequest
<1> SUFFICES ASSUME r = NoRequest PROVE FALSE
  OBVIOUS
<1>1. r.pc = "idle"
  BY DEF NoRequest
<1>2. QED
  BY <1>1 DEF DeskRow, SavePc, PublishPc

LEMMA PcMoves ==
    ASSUME NEW r, DeskRow(r), NEW new, new = [pc |-> new.pc, id |-> r.id, seen |-> r.seen],
           (new.pc \in SavePc /\ r.pc \in SavePc) \/ (new.pc \in PublishPc /\ r.pc \in PublishPc)
    PROVE  DeskRow(new) /\ new.id = r.id /\ new.seen = r.seen
<1>1. new.id = r.id /\ new.seen = r.seen /\ new = [pc |-> new.pc, id |-> new.id, seen |-> new.seen]
  OBVIOUS
<1>2. \A x \in SavePc : x \notin PublishPc
  BY DEF SavePc, PublishPc
<1>3. QED
  BY <1>1, <1>2 DEF DeskRow

\* A step that does not touch a story leaves it right.
LEMMA OthersStay ==
    ASSUME NEW s, StoryIsRight(s),
           story'[s].status = story[s].status, story'[s].body = story[s].body,
           story'[s].isBreaking = story[s].isBreaking, attached'[s] = attached[s], licensed \subseteq licensed',
           s \in alerted => s \in alerted', s \in withdrawn' => s \in withdrawn, s \in news' => s \in news,
           \A d \in Desk : Holds(d, s)' <=> Holds(d, s),
           \A d \in Desk : Holds(d, s) => desk'[d] = desk[d],
           \A x : x \in pass'.left /\ x.id = s <=> x \in pass.left /\ x.id = s,
           \A x : x \in pass.left /\ x.id = s =>
               (Now("write", x)' <=> Now("write", x)) /\ (Now("alert", x)' <=> Now("alert", x))
    PROVE  StoryIsRight(s)'
<1>1. InOneHand(s)'
  BY DEF StoryIsRight, InOneHand
<1>2. ASSUME NEW d \in Desk, Holds(d, s)' PROVE HandIsRight(s, desk[d])' 
  <2>1. Holds(d, s) /\ desk'[d] = desk[d]
    BY <1>2
  <2>2. HandIsRight(s, desk[d])
    BY <2>1 DEF StoryIsRight
  <2>3. QED
    BY <2>1, <2>2 DEF HandIsRight
<1>3. ASSUME NEW x \in pass'.left, x.id = s PROVE DueIsRight(s, x)'
  <2>1. x \in pass.left
    BY <1>3
  <2>2. DueIsRight(s, x) /\ (Now("alert", x)' <=> Now("alert", x)) /\ (Now("write", x)' <=> Now("write", x))
    BY <1>3, <2>1 DEF StoryIsRight
  <2>3. QED
    BY <2>2 DEF DueIsRight
<1>4. attached'[s] = story'[s].body \/ \E d \in Desk : Holds(d, s)' /\ desk'[d].pc = "save: link"
  BY DEF StoryIsRight
<1>5. /\ story'[s].status = "PUBLISHED" => story'[s].body \subseteq licensed' /\ s \notin withdrawn'
      /\ story'[s].status = "SCHEDULED" => s \notin withdrawn'
  BY DEF StoryIsRight
<1>6. ToAlert(s) => ToAlert(s)'
  <2>1. CASE \E d \in Desk : Holds(d, s) /\ desk[d].pc = "publish: alert"
    BY <2>1 DEF ToAlert
  <2>2. CASE \E x \in pass.left : x.id = s /\ Now("alert", x)
    BY <2>2 DEF ToAlert
  <2>3. QED
    BY <2>1, <2>2 DEF ToAlert
<1>7. s \in news' => s \in alerted' \/ (ToAlert(s)' /\ story'[s].isBreaking)
  BY <1>6 DEF StoryIsRight
<1>8. QED
  BY <1>1, <1>2, <1>3, <1>4, <1>5, <1>7 DEF StoryIsRight

\* A request that is alone with its story goes on, or lets go of it.
LEMMA HandSettles ==
    ASSUME ArticlesTyped, NEW d \in Desk, NEW s, NEW r,
           r = NoRequest \/ (DeskRow(r) /\ r.id = s /\ HandIsRight(s, r)'),
           OnlyAtDesk(d, s),
           desk' = [desk EXCEPT ![d] = r], pass' = pass,
           attached'[s] = story'[s].body \/ (r # NoRequest /\ r.pc = "save: link"),
           story'[s].status = "PUBLISHED" => story'[s].body \subseteq licensed' /\ s \notin withdrawn',
           story'[s].status = "SCHEDULED" => s \notin withdrawn',
           s \in news' => s \in alerted' \/ (r # NoRequest /\ r.pc = "publish: alert" /\ story'[s].isBreaking)
    PROVE  StoryIsRight(s)'
<1>1. desk'[d] = r /\ \A e \in Desk : e # d => desk'[e] = desk[e]
  BY HandStays
<1>2. /\ \A e \in Desk : e # d => ~Holds(e, s)'
      /\ Holds(d, s)' <=> r # NoRequest
  BY <1>1, RequestIsNone DEF OnlyAtDesk, Holds
<1>3. \A x \in pass'.left : x.id # s
  BY DEF OnlyAtDesk
<1>4. InOneHand(s)'
  BY <1>2, <1>3 DEF InOneHand
<1>5. ASSUME NEW e \in Desk, Holds(e, s)' PROVE HandIsRight(s, desk[e])'
  BY <1>1, <1>2, <1>5 DEF HandIsRight
<1>6. r # NoRequest /\ r.pc = "publish: alert" => ToAlert(s)'
  BY <1>1, <1>2 DEF ToAlert
<1>7. attached'[s] = story'[s].body \/ \E e \in Desk : Holds(e, s)' /\ desk'[e].pc = "save: link"
  BY <1>1, <1>2
<1>8. s \in news' => s \in alerted' \/ (ToAlert(s)' /\ story'[s].isBreaking)
  BY <1>6
<1>9. QED
  BY <1>3, <1>4, <1>5, <1>7, <1>8 DEF StoryIsRight

LEMMA HandTypes ==
    ASSUME ArticlesTyped, NEW d \in Desk, desk[d] # NoRequest
    PROVE  DeskRow(desk[d])
BY DEF ArticlesTyped

\* A story that is in one hand at most and is held by d is only at d.
LEMMA HandIsAlone ==
    ASSUME NEW d \in Desk, NEW s, StoryIsRight(s), Holds(d, s)
    PROVE  OnlyAtDesk(d, s) /\ HandIsRight(s, desk[d])
BY DEF StoryIsRight, InOneHand, OnlyAtDesk

\* A story that no hand has is only at the desk that takes it.
LEMMA HandIsFree ==
    ASSUME ArticlesTyped, NEW d \in Desk, NEW s, s \notin InHand, s \in Story
    PROVE  OnlyAtDesk(d, s)
<1>1. ~InPass(s) /\ ~AtDesk(s)
  BY DEF InHand
<1>2. ASSUME NEW x \in pass.left, x.id = s PROVE FALSE
  BY <1>1, <1>2 DEF InPass, ArticlesTyped
<1>3. QED
  BY <1>1, <1>2 DEF AtDesk, OnlyAtDesk, Holds

\* Stories that a request at the desk is not about stay as they are.
LEMMA OthersAtDesk ==
    ASSUME ArticlesTyped, NEW d \in Desk, NEW r, r = NoRequest \/ DeskRow(r), NEW s,
           StoryIsRight(s), desk[d] = NoRequest \/ desk[d].id # s, r = NoRequest \/ r.id # s,
           desk' = [desk EXCEPT ![d] = r], pass' = pass,
           story'[s] = story[s], attached'[s] = attached[s], licensed \subseteq licensed',
           s \in alerted => s \in alerted', s \in withdrawn' => s \in withdrawn, s \in news' => s \in news
    PROVE  StoryIsRight(s)'
<1>1. desk'[d] = r /\ \A e \in Desk : e # d => desk'[e] = desk[e]
  BY HandStays
<1>2. \A e \in Desk : Holds(e, s)' <=> Holds(e, s)
  BY <1>1 DEF Holds
<1>3. \A e \in Desk : Holds(e, s) => desk'[e] = desk[e]
  BY <1>1 DEF Holds
<1>4. \A x : x \in pass'.left /\ x.id = s <=> x \in pass.left /\ x.id = s
  OBVIOUS
<1>5. \A x : (Now("write", x)' <=> Now("write", x)) /\ (Now("alert", x)' <=> Now("alert", x))
  BY DEF Now
<1>6. QED
  BY <1>2, <1>3, <1>4, <1>5, OthersStay

LEMMA AskKeeps ==
    ASSUME ArticlesInv, NEW d \in Desk, NEW s \in Story, NEW pc, NEW seen, Ask(d, s, pc, seen),
           DeskRow([pc |-> pc, id |-> s, seen |-> seen]),
           s \notin raced /\ s \notin InHand => HandIsRight(s, [pc |-> pc, id |-> s, seen |-> seen]),
           pc # "save: link"
    PROVE  ArticlesInv'
<1>1. ArticlesTyped /\ \A x \in Story \ raced : StoryIsRight(x)
  BY DEF ArticlesInv
<1>2. PICK r : r = [pc |-> pc, id |-> s, seen |-> seen]
  OBVIOUS
<1>3. /\ desk[d] = NoRequest /\ desk' = [desk EXCEPT ![d] = r]
      /\ raced' = raced \cup ({s} \cap InHand)
      /\ UNCHANGED <<story, attached, licensed, alerted, pass, quiet, withdrawn, news>>
  BY <1>2 DEF Ask
<1>4. DeskRow(r) /\ r.id = s /\ r.pc # "save: link"
  BY <1>2
<1>5. ArticlesTyped'
  BY <1>1, <1>3, <1>4, HandStays DEF ArticlesTyped
<1>6. ASSUME NEW x \in Story \ raced' PROVE StoryIsRight(x)'
  <2>1. StoryIsRight(x)
    BY <1>1, <1>3
  <2>2. CASE x # s
    BY <1>1, <1>3, <1>4, <2>1, <2>2, OthersAtDesk
  <2>3. CASE x = s
    <3>1. s \notin raced /\ s \notin InHand
      BY <1>3, <2>3
    <3>2. OnlyAtDesk(d, s)
      BY <1>1, <3>1, HandIsFree
    <3>3. HandIsRight(s, r)'
      BY <1>2, <1>3, <3>1 DEF HandIsRight
    <3>4. attached[s] = story[s].body
      <4>1. \A e \in Desk : ~Holds(e, s)
        BY <1>3, <3>2 DEF OnlyAtDesk, Holds
      <4>2. QED
        BY <2>1, <2>3, <4>1 DEF StoryIsRight
    <3>5. s \in news => s \in alerted
      <4>1. ~ToAlert(s)
        BY <1>3, <3>2 DEF OnlyAtDesk, Holds, ToAlert
      <4>2. QED
        BY <2>1, <2>3, <4>1 DEF StoryIsRight
    <3>6. /\ story[s].status = "PUBLISHED" => story[s].body \subseteq licensed /\ s \notin withdrawn
          /\ story[s].status = "SCHEDULED" => s \notin withdrawn
      BY <2>1, <2>3 DEF StoryIsRight
    <3>7. QED
      BY <1>1, <1>3, <1>4, <2>3, <3>2, <3>3, <3>4, <3>5, <3>6, HandSettles
  <2>4. QED
    BY <2>2, <2>3
<1>7. QED
  BY <1>5, <1>6 DEF ArticlesInv

\* A step of the request at d: what is left to show is its own story.
LEMMA DeskStepKeeps ==
    ASSUME ArticlesInv, NEW d \in Desk, desk[d] # NoRequest, NEW s, s = desk[d].id,
           NEW r, r = NoRequest \/ (DeskRow(r) /\ r.id = s), desk' = [desk EXCEPT ![d] = r],
           pass' = pass, raced' = raced, licensed' = licensed, quiet' = quiet,
           story' \in [Story -> StoryRow], attached' \in [Story -> SUBSET MediaFile],
           alerted' \subseteq Story, withdrawn' \subseteq Story, news' \subseteq Story,
           \A x \in Story : x # s =>
               /\ story'[x] = story[x] /\ attached'[x] = attached[x]
               /\ x \in alerted => x \in alerted'
               /\ x \in withdrawn' => x \in withdrawn
               /\ x \in news' => x \in news,
           s \notin raced /\ StoryIsRight(s) /\ OnlyAtDesk(d, s) /\ HandIsRight(s, desk[d])
               => StoryIsRight(s)'
    PROVE  ArticlesInv'
<1>1. ArticlesTyped /\ \A x \in Story \ raced : StoryIsRight(x)
  BY DEF ArticlesInv
<1>2. ArticlesTyped'
  BY <1>1, HandStays DEF ArticlesTyped
<1>3. ASSUME NEW x \in Story \ raced' PROVE StoryIsRight(x)'
  <2>1. StoryIsRight(x)
    BY <1>1
  <2>2. CASE x # s
    BY <1>1, <2>1, <2>2, OthersAtDesk
  <2>3. CASE x = s
    BY <2>1, <2>3, HandIsAlone DEF Holds
  <2>4. QED
    BY <2>2, <2>3
<1>4. QED
  BY <1>2, <1>3 DEF ArticlesInv

\* What a story in hand is known to be.
LEMMA InHandIsKnown ==
    ASSUME NEW d \in Desk, NEW s, StoryIsRight(s), OnlyAtDesk(d, s)
    PROVE  /\ story[s].status = "PUBLISHED" => story[s].body \subseteq licensed /\ s \notin withdrawn
           /\ story[s].status = "SCHEDULED" => s \notin withdrawn
           /\ attached[s] = story[s].body \/ (Holds(d, s) /\ desk[d].pc = "save: link")
           /\ s \in news => s \in alerted
                  \/ (Holds(d, s) /\ desk[d].pc = "publish: alert" /\ story[s].isBreaking)
<1>1. \A e \in Desk : Holds(e, s) => e = d
  BY DEF OnlyAtDesk
<1>2. ToAlert(s) => Holds(d, s) /\ desk[d].pc = "publish: alert"
  BY <1>1 DEF ToAlert, OnlyAtDesk
<1>3. QED
  BY <1>1, <1>2 DEF StoryIsRight

LEMMA CheckSavedRightsKeeps ==
    ASSUME ArticlesInv, NEW d \in Desk, CheckSavedRights(d)
    PROVE  ArticlesInv'
<1>1. ArticlesTyped /\ desk[d] # NoRequest /\ desk[d].pc = "save: rights"
  BY DEF ArticlesInv, CheckSavedRights, AtPc
<1>2. DeskRow(desk[d])
  BY <1>1, HandTypes
<1> DEFINE to == ScheduleFields(desk[d].seen.input, desk[d].seen.status)
           refused == ((to.moves /\ to.status = "SCHEDULED") \/ desk[d].seen.status = "PUBLISHED")
                          /\ Blocked(desk[d].seen.input.body)
<1>0. PICK on : on = [desk[d] EXCEPT !.pc = "save: write"]
  OBVIOUS
<1>3. PICK r : r = IF refused THEN NoRequest ELSE on
  OBVIOUS
<1>4. /\ desk' = [desk EXCEPT ![d] = r]
      /\ UNCHANGED <<story, attached, withdrawn, raced, news, licensed, alerted, pass, quiet, events>>
  BY <1>0, <1>3 DEF CheckSavedRights, DeskOnly, history, Done, Step
<1>5. PICK s : s = desk[d].id
  OBVIOUS
<1>6. DeskRow(on) /\ on.pc = "save: write" /\ on.id = desk[d].id /\ on.seen = desk[d].seen
  <2>1. on = [pc |-> on.pc, id |-> desk[d].id, seen |-> desk[d].seen] /\ on.pc = "save: write"
    BY <1>0, <1>2 DEF DeskRow
  <2>2. on.pc \in SavePc /\ desk[d].pc \in SavePc
    BY <1>1, <2>1 DEF SavePc
  <2>3. QED
    BY <1>2, <2>1, <2>2, PcMoves
<1>7. s \in Story
  BY <1>2, <1>5 DEF DeskRow
<1>8. ASSUME s \notin raced, StoryIsRight(s), OnlyAtDesk(d, s), HandIsRight(s, desk[d])
      PROVE  StoryIsRight(s)'
  <2>1. r # NoRequest => HandIsRight(s, r)'
    <3> SUFFICES ASSUME r # NoRequest PROVE HandIsRight(s, r)'
      OBVIOUS
    <3>1. r = on /\ ~refused
      BY <1>3
    <3>2. r.pc = "save: write" /\ r.seen = desk[d].seen
      BY <1>6, <3>1
    <3>3. story'[s] = story[s] /\ licensed' = licensed /\ attached' = attached
      BY <1>4
    <3>4. desk[d].seen.status = story[s].status
      BY <1>1, <1>8 DEF HandIsRight
    <3>5. story[s].status = "PUBLISHED" => desk[d].seen.input.body \subseteq licensed
      BY <3>1, <3>4 DEF Blocked
    <3>6. QED
      BY <3>2, <3>3, <3>4, <3>5 DEF HandIsRight
  <2>2. r # NoRequest => DeskRow(r) /\ r.id = s
    BY <1>3, <1>5, <1>6
  <2>3. /\ story[s].status = "PUBLISHED" => story[s].body \subseteq licensed /\ s \notin withdrawn
        /\ story[s].status = "SCHEDULED" => s \notin withdrawn
        /\ attached[s] = story[s].body
        /\ s \in news => s \in alerted
    BY <1>1, <1>8, InHandIsKnown
  <2>4. QED
    BY <1>1, <1>4, <1>8, <2>1, <2>2, <2>3, HandSettles
<1> HIDE DEF refused, to
<1>9. r = NoRequest \/ (DeskRow(r) /\ r.id = s)
  BY <1>3, <1>5, <1>6
<1>10. QED
  BY <1>1, <1>4, <1>5, <1>8, <1>9, DeskStepKeeps DEF ArticlesTyped
LEMMA WriteSavedKeeps ==
    ASSUME ArticlesInv, NEW d \in Desk, WriteSaved(d)
    PROVE  ArticlesInv'
<1>1. ArticlesTyped /\ desk[d] # NoRequest /\ desk[d].pc = "save: write"
  BY DEF ArticlesInv, WriteSaved, AtPc
<1>2. DeskRow(desk[d])
  BY <1>1, HandTypes
<1>3. PICK s : s = desk[d].id
  OBVIOUS
<1>4. PICK i : i = desk[d].seen.input
  OBVIOUS
<1>5. PICK was : was = desk[d].seen.status
  OBVIOUS
<1>6. PICK to : to = ScheduleFields(i, was)
  OBVIOUS
<1>7. PICK status : status = IF to.moves THEN to.status
                             ELSE IF was = "absent" THEN "DRAFT" ELSE story[s].status
  OBVIOUS
<1>8. PICK for : for = IF to.moves THEN to.scheduledFor ELSE story[s].scheduledFor
  OBVIOUS
<1>9. PICK new : new = [status |-> status, scheduledFor |-> for, body |-> i.body,
                        isBreaking |-> i.isBreaking]
  OBVIOUS
<1>10. PICK r : r = [desk[d] EXCEPT !.pc = "save: link"]
  OBVIOUS
<1>11. s \in Story /\ i \in ArticleInputs /\ was \in Status
  BY <1>1, <1>2, <1>3, <1>4, <1>5 DEF DeskRow, SavePc
<1>12. i.body \subseteq MediaFile /\ i.isBreaking \in BOOLEAN /\ i.scheduledFor \in {"none", "later"}
  BY <1>11, ArticlesAssumption
<1>13. to.moves \in BOOLEAN
       /\ (to.moves => /\ was \in {"absent", "DRAFT", "SCHEDULED"} /\ to.status \in {"SCHEDULED", "DRAFT"}
                       /\ to.scheduledFor \in {"none", "later"})
  BY <1>6, <1>12 DEF ScheduleFields
<1>14. story[s] = [status |-> story[s].status, scheduledFor |-> story[s].scheduledFor,
                   body |-> story[s].body, isBreaking |-> story[s].isBreaking]
       /\ story[s].status \in Status /\ story[s].scheduledFor \in Times
  BY <1>1, <1>11 DEF ArticlesTyped, StoryRow
<1>15. status \in Status /\ for \in Times
  BY <1>7, <1>8, <1>13, <1>14 DEF Status, Times
<1>16. new \in StoryRow
  BY <1>9, <1>12, <1>15 DEF StoryRow
<1>17. /\ story' = [story EXCEPT ![s] = new]
       /\ withdrawn' = IF status = "SCHEDULED" THEN withdrawn \ {s} ELSE withdrawn
       /\ desk' = [desk EXCEPT ![d] = r]
       /\ UNCHANGED <<attached, raced, news, licensed, alerted, pass, quiet, events>>
  <2>1. PICK text : text = [story[s] EXCEPT !.body = i.body, !.isBreaking = i.isBreaking]
    OBVIOUS
  <2>6. text = [status |-> story[s].status, scheduledFor |-> story[s].scheduledFor, body |-> i.body,
                isBreaking |-> i.isBreaking]
    BY <1>14, <2>1
  <2>2. story' = [story EXCEPT ![s] = [text EXCEPT !.status = status, !.scheduledFor = for]]
    BY <2>1, <2>6, <1>3, <1>4, <1>5, <1>6, <1>7, <1>8 DEF WriteSaved
  <2>7. PICK put : put = [text EXCEPT !.status = status, !.scheduledFor = for]
    OBVIOUS
  <2>3. put = new
    <3>1. put = [status |-> status, scheduledFor |-> for, body |-> i.body, isBreaking |-> i.isBreaking]
      BY <2>6, <2>7
    <3>2. QED
      BY <3>1, <1>9
  <2>4. withdrawn' = IF status = "SCHEDULED" THEN withdrawn \ {s} ELSE withdrawn
    BY <1>3, <1>4, <1>5, <1>6, <1>7, <1>14 DEF WriteSaved
  <2>5. QED
    BY <1>10, <2>2, <2>3, <2>4, <2>7 DEF WriteSaved, Step, DeskOnly
<1>18. DeskRow(r) /\ r.pc = "save: link" /\ r.id = s /\ r.seen = desk[d].seen
  <2>1. r = [pc |-> r.pc, id |-> desk[d].id, seen |-> desk[d].seen] /\ r.pc = "save: link"
    BY <1>10, <1>2 DEF DeskRow
  <2>2. r.pc \in SavePc /\ desk[d].pc \in SavePc
    BY <1>1, <2>1 DEF SavePc
  <2>3. QED
    BY <1>2, <1>3, <2>1, <2>2, PcMoves
<1>19. story'[s] = new /\ new.status = status /\ new.body = i.body
  BY <1>1, <1>9, <1>11, <1>17 DEF ArticlesTyped
<1>20. ASSUME s \notin raced, StoryIsRight(s), OnlyAtDesk(d, s), HandIsRight(s, desk[d])
       PROVE  StoryIsRight(s)'
  <2>1. HandIsRight(s, r)'
    BY <1>4, <1>18, <1>19 DEF HandIsRight
  <2>2. /\ story[s].status = "PUBLISHED" => s \notin withdrawn
        /\ story[s].status = "SCHEDULED" => s \notin withdrawn
        /\ s \in news => s \in alerted
    BY <1>1, <1>20, InHandIsKnown
  <2>3. was = story[s].status /\ (was = "PUBLISHED" => i.body \subseteq licensed)
    BY <1>1, <1>4, <1>5, <1>20 DEF HandIsRight
  <2>4. status = "PUBLISHED" => was = "PUBLISHED"
    BY <1>7, <1>13, <2>3
  <2>5. /\ story'[s].status = "PUBLISHED" => story'[s].body \subseteq licensed' /\ s \notin withdrawn'
        /\ story'[s].status = "SCHEDULED" => s \notin withdrawn'
    BY <1>17, <1>19, <2>2, <2>3, <2>4
  <2>6. r # NoRequest
    BY <1>18, RequestIsNone
  <2>7. QED
    BY <1>1, <1>17, <1>18, <1>20, <2>1, <2>2, <2>5, <2>6, HandSettles
<1>21. story' \in [Story -> StoryRow] /\ \A x \in Story : x # s => story'[x] = story[x]
  BY <1>1, <1>16, <1>17 DEF ArticlesTyped
<1>22. QED
  BY <1>1, <1>3, <1>17, <1>18, <1>20, <1>21, DeskStepKeeps DEF ArticlesTyped
LEMMA LinkSavedKeeps ==
    ASSUME ArticlesInv, NEW d \in Desk, LinkSaved(d)
    PROVE  ArticlesInv'
<1>1. ArticlesTyped /\ desk[d] # NoRequest /\ desk[d].pc = "save: link"
  BY DEF ArticlesInv, LinkSaved, AtPc
<1>2. DeskRow(desk[d])
  BY <1>1, HandTypes
<1>3. PICK s : s = desk[d].id
  OBVIOUS
<1>4. PICK body : body = desk[d].seen.input.body
  OBVIOUS
<1>5. s \in Story /\ body \subseteq MediaFile
  <2>1. s \in Story /\ desk[d].seen.input \in ArticleInputs
    BY <1>1, <1>2, <1>3 DEF DeskRow, SavePc
  <2>2. QED
    BY <1>4, <2>1, ArticlesAssumption
<1>6. /\ desk' = [desk EXCEPT ![d] = NoRequest] /\ attached' = [attached EXCEPT ![s] = body]
      /\ UNCHANGED <<story, withdrawn, raced, news, licensed, alerted, pass, quiet, events>>
  BY <1>3, <1>4 DEF LinkSaved, DeskOnly, history, Done
<1>7. attached'[s] = body /\ \A x \in Story : x # s => attached'[x] = attached[x]
  BY <1>1, <1>5, <1>6 DEF ArticlesTyped
<1>8. ASSUME s \notin raced, StoryIsRight(s), OnlyAtDesk(d, s), HandIsRight(s, desk[d])
      PROVE  StoryIsRight(s)'
  <2>1. attached'[s] = story'[s].body
    BY <1>1, <1>4, <1>6, <1>7, <1>8 DEF HandIsRight
  <2>2. /\ story[s].status = "PUBLISHED" => story[s].body \subseteq licensed /\ s \notin withdrawn
        /\ story[s].status = "SCHEDULED" => s \notin withdrawn
        /\ s \in news => s \in alerted
    BY <1>1, <1>8, InHandIsKnown
  <2>3. QED
    BY <1>1, <1>6, <1>8, <2>1, <2>2, HandSettles
<1>9. attached' \in [Story -> SUBSET MediaFile]
  BY <1>1, <1>5, <1>6 DEF ArticlesTyped
<1>10. QED
  BY <1>1, <1>3, <1>6, <1>7, <1>8, <1>9, DeskStepKeeps DEF ArticlesTyped

LEMMA CheckPublishedRightsKeeps ==
    ASSUME ArticlesInv, NEW d \in Desk, CheckPublishedRights(d)
    PROVE  ArticlesInv'
<1>1. ArticlesTyped /\ desk[d] # NoRequest /\ desk[d].pc = "publish: rights"
  BY DEF ArticlesInv, CheckPublishedRights, AtPc
<1>2. DeskRow(desk[d])
  BY <1>1, HandTypes
<1>3. PICK s : s = desk[d].id
  OBVIOUS
<1>4. PICK on : on = [desk[d] EXCEPT !.pc = "publish: link"]
  OBVIOUS
<1>5. PICK r : r = IF Blocked(desk[d].seen) THEN NoRequest ELSE on
  OBVIOUS
<1>6. /\ desk' = [desk EXCEPT ![d] = r]
      /\ UNCHANGED <<story, attached, withdrawn, raced, news, licensed, alerted, pass, quiet, events>>
  BY <1>4, <1>5 DEF CheckPublishedRights, DeskOnly, history, Done, Step
<1>7. DeskRow(on) /\ on.pc = "publish: link" /\ on.id = s /\ on.seen = desk[d].seen
  <2>1. on = [pc |-> on.pc, id |-> desk[d].id, seen |-> desk[d].seen] /\ on.pc = "publish: link"
    BY <1>4, <1>2 DEF DeskRow
  <2>2. on.pc \in PublishPc /\ desk[d].pc \in PublishPc
    BY <1>1, <2>1 DEF PublishPc
  <2>3. QED
    BY <1>2, <1>3, <2>1, <2>2, PcMoves
<1>8. ASSUME s \notin raced, StoryIsRight(s), OnlyAtDesk(d, s), HandIsRight(s, desk[d])
      PROVE  StoryIsRight(s)'
  <2>1. r # NoRequest => HandIsRight(s, r)'
    <3> SUFFICES ASSUME r # NoRequest PROVE HandIsRight(s, r)'
      OBVIOUS
    <3>1. r = on /\ desk[d].seen \subseteq licensed
      BY <1>5 DEF Blocked
    <3>2. desk[d].seen = story[s].body
      BY <1>1, <1>8 DEF HandIsRight
    <3>3. story'[s] = story[s] /\ licensed' = licensed
      BY <1>6
    <3>4. QED
      BY <1>7, <3>1, <3>2, <3>3 DEF HandIsRight
  <2>2. r # NoRequest => DeskRow(r) /\ r.id = s
    BY <1>5, <1>7
  <2>3. /\ story[s].status = "PUBLISHED" => story[s].body \subseteq licensed /\ s \notin withdrawn
        /\ story[s].status = "SCHEDULED" => s \notin withdrawn
        /\ attached[s] = story[s].body
        /\ s \in news => s \in alerted
    BY <1>1, <1>8, InHandIsKnown
  <2>4. QED
    BY <1>1, <1>6, <1>8, <2>1, <2>2, <2>3, HandSettles
<1>9. r = NoRequest \/ (DeskRow(r) /\ r.id = s)
  BY <1>5, <1>7
<1>10. QED
  BY <1>1, <1>3, <1>6, <1>8, <1>9, DeskStepKeeps DEF ArticlesTyped

LEMMA LinkPublishedKeeps ==
    ASSUME ArticlesInv, NEW d \in Desk, LinkPublished(d)
    PROVE  ArticlesInv'
<1>1. ArticlesTyped /\ desk[d] # NoRequest /\ desk[d].pc = "publish: link"
  BY DEF ArticlesInv, LinkPublished, AtPc
<1>2. DeskRow(desk[d])
  BY <1>1, HandTypes
<1>3. PICK s : s = desk[d].id
  OBVIOUS
<1>4. PICK on : on = [desk[d] EXCEPT !.pc = "publish: write"]
  OBVIOUS
<1>5. s \in Story /\ desk[d].seen \subseteq MediaFile
  BY <1>1, <1>2, <1>3 DEF DeskRow, PublishPc
<1>6. /\ desk' = [desk EXCEPT ![d] = on] /\ attached' = [attached EXCEPT ![s] = desk[d].seen]
      /\ UNCHANGED <<story, withdrawn, raced, news, licensed, alerted, pass, quiet, events>>
  BY <1>3, <1>4 DEF LinkPublished, DeskOnly, history, Step
<1>7. DeskRow(on) /\ on.pc = "publish: write" /\ on.id = s /\ on.seen = desk[d].seen
  <2>1. on = [pc |-> on.pc, id |-> desk[d].id, seen |-> desk[d].seen] /\ on.pc = "publish: write"
    BY <1>4, <1>2 DEF DeskRow
  <2>2. on.pc \in PublishPc /\ desk[d].pc \in PublishPc
    BY <1>1, <2>1 DEF PublishPc
  <2>3. QED
    BY <1>2, <1>3, <2>1, <2>2, PcMoves
<1>8. attached'[s] = desk[d].seen /\ \A x \in Story : x # s => attached'[x] = attached[x]
  BY <1>1, <1>5, <1>6 DEF ArticlesTyped
<1>9. ASSUME s \notin raced, StoryIsRight(s), OnlyAtDesk(d, s), HandIsRight(s, desk[d])
      PROVE  StoryIsRight(s)'
  <2>1. desk[d].seen = story[s].body /\ desk[d].seen \subseteq licensed
    BY <1>1, <1>9 DEF HandIsRight
  <2>2. HandIsRight(s, on)'
    BY <1>6, <1>7, <1>8, <2>1 DEF HandIsRight
  <2>3. /\ story[s].status = "PUBLISHED" => story[s].body \subseteq licensed /\ s \notin withdrawn
        /\ story[s].status = "SCHEDULED" => s \notin withdrawn
        /\ s \in news => s \in alerted
    BY <1>1, <1>9, InHandIsKnown
  <2>4. QED
    BY <1>1, <1>6, <1>7, <1>8, <1>9, <2>1, <2>2, <2>3, HandSettles
<1>10. attached' \in [Story -> SUBSET MediaFile]
  BY <1>1, <1>5, <1>6 DEF ArticlesTyped
<1>11. QED
  BY <1>1, <1>3, <1>6, <1>7, <1>8, <1>9, <1>10, DeskStepKeeps DEF ArticlesTyped

\* One field of a row written.
LEMMA StatusIsWritten ==
    ASSUME ArticlesTyped, NEW s \in Story, NEW new,
           new = [status |-> new.status, scheduledFor |-> new.scheduledFor, body |-> new.body,
                  isBreaking |-> new.isBreaking],
           new.status \in Status, new.scheduledFor \in Times,
           new.body = story[s].body, new.isBreaking = story[s].isBreaking,
           story' = [story EXCEPT ![s] = new]
    PROVE  /\ story' \in [Story -> StoryRow] /\ story'[s] = new
           /\ \A x \in Story : x # s => story'[x] = story[x]
<1>1. story[s].body \in SUBSET MediaFile /\ story[s].isBreaking \in BOOLEAN
  BY DEF ArticlesTyped, StoryRow
<1>2. new \in StoryRow
  BY <1>1 DEF StoryRow
<1>3. story'[s] = new
  BY DEF ArticlesTyped
<1>4. story' \in [Story -> StoryRow] /\ \A x \in Story : x # s => story'[x] = story[x]
  BY <1>2 DEF ArticlesTyped
<1>5. QED
  BY <1>3, <1>4

\* A row whose status was written.
LEMMA OnlyStatusMoves ==
    ASSUME ArticlesTyped, NEW s \in Story, NEW status, NEW new, new = [story[s] EXCEPT !.status = status]
    PROVE  /\ new = [status |-> new.status, scheduledFor |-> new.scheduledFor, body |-> new.body,
                     isBreaking |-> new.isBreaking]
           /\ new.status = status /\ new.scheduledFor \in Times
           /\ new.body = story[s].body /\ new.isBreaking = story[s].isBreaking
<1>1. /\ story[s] = [status |-> story[s].status, scheduledFor |-> story[s].scheduledFor,
                     body |-> story[s].body, isBreaking |-> story[s].isBreaking]
      /\ story[s].scheduledFor \in Times
  BY DEF ArticlesTyped, StoryRow
<1>2. new = [status |-> status, scheduledFor |-> story[s].scheduledFor,
             body |-> story[s].body, isBreaking |-> story[s].isBreaking]
  BY <1>1
<1>3. QED
  BY <1>1, <1>2

LEMMA StoryFields ==
    ASSUME ArticlesTyped, NEW s \in Story
    PROVE  /\ story[s] = [status |-> story[s].status, scheduledFor |-> story[s].scheduledFor,
                          body |-> story[s].body, isBreaking |-> story[s].isBreaking]
           /\ story[s].status \in Status /\ story[s].scheduledFor \in Times
           /\ story[s].body \subseteq MediaFile /\ story[s].isBreaking \in BOOLEAN
BY DEF ArticlesTyped, StoryRow

LEMMA WritePublishedKeeps ==
    ASSUME ArticlesInv, NEW d \in Desk, WritePublished(d)
    PROVE  ArticlesInv'
<1>1. ArticlesTyped /\ desk[d] # NoRequest /\ desk[d].pc = "publish: write"
  BY DEF ArticlesInv, WritePublished, AtPc
<1>2. DeskRow(desk[d])
  BY <1>1, HandTypes
<1>3. PICK s : s = desk[d].id
  OBVIOUS
<1>4. PICK on : on = [desk[d] EXCEPT !.pc = "publish: alert"]
  OBVIOUS
<1>13. PICK up : up = "PUBLISHED"
  OBVIOUS
<1>14. ArticlesTyped
  BY <1>1
<1>5. PICK new : new = [story[s] EXCEPT !.status = up]
  OBVIOUS
<1>6. s \in Story
  BY <1>2, <1>3 DEF DeskRow
<1>7. /\ desk' = [desk EXCEPT ![d] = on] /\ story' = [story EXCEPT ![s] = new]
      /\ withdrawn' = withdrawn \ {s} /\ news' = IF story[s].isBreaking THEN news \cup {s} ELSE news
      /\ UNCHANGED <<attached, raced, licensed, alerted, pass, quiet, events>>
  BY <1>3, <1>4, <1>5, <1>13 DEF WritePublished, GoesUp, DeskOnly, Step
<1>8. DeskRow(on) /\ on.pc = "publish: alert" /\ on.id = s /\ on.seen = desk[d].seen
  <2>1. on = [pc |-> on.pc, id |-> desk[d].id, seen |-> desk[d].seen] /\ on.pc = "publish: alert"
    BY <1>4, <1>2 DEF DeskRow
  <2>2. on.pc \in PublishPc /\ desk[d].pc \in PublishPc
    BY <1>1, <2>1 DEF PublishPc
  <2>3. QED
    BY <1>2, <1>3, <2>1, <2>2, PcMoves
<1>9. /\ story' \in [Story -> StoryRow]
      /\ story'[s].status = "PUBLISHED" /\ story'[s].body = story[s].body
      /\ story'[s].isBreaking = story[s].isBreaking
      /\ \A x \in Story : x # s => story'[x] = story[x]
  <2>1. /\ new = [status |-> new.status, scheduledFor |-> new.scheduledFor, body |-> new.body,
                  isBreaking |-> new.isBreaking]
        /\ new.status = up /\ new.scheduledFor \in Times
        /\ new.body = story[s].body /\ new.isBreaking = story[s].isBreaking
    BY <1>14, <1>5, <1>6, OnlyStatusMoves
  <2>2. new.status \in Status
    BY <1>13, <2>1 DEF Status
  <2>3. story' \in [Story -> StoryRow] /\ story'[s] = new /\ \A x \in Story : x # s => story'[x] = story[x]
    BY <1>1, <1>6, <1>7, <2>1, <2>2, StatusIsWritten
  <2>4. QED
    BY <1>13, <2>1, <2>3
<1>10. ASSUME s \notin raced, StoryIsRight(s), OnlyAtDesk(d, s), HandIsRight(s, desk[d])
       PROVE  StoryIsRight(s)'
  <2>1. /\ desk[d].seen = story[s].body /\ desk[d].seen \subseteq licensed
        /\ attached[s] = desk[d].seen
    BY <1>1, <1>10 DEF HandIsRight
  <2>2. HandIsRight(s, on)'
    BY <1>8, <1>9 DEF HandIsRight
  <2>3. s \in news => s \in alerted
    BY <1>1, <1>10, InHandIsKnown
  <2>4. on # NoRequest
    BY <1>8, RequestIsNone
  <2>5. s \in news' => s \in alerted' \/ story'[s].isBreaking
    BY <1>7, <1>9, <2>3
  <2>6. QED
    BY <1>1, <1>7, <1>8, <1>9, <1>10, <2>1, <2>2, <2>4, <2>5, HandSettles
<1>11. /\ news' \subseteq Story
       /\ \A x \in Story : x # s => (x \in withdrawn' => x \in withdrawn) /\ (x \in news' => x \in news)
  BY <1>6, <1>7, <1>14 DEF ArticlesTyped
<1>12. QED
  BY <1>1, <1>3, <1>7, <1>8, <1>9, <1>10, <1>11, DeskStepKeeps DEF ArticlesTyped

LEMMA AlertPublishedKeeps ==
    ASSUME ArticlesInv, NEW d \in Desk, AlertPublished(d)
    PROVE  ArticlesInv'
<1>1. ArticlesTyped /\ desk[d] # NoRequest /\ desk[d].pc = "publish: alert"
  BY DEF ArticlesInv, AlertPublished, AtPc
<1>2. DeskRow(desk[d])
  BY <1>1, HandTypes
<1>3. PICK s : s = desk[d].id
  OBVIOUS
<1>4. /\ desk' = [desk EXCEPT ![d] = NoRequest]
      /\ alerted' = IF story[s].status = "PUBLISHED" /\ story[s].isBreaking THEN alerted \cup {s} ELSE alerted
      /\ UNCHANGED <<story, attached, licensed, pass, quiet, events, withdrawn, raced, news>>
  BY <1>3 DEF AlertPublished, Alert, Done, history
<1>5. s \in Story
  BY <1>2, <1>3 DEF DeskRow
<1>6. ASSUME s \notin raced, StoryIsRight(s), OnlyAtDesk(d, s), HandIsRight(s, desk[d])
      PROVE  StoryIsRight(s)'
  <2>1. story[s].status = "PUBLISHED"
    BY <1>1, <1>6 DEF HandIsRight
  <2>2. /\ story[s].status = "PUBLISHED" => story[s].body \subseteq licensed /\ s \notin withdrawn
        /\ story[s].status = "SCHEDULED" => s \notin withdrawn
        /\ attached[s] = story[s].body
        /\ s \in news => s \in alerted \/ story[s].isBreaking
    BY <1>1, <1>6, InHandIsKnown
  <2>3. s \in news' => s \in alerted'
    BY <1>4, <2>1, <2>2
  <2>4. QED
    BY <1>1, <1>4, <1>6, <2>2, <2>3, HandSettles
<1>7. alerted' \subseteq Story /\ alerted \subseteq alerted'
  BY <1>1, <1>4, <1>5 DEF ArticlesTyped
<1>8. QED
  BY <1>1, <1>3, <1>4, <1>6, <1>7, DeskStepKeeps DEF ArticlesTyped

LEMMA WithdrawKeeps ==
    ASSUME ArticlesInv, NEW d \in Desk, Withdraw(d)
    PROVE  ArticlesInv'
<1>1. PICK w \in {<<"unpublish", "DRAFT">>, <<"archive", "ARCHIVED">>} :
          AtPc(d, w[1]) /\ story' = [story EXCEPT ![desk[d].id].status = w[2]]
  BY DEF Withdraw
<1>2. /\ ArticlesTyped /\ desk[d] # NoRequest /\ desk[d].pc = w[1]
      /\ w[1] \in {"unpublish", "archive"} /\ w[2] \in {"DRAFT", "ARCHIVED"}
  BY <1>1 DEF ArticlesInv, AtPc
<1>3. DeskRow(desk[d])
  BY <1>2, HandTypes
<1>4. PICK s : s = desk[d].id
  OBVIOUS
<1>5. PICK new : new = [story[s] EXCEPT !.status = w[2]]
  OBVIOUS
<1>6. s \in Story
  BY <1>3, <1>4 DEF DeskRow
<1>7. /\ desk' = [desk EXCEPT ![d] = NoRequest] /\ story' = [story EXCEPT ![s] = new]
      /\ withdrawn' = withdrawn \cup {s}
      /\ UNCHANGED <<attached, raced, news, licensed, alerted, pass, quiet, events>>
  BY <1>1, <1>4, <1>5 DEF Withdraw, DeskOnly, Done
<1>8. /\ story' \in [Story -> StoryRow]
      /\ story'[s].status = w[2] /\ story'[s].body = story[s].body
      /\ \A x \in Story : x # s => story'[x] = story[x]
  <2>1. /\ new = [status |-> new.status, scheduledFor |-> new.scheduledFor, body |-> new.body,
                  isBreaking |-> new.isBreaking]
        /\ new.status = w[2] /\ new.scheduledFor \in Times
        /\ new.body = story[s].body /\ new.isBreaking = story[s].isBreaking
    BY <1>2, <1>5, <1>6, OnlyStatusMoves
  <2>2. new.status \in Status
    BY <1>2, <2>1 DEF Status
  <2>3. story' \in [Story -> StoryRow] /\ story'[s] = new /\ \A x \in Story : x # s => story'[x] = story[x]
    BY <1>2, <1>6, <1>7, <2>1, <2>2, StatusIsWritten
  <2>4. QED
    BY <2>1, <2>3
<1>9. ASSUME s \notin raced, StoryIsRight(s), OnlyAtDesk(d, s), HandIsRight(s, desk[d])
      PROVE  StoryIsRight(s)'
  <2>1. /\ attached[s] = story[s].body
        /\ s \in news => s \in alerted
    BY <1>2, <1>9, InHandIsKnown
  <2>2. story'[s].status # "PUBLISHED" /\ story'[s].status # "SCHEDULED"
    BY <1>2, <1>8
  <2>3. QED
    BY <1>2, <1>7, <1>8, <1>9, <2>1, <2>2, HandSettles
<1>10. withdrawn' \subseteq Story /\ \A x \in Story : x # s => (x \in withdrawn' => x \in withdrawn)
  BY <1>2, <1>6, <1>7 DEF ArticlesTyped
<1>11. QED
  BY <1>2, <1>4, <1>7, <1>8, <1>9, <1>10, DeskStepKeeps DEF ArticlesTyped
LEMMA AsksKeep ==
    ASSUME ArticlesInv, NEW d \in Desk, NEW s \in Story,
           \/ \E input \in ArticleInputs : SaveArticle(d, s, input)
           \/ PublishArticle(d, s) \/ UnpublishArticle(d, s) \/ ArchiveArticle(d, s)
    PROVE  ArticlesInv'
<1>1. ArticlesTyped
  BY DEF ArticlesInv
<1>2. ASSUME NEW input \in ArticleInputs, SaveArticle(d, s, input) PROVE ArticlesInv'
  <2>1. PICK seen : seen = [status |-> story[s].status, input |-> input]
    OBVIOUS
  <2>2. PICK r : r = [pc |-> "save: rights", id |-> s, seen |-> seen]
    OBVIOUS
  <2>3. seen.status = story[s].status /\ seen.input = input /\ seen.status \in Status
    BY <1>1, <2>1, StoryFields
  <2>4. r.pc = "save: rights" /\ r.id = s /\ r.seen = seen
    BY <2>2
  <2>5. DeskRow(r)
    BY <2>2, <2>3, <2>4 DEF DeskRow, SavePc, PublishPc
  <2>6. HandIsRight(s, r)
    BY <2>3, <2>4 DEF HandIsRight
  <2>7. Ask(d, s, "save: rights", seen)
    BY <1>2, <2>1 DEF SaveArticle
  <2>8. QED
    BY <2>2, <2>5, <2>6, <2>7, AskKeeps
<1>3. ASSUME PublishArticle(d, s) PROVE ArticlesInv'
  <2>1. PICK seen : seen = story[s].body
    OBVIOUS
  <2>2. PICK r : r = [pc |-> "publish: rights", id |-> s, seen |-> seen]
    OBVIOUS
  <2>3. seen \subseteq MediaFile
    BY <1>1, <2>1, StoryFields
  <2>4. r.pc = "publish: rights" /\ r.id = s /\ r.seen = seen
    BY <2>2
  <2>5. DeskRow(r)
    BY <2>2, <2>3, <2>4 DEF DeskRow, SavePc, PublishPc
  <2>6. HandIsRight(s, r)
    BY <2>1, <2>4 DEF HandIsRight
  <2>7. Ask(d, s, "publish: rights", seen)
    BY <1>3, <2>1 DEF PublishArticle
  <2>8. QED
    BY <2>2, <2>5, <2>6, <2>7, AskKeeps
<1>4. ASSUME NEW pc \in {"unpublish", "archive"}, Ask(d, s, pc, {}) PROVE ArticlesInv'
  <2>2. PICK r : r = [pc |-> pc, id |-> s, seen |-> {}]
    OBVIOUS
  <2>4. r.pc = pc /\ r.id = s /\ r.seen = {}
    BY <2>2
  <2>5. DeskRow(r)
    BY <2>2, <2>4 DEF DeskRow, SavePc, PublishPc
  <2>6. HandIsRight(s, r)
    BY <2>4 DEF HandIsRight
  <2>8. QED
    BY <1>4, <2>2, <2>5, <2>6, AskKeeps
<1>5. QED
  BY <1>2, <1>3, <1>4 DEF UnpublishArticle, ArchiveArticle

\* Who has what, once pass and desk are as they were.
LEMMA NobodyMoves ==
    ASSUME NEW s, desk' = desk, pass' = pass
    PROVE  /\ \A d \in Desk : (Holds(d, s)' <=> Holds(d, s)) /\ (Holds(d, s) => desk'[d] = desk[d])
           /\ \A x : x \in pass'.left /\ x.id = s <=> x \in pass.left /\ x.id = s
           /\ \A x : (Now("write", x)' <=> Now("write", x)) /\ (Now("alert", x)' <=> Now("alert", x))
BY DEF Holds, Now

LEMMA SetMediaRightsKeeps ==
    ASSUME ArticlesInv, NEW f \in MediaFile, NEW confirmed \in BOOLEAN, SetMediaRights(f, confirmed)
    PROVE  ArticlesInv'
<1>1. ArticlesTyped /\ \A x \in Story \ raced : StoryIsRight(x)
  BY DEF ArticlesInv
<1>2. /\ licensed' = IF confirmed THEN licensed \cup {f} ELSE licensed \ {f}
      /\ raced' = raced \cup IF f \in licensed /\ ~confirmed THEN Story ELSE {}
      /\ UNCHANGED <<story, attached, alerted, desk, pass, quiet, withdrawn, news>>
  BY DEF SetMediaRights
<1>3. ArticlesTyped'
  BY <1>1, <1>2 DEF ArticlesTyped, DeskRow
<1>4. ASSUME NEW x \in Story \ raced' PROVE StoryIsRight(x)'
  <2>1. licensed \subseteq licensed' /\ x \notin raced
    BY <1>2
  <2>2. StoryIsRight(x)
    BY <1>1, <2>1
  <2>3. QED
    BY <1>2, <2>1, <2>2, NobodyMoves, OthersStay
<1>5. QED
  BY <1>3, <1>4 DEF ArticlesInv

LEMMA TimeComesKeeps ==
    ASSUME ArticlesInv, NEW s \in Story, TimeComes(s)
    PROVE  ArticlesInv'
<1>1. ArticlesTyped /\ \A x \in Story \ raced : StoryIsRight(x)
  BY DEF ArticlesInv
<1>2. PICK due : due = "due"
  OBVIOUS
<1>3. PICK new : new = [story[s] EXCEPT !.scheduledFor = due]
  OBVIOUS
<1>4. /\ story' = [story EXCEPT ![s] = new]
      /\ UNCHANGED <<attached, licensed, alerted, desk, pass, quiet, events, withdrawn, raced, news>>
  BY <1>2, <1>3 DEF TimeComes, history
<1>5. /\ new = [status |-> new.status, scheduledFor |-> new.scheduledFor, body |-> new.body,
                isBreaking |-> new.isBreaking]
      /\ new.status = story[s].status /\ new.scheduledFor = due
      /\ new.body = story[s].body /\ new.isBreaking = story[s].isBreaking
  <2>1. story[s] = [status |-> story[s].status, scheduledFor |-> story[s].scheduledFor,
                    body |-> story[s].body, isBreaking |-> story[s].isBreaking]
    BY <1>1, StoryFields
  <2>2. new = [status |-> story[s].status, scheduledFor |-> due,
               body |-> story[s].body, isBreaking |-> story[s].isBreaking]
    BY <1>3, <2>1
  <2>3. QED
    BY <2>2
<1>6. new.status \in Status /\ new.scheduledFor \in Times
  BY <1>1, <1>2, <1>5, StoryFields DEF Times
<1>7. story' \in [Story -> StoryRow] /\ story'[s] = new /\ \A x \in Story : x # s => story'[x] = story[x]
  BY <1>1, <1>4, <1>5, <1>6, StatusIsWritten
<1>8. ArticlesTyped'
  BY <1>1, <1>4, <1>7 DEF ArticlesTyped, DeskRow
<1>9. \A x \in Story : /\ story'[x].status = story[x].status /\ story'[x].body = story[x].body
                       /\ story'[x].isBreaking = story[x].isBreaking
  BY <1>5, <1>7
<1>10. ASSUME NEW x \in Story \ raced' PROVE StoryIsRight(x)'
  <2>1. StoryIsRight(x)
    BY <1>1, <1>4
  <2>2. QED
    BY <1>4, <1>9, <2>1, NobodyMoves, OthersStay
<1>11. QED
  BY <1>8, <1>10 DEF ArticlesInv

\* A story that nobody has.
LEMMA FreeIsRight ==
    ASSUME NEW s, StoryIsRight(s), \A d \in Desk : ~Holds(d, s), \A x \in pass.left : x.id # s
    PROVE  /\ attached[s] = story[s].body /\ (s \in news => s \in alerted)
           /\ story[s].status = "PUBLISHED" => story[s].body \subseteq licensed /\ s \notin withdrawn
           /\ story[s].status = "SCHEDULED" => s \notin withdrawn
BY DEF StoryIsRight, ToAlert

\* The hands let go of everything but the stories that were free anyway.
LEMMA LetGo ==
    ASSUME ArticlesTyped, NEW s, StoryIsRight(s),
           \A d \in Desk : ~Holds(d, s), \A x \in pass.left : x.id # s,
           \A d \in Desk : ~Holds(d, s)', \A x \in pass'.left : x.id # s,
           UNCHANGED <<story, attached, licensed, alerted, withdrawn, news>>
    PROVE  StoryIsRight(s)'
<1>1. /\ attached[s] = story[s].body /\ (s \in news => s \in alerted)
      /\ story[s].status = "PUBLISHED" => story[s].body \subseteq licensed /\ s \notin withdrawn
      /\ story[s].status = "SCHEDULED" => s \notin withdrawn
  BY FreeIsRight
<1>2. InOneHand(s)'
  BY DEF InOneHand
<1>3. QED
  BY <1>1, <1>2 DEF StoryIsRight

LEMMA NotInHand ==
    ASSUME ArticlesTyped, NEW s \in Story
    PROVE  /\ ~InPass(s) => \A x \in pass.left : x.id # s
           /\ ~AtDesk(s) => \A d \in Desk : ~Holds(d, s)
           /\ s \notin InHand <=> ~InPass(s) /\ ~AtDesk(s)
BY DEF ArticlesTyped, InPass, AtDesk, Holds, InHand

LEMMA RestartKeeps ==
    ASSUME ArticlesInv, Restart
    PROVE  ArticlesInv'
<1>1. ArticlesTyped /\ \A x \in Story \ raced : StoryIsRight(x)
  BY DEF ArticlesInv
<1>2. /\ desk' = [d \in Desk |-> NoRequest] /\ pass' = NoPass /\ quiet' = FALSE
      /\ raced' = raced \cup InHand
      /\ UNCHANGED <<story, attached, licensed, alerted, withdrawn, news>>
  BY DEF Restart
<1>3. pass'.pc = "idle" /\ pass'.left = {}
  BY <1>2 DEF NoPass
<1>4. (\A d \in Desk : desk'[d] = NoRequest) /\ desk' = [d \in Desk |-> desk'[d]]
  BY <1>2
<1>5. ArticlesTyped'
  BY <1>1, <1>2, <1>3, <1>4 DEF ArticlesTyped
<1>6. ASSUME NEW x \in Story \ raced' PROVE StoryIsRight(x)'
  <2>1. StoryIsRight(x) /\ x \notin InHand
    BY <1>1, <1>2
  <2>2. (\A d \in Desk : ~Holds(d, x)) /\ (\A y \in pass.left : y.id # x)
    BY <1>1, <2>1, NotInHand
  <2>3. (\A d \in Desk : ~Holds(d, x)') /\ (\A y \in pass'.left : y.id # x)
    BY <1>3, <1>4 DEF Holds
  <2>4. QED
    BY <1>1, <1>2, <2>1, <2>2, <2>3, LetGo
<1>7. QED
  BY <1>5, <1>6 DEF ArticlesInv

LEMMA PassThrowsKeeps ==
    ASSUME ArticlesInv, PassThrows
    PROVE  ArticlesInv'
<1>1. ArticlesTyped /\ \A x \in Story \ raced : StoryIsRight(x)
  BY DEF ArticlesInv
<1>2. /\ pass' = NoPass /\ raced' = raced \cup {s \in Story : InPass(s)}
      /\ UNCHANGED <<story, attached, licensed, alerted, desk, quiet, withdrawn, news>>
  BY DEF PassThrows
<1>3. pass'.pc = "idle" /\ pass'.left = {}
  BY <1>2 DEF NoPass
<1>5. ArticlesTyped'
  BY <1>1, <1>2, <1>3 DEF ArticlesTyped, DeskRow
<1>6. ASSUME NEW x \in Story \ raced' PROVE StoryIsRight(x)'
  <2>1. StoryIsRight(x) /\ ~InPass(x)
    BY <1>1, <1>2
  <2>2. \A y \in pass.left : y.id # x
    BY <1>1, <2>1, NotInHand
  <2>3. \A d \in Desk : (Holds(d, x)' <=> Holds(d, x)) /\ (Holds(d, x) => desk'[d] = desk[d])
    BY <1>2 DEF Holds
  <2>4. \A y : y \in pass'.left /\ y.id = x <=> y \in pass.left /\ y.id = x
    BY <1>3, <2>2
  <2>5. \A y : y \in pass.left /\ y.id = x => FALSE
    BY <2>2
  <2>6. QED
    BY <1>2, <2>1, <2>3, <2>4, <2>5, OthersStay
<1>7. QED
  BY <1>5, <1>6 DEF ArticlesInv

LEMMA MinutePassesKeeps ==
    ASSUME ArticlesInv, MinutePasses
    PROVE  ArticlesInv'
<1>1. ArticlesTyped /\ \A x \in Story \ raced : StoryIsRight(x)
  BY DEF ArticlesInv
<1>2. /\ quiet' = FALSE
      /\ UNCHANGED <<story, attached, licensed, alerted, desk, pass, withdrawn, raced, news>>
  BY DEF MinutePasses, history
<1>3. ArticlesTyped'
  BY <1>1, <1>2 DEF ArticlesTyped, DeskRow
<1>4. ASSUME NEW x \in Story \ raced' PROVE StoryIsRight(x)'
  BY <1>1, <1>2, NobodyMoves, OthersStay
<1>5. QED
  BY <1>3, <1>4 DEF ArticlesInv

LEMMA VisitKeeps ==
    ASSUME ArticlesInv, Visit
    PROVE  ArticlesInv'
<1>1. ArticlesTyped /\ \A x \in Story \ raced : StoryIsRight(x)
  BY DEF ArticlesInv
<1>2. PICK list : list = {Snapshot(s) : s \in DueNow}
  OBVIOUS
<1>3. /\ pass.pc = "idle" /\ quiet' = TRUE
      /\ pass' = IF DueNow = {} THEN NoPass ELSE [pc |-> "next", left |-> list]
      /\ raced' = raced \cup {s \in DueNow : AtDesk(s)}
      /\ UNCHANGED <<story, attached, licensed, alerted, desk, withdrawn, news>>
  BY <1>2 DEF Visit
<1>4. pass.left = {} /\ DueNow \subseteq Story
  BY <1>1, <1>3 DEF ArticlesTyped, DueNow
<1>5. list \subseteq DueRow
  <2>1. ASSUME NEW s \in DueNow PROVE Snapshot(s) \in DueRow
    <3>1. story[s].body \subseteq MediaFile /\ story[s].isBreaking \in BOOLEAN /\ s \in Story
      BY <1>1, <1>4, StoryFields
    <3>2. QED
      BY <3>1 DEF Snapshot, DueRow
  <2>2. QED
    BY <1>2, <2>1
<1>6. pass'.left = list /\ (pass'.pc = "next" \/ (pass'.pc = "idle" /\ list = {}))
  <2>1. CASE DueNow = {}
    BY <1>2, <1>3, <2>1 DEF NoPass
  <2>2. CASE DueNow # {}
    BY <1>2, <1>3, <2>2
  <2>3. QED
    BY <2>1, <2>2
<1>7. ArticlesTyped'
  BY <1>1, <1>3, <1>5, <1>6 DEF ArticlesTyped, DeskRow
<1>8. ASSUME NEW x \in Story \ raced' PROVE StoryIsRight(x)'
  <2>1. StoryIsRight(x)
    BY <1>1, <1>3
  <2>2. \A d \in Desk : (Holds(d, x)' <=> Holds(d, x)) /\ (Holds(d, x) => desk'[d] = desk[d])
    BY <1>3 DEF Holds
  <2>3. \A y \in list : y.id \in DueNow /\ y = Snapshot(y.id)
    BY <1>2 DEF Snapshot
  <2>4. CASE x \notin DueNow
    <3>1. \A y : y \in pass'.left /\ y.id = x <=> y \in pass.left /\ y.id = x
      BY <1>4, <1>6, <2>3, <2>4
    <3>2. \A y : y \in pass.left /\ y.id = x => FALSE
      BY <1>4
    <3>3. QED
      BY <1>3, <2>1, <2>2, <3>1, <3>2, OthersStay
  <2>5. CASE x \in DueNow
    <3>1. ~AtDesk(x)
      BY <1>3, <2>5
    <3>2. \A d \in Desk : ~Holds(d, x)
      BY <1>1, <3>1, NotInHand
    <3>3. \A y \in pass'.left : y.id = x => y = Snapshot(x)
      BY <1>6, <2>3
    <3>4. InOneHand(x)'
      BY <2>2, <3>2, <3>3 DEF InOneHand
    <3>5. /\ attached[x] = story[x].body /\ (x \in news => x \in alerted)
          /\ story[x].status = "PUBLISHED" => story[x].body \subseteq licensed /\ x \notin withdrawn
          /\ story[x].status = "SCHEDULED" => x \notin withdrawn
      BY <1>4, <2>1, <3>2, FreeIsRight
    <3>6. ASSUME NEW y \in pass'.left, y.id = x PROVE DueIsRight(x, y)'
      <4>1. y.body = story'[x].body /\ y.isBreaking = story'[x].isBreaking
        BY <1>3, <3>3, <3>6 DEF Snapshot
      <4>2. story'[x].status = "SCHEDULED"
        BY <1>3, <2>5 DEF DueNow
      <4>3. ~Now("alert", y)' /\ ~Now("write", y)'
        BY <1>6 DEF Now
      <4>4. QED
        BY <4>1, <4>2, <4>3 DEF DueIsRight
    <3>7. QED
      BY <1>3, <2>2, <3>2, <3>4, <3>5, <3>6 DEF StoryIsRight
  <2>6. QED
    BY <2>4, <2>5
<1>9. QED
  BY <1>7, <1>8 DEF ArticlesInv
\* The pass goes on from the story x: through with it, or holding it.
PassMoves(x) ==
    \/ pass'.left = pass.left \ {x} /\ pass'.pc \in {"idle", "next"} /\ (pass'.pc = "idle" => pass'.left = {})
    \/ pass'.left = pass.left /\ pass'.pc \in {"write", "alert"} /\ pass'.now = x

LEMMA ThroughMoves ==
    ASSUME NEW x \in pass.left, pass' = Through(x)
    PROVE  PassMoves(x) /\ pass'.pc \in {"idle", "next"}
<1>1. CASE pass.left = {x}
  <2>1. pass'.pc = "idle" /\ pass'.left = {}
    BY <1>1 DEF Through, NoPass
  <2>2. QED
    BY <1>1, <2>1 DEF PassMoves
<1>2. CASE pass.left # {x}
  <2>1. pass'.pc = "next" /\ pass'.left = pass.left \ {x}
    BY <1>2 DEF Through
  <2>2. QED
    BY <2>1 DEF PassMoves
<1>3. QED
  BY <1>1, <1>2

LEMMA HoldingMoves ==
    ASSUME NEW x \in pass.left, NEW pc \in {"write", "alert"}, pass' = Holding(pc, x)
    PROVE  PassMoves(x) /\ pass'.pc = pc
BY DEF Holding, PassMoves

LEMMA PassIsTyped ==
    ASSUME ArticlesTyped, NEW x \in pass.left, PassMoves(x)
    PROVE  /\ pass'.pc \in {"idle", "next", "write", "alert"} /\ pass'.left \subseteq DueRow
           /\ pass'.pc = "idle" => pass'.left = {}
           /\ pass'.pc \in {"write", "alert"} => pass'.now \in pass'.left
BY DEF ArticlesTyped, PassMoves

\* The other stories on the list stay as they are.
LEMMA OthersInPass ==
    ASSUME ArticlesTyped, NEW s, StoryIsRight(s), NEW x \in pass.left, x.id # s, PassMoves(x),
           pass.pc = "next" \/ pass.now = x, desk' = desk,
           story'[s] = story[s], attached'[s] = attached[s], licensed \subseteq licensed',
           s \in alerted => s \in alerted', s \in withdrawn' => s \in withdrawn, s \in news' => s \in news
    PROVE  StoryIsRight(s)'
<1>1. \A d \in Desk : (Holds(d, s)' <=> Holds(d, s)) /\ (Holds(d, s) => desk'[d] = desk[d])
  BY DEF Holds
<1>2. \A y : y \in pass'.left /\ y.id = s <=> y \in pass.left /\ y.id = s
  BY DEF PassMoves
<1>3. ASSUME NEW y \in pass.left, y.id = s
      PROVE  ~Now("write", y) /\ ~Now("alert", y) /\ ~Now("write", y)' /\ ~Now("alert", y)'
  <2>1. y # x
    BY <1>3
  <2>2. ~Now("write", y) /\ ~Now("alert", y)
    BY <2>1 DEF Now
  <2>3. ~Now("write", y)' /\ ~Now("alert", y)'
    BY <2>1 DEF Now, PassMoves
  <2>4. QED
    BY <2>2, <2>3
<1>4. QED
  BY <1>1, <1>2, <1>3, OthersStay

\* The story the pass is at.
LEMMA PassSettles ==
    ASSUME ArticlesTyped, NEW s, StoryIsRight(s), NEW x \in pass.left, x.id = s, PassMoves(x), desk' = desk,
           pass'.pc \in {"write", "alert"} => DueIsRight(s, x)',
           attached'[s] = story'[s].body,
           story'[s].status = "PUBLISHED" => story'[s].body \subseteq licensed' /\ s \notin withdrawn',
           story'[s].status = "SCHEDULED" => s \notin withdrawn',
           s \in news' => s \in alerted' \/ (pass'.pc = "alert" /\ story'[s].isBreaking)
    PROVE  StoryIsRight(s)'
<1>1. \A d \in Desk : ~Holds(d, s)'
  BY DEF StoryIsRight, InOneHand, Holds
<1>2. \A y \in pass'.left : y.id = s => y = x /\ pass'.pc \in {"write", "alert"} /\ pass'.now = x
  BY DEF StoryIsRight, InOneHand, PassMoves
<1>3. InOneHand(s)'
  BY <1>1, <1>2 DEF InOneHand
<1>4. pass'.pc = "alert" => ToAlert(s)'
  BY DEF ToAlert, PassMoves, Now
<1>5. QED
  BY <1>1, <1>2, <1>3, <1>4 DEF StoryIsRight

\* A story on the list is in no other hand.
LEMMA DueIsAlone ==
    ASSUME ArticlesTyped, NEW s, StoryIsRight(s), NEW x \in pass.left, x.id = s
    PROVE  /\ DueIsRight(s, x) /\ attached[s] = story[s].body
           /\ s \in news => s \in alerted \/ (Now("alert", x) /\ story[s].isBreaking)
           /\ story[s].status = "PUBLISHED" => story[s].body \subseteq licensed /\ s \notin withdrawn
           /\ story[s].status = "SCHEDULED" => s \notin withdrawn
<1>1. (\A d \in Desk : ~Holds(d, s)) /\ (\A y \in pass.left : y.id = s => y = x)
  BY DEF StoryIsRight, InOneHand
<1>2. QED
  BY <1>1 DEF StoryIsRight, ToAlert

LEMMA CheckDueRightsKeeps ==
    ASSUME ArticlesInv, CheckDueRights
    PROVE  ArticlesInv'
<1>1. ArticlesTyped /\ (\A x \in Story \ raced : StoryIsRight(x)) /\ pass.pc = "next"
  BY DEF ArticlesInv, CheckDueRights
<1>2. PICK x \in pass.left : pass' = IF Blocked(x.body) THEN Through(x) ELSE Holding("write", x)
  BY DEF CheckDueRights
<1>3. UNCHANGED <<story, attached, licensed, alerted, desk, quiet, withdrawn, raced, news>>
  BY DEF CheckDueRights, SchedulerOnly
<1>4. PassMoves(x) /\ (pass'.pc \in {"write", "alert"} => pass'.pc = "write" /\ x.body \subseteq licensed)
  <2>1. CASE Blocked(x.body)
    BY <1>2, <2>1, ThroughMoves
  <2>2. CASE ~Blocked(x.body)
    BY <1>2, <2>2, HoldingMoves DEF Blocked
  <2>3. QED
    BY <2>1, <2>2
<1>5. ArticlesTyped'
  BY <1>1, <1>3, <1>4, PassIsTyped DEF ArticlesTyped, DeskRow
<1>6. ASSUME NEW s \in Story \ raced' PROVE StoryIsRight(s)'
  <2>1. StoryIsRight(s)
    BY <1>1, <1>3
  <2>2. CASE x.id # s
    BY <1>1, <1>3, <1>4, <2>1, <2>2, OthersInPass
  <2>3. CASE x.id = s
    <3>1. /\ DueIsRight(s, x) /\ attached[s] = story[s].body
          /\ s \in news => s \in alerted \/ Now("alert", x)
          /\ story[s].status = "PUBLISHED" => story[s].body \subseteq licensed /\ s \notin withdrawn
          /\ story[s].status = "SCHEDULED" => s \notin withdrawn
      BY <1>1, <2>1, <2>3, DueIsAlone
    <3>2. ~Now("alert", x)
      BY <1>1 DEF Now
    <3>3. pass'.pc \in {"write", "alert"} => DueIsRight(s, x)'
      BY <1>3, <1>4, <3>1, <3>2 DEF DueIsRight, Now
    <3>4. QED
      BY <1>1, <1>3, <1>4, <2>1, <2>3, <3>1, <3>2, <3>3, PassSettles
  <2>4. QED
    BY <2>2, <2>3
<1>7. QED
  BY <1>5, <1>6 DEF ArticlesInv

LEMMA AlertDueKeeps ==
    ASSUME ArticlesInv, AlertDue
    PROVE  ArticlesInv'
<1>1. ArticlesTyped /\ (\A x \in Story \ raced : StoryIsRight(x)) /\ pass.pc = "alert"
  BY DEF ArticlesInv, AlertDue
<1>2. PICK x : x = pass.now
  OBVIOUS
<1>3. x \in pass.left /\ x.id \in Story
  BY <1>1, <1>2 DEF ArticlesTyped, DueRow
<1>4. /\ UNCHANGED <<story, attached, licensed, desk, quiet, withdrawn, raced, news>>
      /\ alerted' = IF story[x.id].status = "PUBLISHED" /\ story[x.id].isBreaking
                    THEN alerted \cup {x.id} ELSE alerted
  BY <1>2 DEF AlertDue, SchedulerOnly, Alert
<1>5. PassMoves(x) /\ pass'.pc \in {"idle", "next"}
  BY <1>2, <1>3, ThroughMoves DEF AlertDue
<1>6. ArticlesTyped'
  BY <1>1, <1>3, <1>4, <1>5, PassIsTyped DEF ArticlesTyped, DeskRow
<1>7. ASSUME NEW s \in Story \ raced' PROVE StoryIsRight(s)'
  <2>1. StoryIsRight(s)
    BY <1>1, <1>4
  <2>2. CASE x.id # s
    <3>1. s \in alerted => s \in alerted'
      BY <1>4
    <3>2. QED
      BY <1>1, <1>2, <1>3, <1>4, <1>5, <2>1, <2>2, <3>1, OthersInPass
  <2>3. CASE x.id = s
    <3>1. /\ DueIsRight(s, x) /\ attached[s] = story[s].body
          /\ s \in news => s \in alerted \/ story[s].isBreaking
          /\ story[s].status = "PUBLISHED" => story[s].body \subseteq licensed /\ s \notin withdrawn
          /\ story[s].status = "SCHEDULED" => s \notin withdrawn
      BY <1>1, <1>3, <2>1, <2>3, DueIsAlone
    <3>2. story[s].status = "PUBLISHED"
      BY <1>1, <1>2, <3>1 DEF Now, DueIsRight
    <3>3. s \in news' => s \in alerted'
      BY <1>4, <2>3, <3>1, <3>2
    <3>5. pass'.pc \notin {"write", "alert"}
      BY <1>5
    <3>4. QED
      BY <1>1, <1>3, <1>4, <1>5, <2>1, <2>3, <3>1, <3>3, <3>5, PassSettles
  <2>4. QED
    BY <2>2, <2>3
<1>8. QED
  BY <1>6, <1>7 DEF ArticlesInv

LEMMA WriteDueKeeps ==
    ASSUME ArticlesInv, WriteDue
    PROVE  ArticlesInv'
<1>1. ArticlesTyped /\ (\A x \in Story \ raced : StoryIsRight(x)) /\ pass.pc = "write"
  BY DEF ArticlesInv, WriteDue
<1>0. ArticlesTyped
  BY <1>1
<1>2. PICK x : x = pass.now
  OBVIOUS
<1>3. x \in pass.left /\ x.id \in Story
  BY <1>1, <1>2 DEF ArticlesTyped, DueRow
<1>4. PICK row : row = story[x.id]
  OBVIOUS
<1>5. PICK new : new = [status |-> "PUBLISHED", scheduledFor |-> "none", body |-> row.body,
                        isBreaking |-> row.isBreaking]
  OBVIOUS
<1>6. row = [status |-> row.status, scheduledFor |-> row.scheduledFor, body |-> row.body,
             isBreaking |-> row.isBreaking]
  BY <1>0, <1>3, <1>4, StoryFields
<1>7. story' = [story EXCEPT ![x.id] = new]
  <2>1. PICK up : up = [row EXCEPT !.status = "PUBLISHED"]
    OBVIOUS
  <2>2. PICK off : off = [up EXCEPT !.scheduledFor = "none"]
    OBVIOUS
  <2>3. up = [status |-> "PUBLISHED", scheduledFor |-> row.scheduledFor, body |-> row.body,
              isBreaking |-> row.isBreaking]
    BY <1>6, <2>1
  <2>4. off = new
    BY <1>5, <2>2, <2>3
  <2>5. story' = [[story EXCEPT ![x.id].status = "PUBLISHED"] EXCEPT ![x.id].scheduledFor = "none"]
    BY <1>2 DEF WriteDue
  <2>6. PICK first : first = [story EXCEPT ![x.id].status = "PUBLISHED"]
    OBVIOUS
  <2>7. first = [story EXCEPT ![x.id] = up]
    BY <1>4, <2>1, <2>6
  <2>8. story' = [first EXCEPT ![x.id].scheduledFor = "none"]
    BY <2>5, <2>6
  <2>9. first[x.id] = up
    BY <1>0, <1>3, <2>7 DEF ArticlesTyped
  <2>10. story' = [first EXCEPT ![x.id] = off]
    BY <2>2, <2>8, <2>9
  <2>11. QED
    BY <2>4, <2>7, <2>10
<1>8. /\ UNCHANGED <<attached, licensed, alerted, desk, quiet, withdrawn, raced>>
      /\ news' = IF row.isBreaking THEN news \cup {x.id} ELSE news
      /\ pass' = IF x.isBreaking THEN Holding("alert", x) ELSE Through(x)
  BY <1>2, <1>4 DEF WriteDue, SchedulerOnly, GoesUp
<1>9. PassMoves(x) /\ (pass'.pc \in {"write", "alert"} <=> x.isBreaking) /\ (x.isBreaking => pass'.pc = "alert")
  <2>1. CASE x.isBreaking
    BY <1>3, <1>8, <2>1, HoldingMoves
  <2>2. CASE ~x.isBreaking
    BY <1>3, <1>8, <2>2, ThroughMoves
  <2>3. QED
    BY <2>1, <2>2
<1>10. /\ new = [status |-> new.status, scheduledFor |-> new.scheduledFor, body |-> new.body,
                isBreaking |-> new.isBreaking]
       /\ new.status = "PUBLISHED" /\ new.scheduledFor = "none"
       /\ new.body = row.body /\ new.isBreaking = row.isBreaking
  BY <1>5
<1>11. new.status \in Status /\ new.scheduledFor \in Times
  BY <1>10 DEF Status, Times
<1>12. story' \in [Story -> StoryRow] /\ story'[x.id] = new /\ \A s \in Story : s # x.id => story'[s] = story[s]
  BY <1>0, <1>3, <1>4, <1>7, <1>10, <1>11, StatusIsWritten
<1>13. ArticlesTyped'
  BY <1>1, <1>3, <1>8, <1>9, <1>12, PassIsTyped DEF ArticlesTyped, DeskRow
<1>14. ASSUME NEW s \in Story \ raced' PROVE StoryIsRight(s)'
  <2>1. StoryIsRight(s)
    BY <1>1, <1>8
  <2>2. CASE x.id # s
    <3>1. story'[s] = story[s] /\ (s \in news' => s \in news)
      BY <1>8, <1>12, <2>2
    <3>2. QED
      BY <1>1, <1>2, <1>3, <1>8, <1>9, <2>1, <2>2, <3>1, OthersInPass
  <2>3. CASE x.id = s
    <3>1. /\ DueIsRight(s, x) /\ attached[s] = story[s].body
          /\ s \in news => s \in alerted \/ Now("alert", x)
          /\ story[s].status = "SCHEDULED" => s \notin withdrawn
      BY <1>1, <1>3, <2>1, <2>3, DueIsAlone
    <3>2. ~Now("alert", x) /\ Now("write", x)
      BY <1>1, <1>2 DEF Now
    <3>3. story[s].status = "SCHEDULED" /\ x.body = row.body /\ x.isBreaking = row.isBreaking
          /\ x.body \subseteq licensed
      BY <1>4, <2>3, <3>1, <3>2 DEF DueIsRight
    <3>4. story'[s].status = "PUBLISHED" /\ story'[s].body = x.body /\ story'[s].isBreaking = x.isBreaking
      BY <1>10, <1>12, <2>3, <3>3
    <3>5. pass'.pc \in {"write", "alert"} => DueIsRight(s, x)'
      BY <1>8, <1>9, <3>3, <3>4 DEF DueIsRight, PassMoves, Now
    <3>6. s \in news' => s \in alerted' \/ (pass'.pc = "alert" /\ story'[s].isBreaking)
      BY <1>8, <1>9, <3>1, <3>2, <3>3, <3>4
    <3>7. attached'[s] = story'[s].body /\ s \notin withdrawn'
          /\ story'[s].body \subseteq licensed'
      BY <1>4, <1>8, <2>3, <3>1, <3>3, <3>4
    <3>8. QED
      BY <1>1, <1>3, <1>8, <1>9, <2>1, <2>3, <3>5, <3>6, <3>7, PassSettles
  <2>4. QED
    BY <2>2, <2>3
<1>15. QED
  BY <1>13, <1>14 DEF ArticlesInv

LEMMA ArticlesInitRight ==
    ASSUME ArticlesInit
    PROVE  ArticlesInv
<1>1. story \in [Story -> StoryRow]
  <2>1. NoStory \in StoryRow
    BY DEF NoStory, StoryRow, Status, Times
  <2>2. FirstDrafts \subseteq StoryRow
    BY DEF FirstDrafts, StoryRow, Status, Times
  <2>3. QED
    BY <2>1, <2>2 DEF ArticlesInit
<1>2. \A s \in Story : story[s].status # "PUBLISHED" /\ story[s].status # "SCHEDULED"
  <2>1. NoStory.status = "absent" /\ \A r \in FirstDrafts : r.status = "DRAFT"
    BY DEF NoStory, FirstDrafts
  <2>2. QED
    BY <2>1 DEF ArticlesInit
<1>3. pass.pc = "idle" /\ pass.left = {}
  BY DEF ArticlesInit, NoPass
<1>4. (\A d \in Desk : desk[d] = NoRequest) /\ desk = [d \in Desk |-> desk[d]]
  BY DEF ArticlesInit
<1>5. attached \in [Story -> SUBSET MediaFile] /\ \A s \in Story : attached[s] = story[s].body
  BY <1>1 DEF ArticlesInit, StoryRow
<1>6. ArticlesTyped
  BY <1>1, <1>3, <1>4, <1>5 DEF ArticlesInit, ArticlesTyped
<1>7. ASSUME NEW s \in Story PROVE StoryIsRight(s)
  BY <1>2, <1>3, <1>4, <1>5 DEF ArticlesInit, StoryIsRight, InOneHand, Holds
<1>8. QED
  BY <1>6, <1>7 DEF ArticlesInv

LEMMA ArticlesStep ==
    ASSUME ArticlesInv, [ArticlesNext]_articleVars
    PROVE  ArticlesInv'
<1>1. ASSUME NEW d \in Desk, DeskStep(d) PROVE ArticlesInv'
  BY <1>1, CheckSavedRightsKeeps, WriteSavedKeeps, LinkSavedKeeps, CheckPublishedRightsKeeps,
     LinkPublishedKeeps, WritePublishedKeeps, AlertPublishedKeeps, WithdrawKeeps DEF DeskStep
<1>2. ASSUME PassStep PROVE ArticlesInv'
  BY <1>2, CheckDueRightsKeeps, WriteDueKeeps, AlertDueKeeps DEF PassStep
<1>3. ASSUME UNCHANGED articleVars PROVE ArticlesInv'
  <2>1. UNCHANGED <<story, attached, licensed, alerted, desk, pass, quiet, withdrawn, raced, news>>
    BY <1>3 DEF articleVars
  <2>2. ArticlesTyped'
    BY <2>1 DEF ArticlesInv, ArticlesTyped, DeskRow
  <2>3. ASSUME NEW s \in Story \ raced' PROVE StoryIsRight(s)'
    <3>1. StoryIsRight(s)
      BY <2>1 DEF ArticlesInv
    <3>2. QED
      BY <2>1, <3>1, NobodyMoves, OthersStay
  <2>4. QED
    BY <2>2, <2>3 DEF ArticlesInv
<1>4. QED
  BY <1>1, <1>2, <1>3, AsksKeep, SetMediaRightsKeeps, VisitKeeps, MinutePassesKeeps, PassThrowsKeeps,
     RestartKeeps, TimeComesKeeps DEF ArticlesNext

LEMMA ArticlesInvImplies ==
    ASSUME ArticlesInv
    PROVE  ArticlesTypeOK /\ WithdrawnStaysWithdrawn /\ PublicFilesAreCleared /\ NewsIsAnnounced
<1>1. ArticlesTyped /\ \A s \in Story \ raced : StoryIsRight(s)
  BY DEF ArticlesInv
<1>2. ArticlesTypeOK
  <2>1. \A d \in Desk : desk[d] = NoRequest \/ desk[d].id \in Story
    BY <1>1 DEF ArticlesTyped, DeskRow
  <2>2. {d.id : d \in pass.left} \subseteq Story
    BY <1>1 DEF ArticlesTyped, DueRow
  <2>3. QED
    BY <1>1, <2>1, <2>2 DEF ArticlesTyped, ArticlesTypeOK
<1>3. WithdrawnStaysWithdrawn
  BY <1>1 DEF WithdrawnStaysWithdrawn, StoryIsRight, ArticlesTyped
<1>4. ASSUME NEW s \in Story \ raced, s \notin InHand
      PROVE  attached[s] = story[s].body /\ (s \in news => s \in alerted)
  <2>1. (\A d \in Desk : ~Holds(d, s)) /\ (\A y \in pass.left : y.id # s)
    BY <1>1, <1>4, NotInHand
  <2>2. QED
    BY <1>1, <2>1, FreeIsRight
<1>5. PublicFilesAreCleared
  BY <1>1, <1>4 DEF PublicFilesAreCleared, StoryIsRight
<1>6. NewsIsAnnounced
  BY <1>1, <1>4 DEF NewsIsAnnounced, ArticlesTyped
<1>7. QED
  BY <1>2, <1>3, <1>5, <1>6

\* A story that no two requests raced for is in one hand at most, and what that
\* hand has read and checked still holds: what is public is licensed and was not
\* taken down, and breaking news is announced.
THEOREM ArticlesAreRight == ArticlesSpec => []ArticlesInv
<1>1. ArticlesInit => ArticlesInv
  BY ArticlesInitRight
<1>2. ArticlesInv /\ [ArticlesNext]_articleVars => ArticlesInv'
  BY ArticlesStep
<1>3. QED
  BY <1>1, <1>2, PTL DEF ArticlesSpec

---------------------------------------------------------------------------
(* Sources: rows in order, and pages fetched                             *)

\* A request as its fields hold it.
WorkRow(w) ==
    /\ w = [pc |-> w.pc, what |-> w.what, at |-> w.at, hop |-> w.hop, shown |-> w.shown]
    /\ w.pc \in {"idle", "number", "dial", "create", "remove"}
    /\ w.what \in Nat /\ w.hop \in 0..MaxRedirects
    /\ w.pc = "dial" => w.at \in Address /\ Fetchable(w.at)
    /\ sheet = "references" =>
           /\ w.pc # "dial"
           /\ w.pc \in {"create", "remove"} => w.at \in Nat

EntryRow(e) ==
    /\ e = [id |-> e.id, previewed |-> e.previewed, position |-> e.position]
    /\ e.id \in 1..asked /\ e.position \in Nat

SourcesTyped ==
    /\ sheet \in {"links", "references"} /\ asked \in 0..SourceBound /\ crossing \in BOOLEAN
    /\ reached \subseteq {"outside"}
    /\ task = [a \in Author |-> task[a]] /\ \A a \in Author : WorkRow(task[a])
    /\ \A a \in Author : task[a].pc \in {"number", "dial", "create"} => task[a].what \in 1..asked
    /\ IsFiniteSet(entries) /\ \A e \in entries : EntryRow(e)

Adders == {a \in Author : task[a].pc \in {"number", "dial", "create"}}
Numberers == {a \in Author : task[a].pc = "number"}

\* Every row was asked for: one by each number in use, and one by each to come.
NumbersAreAsked ==
    /\ Cardinality(Numberers) <= asked
    /\ \A e \in entries : e.position + Cardinality(Numberers) <= asked
    /\ sheet = "references" => \A a \in Author :
           task[a].pc = "create" => task[a].at + Cardinality(Numberers) <= asked

RoomIsKept == Cardinality(entries) + Cardinality(Adders) + 1 <= MaxSources + Cardinality(Author)

\* One request at a time.
OneAtATime ==
    /\ \A a \in Author, b \in Author : task[a].pc # "idle" /\ task[b].pc # "idle" => a = b
    /\ Cardinality(entries) <= MaxSources
    /\ Adders # {} => Cardinality(entries) < MaxSources
    /\ \A a \in Adders : \A e \in entries : e.id # task[a].what

\* Rows are told apart by what they are called and where they stand.
Distinct(E) == \A e \in E, f \in E : e.id = f.id \/ e.position = f.position => e = f

InOrder ==
    /\ Distinct(entries)
    /\ {e.position : e \in entries} = 1..Cardinality(entries)
    /\ \A a \in Author :
           /\ task[a].pc = "create" => task[a].at = Cardinality(entries) + 1
           /\ task[a].pc = "remove" =>
                  \E e \in entries : e.id = task[a].what /\ e.position = task[a].at

\* What holds of the rows, and of those a request is about to add or remove.
SourcesInv ==
    /\ SourcesTyped /\ NumbersAreAsked /\ RoomIsKept
    /\ ~crossing => OneAtATime
    /\ ~crossing /\ sheet = "references" => InOrder

\* How many there are when one comes or goes.
LEMMA OneMoreOrLess ==
    ASSUME NEW S, NEW T, NEW x, IsFiniteSet(S), \A y : y # x => (y \in S <=> y \in T)
    PROVE  /\ IsFiniteSet(T) /\ Cardinality(S) \in Nat /\ Cardinality(T) \in Nat
           /\ x \in S /\ x \in T => Cardinality(T) = Cardinality(S)
           /\ x \notin S /\ x \notin T => Cardinality(T) = Cardinality(S)
           /\ x \in S /\ x \notin T => Cardinality(T) = Cardinality(S) - 1
           /\ x \notin S /\ x \in T => Cardinality(T) = Cardinality(S) + 1
<1>1. /\ x \in S /\ x \in T => T = S
      /\ x \notin S /\ x \notin T => T = S
      /\ x \in S /\ x \notin T => T = S \ {x}
      /\ x \notin S /\ x \in T => T = S \cup {x}
  OBVIOUS
<1>2. /\ IsFiniteSet(S \ {x}) /\ IsFiniteSet(S \cup {x})
      /\ x \in S => Cardinality(S \ {x}) = Cardinality(S) - 1
      /\ x \notin S => Cardinality(S \cup {x}) = Cardinality(S) + 1
  BY FS_RemoveElement, FS_AddElement
<1>3. IsFiniteSet(T)
  BY <1>1, <1>2
<1>4. Cardinality(S) \in Nat /\ Cardinality(T) \in Nat
  BY <1>3, FS_CardinalityType
<1>5. QED
  BY <1>1, <1>2, <1>3, <1>4

LEMMA TaskMoves ==
    ASSUME SourcesTyped, NEW a \in Author, NEW w, task' = [task EXCEPT ![a] = w]
    PROVE  /\ task' = [b \in Author |-> task'[b]]
           /\ task'[a] = w /\ \A b \in Author : b # a => task'[b] = task[b]
BY DEF SourcesTyped

LEMMA Counting ==
    ASSUME SourcesTyped, NEW a \in Author, NEW w, task' = [task EXCEPT ![a] = w]
    PROVE  /\ IsFiniteSet(Adders) /\ IsFiniteSet(Numberers)
           /\ \A b : b # a => (b \in Adders <=> b \in Adders') /\ (b \in Numberers <=> b \in Numberers')
           /\ a \in Adders' <=> w.pc \in {"number", "dial", "create"}
           /\ a \in Numberers' <=> w.pc = "number"
           /\ a \in Adders <=> task[a].pc \in {"number", "dial", "create"}
           /\ a \in Numberers <=> task[a].pc = "number"
           /\ Cardinality(Adders) \in Nat /\ Cardinality(Numberers) \in Nat
<1>1. Adders \in SUBSET Author /\ Numberers \in SUBSET Author
  BY DEF Adders, Numberers
<1>2. IsFiniteSet(Adders) /\ IsFiniteSet(Numberers)
  BY <1>1, SourcesAssumption, FS_Subset
<1>3. QED
  BY <1>2, TaskMoves, FS_CardinalityType DEF Adders, Numberers

\* The last position is one in use, and none is beyond it.
LEMMA LastIsLast ==
    ASSUME SourcesTyped, NumbersAreAsked
    PROVE  /\ LastPosition \in Nat
           /\ entries # {} => \E e \in entries : e.position = LastPosition
           /\ \A e \in entries : e.position <= LastPosition
<1>1. CASE entries = {}
  BY <1>1 DEF LastPosition
<1>2. CASE entries # {}
  <2>1. PICK P : P = {e.position : e \in entries}
    OBVIOUS
  <2>2. P \subseteq Nat /\ P # {}
    BY <1>2, <2>1 DEF SourcesTyped, EntryRow
  <2>3. Cardinality(Numberers) \in Nat /\ asked \in Nat
    <3>1. Numberers \in SUBSET Author
      BY DEF Numberers
    <3>2. QED
      BY <3>1, SourcesAssumption, FS_Subset, FS_CardinalityType DEF SourcesTyped
  <2>4. \A e \in entries : e.position <= asked
    BY <2>3 DEF NumbersAreAsked, SourcesTyped, EntryRow
  <2>5. \A p \in P : p <= asked
    BY <2>1, <2>4
  <2>6. \E n \in P : \A p \in P : p <= n
    BY <2>2, <2>3, <2>5, Greatest
  <2>7. LastPosition = CHOOSE n \in P : \A e \in entries : e.position <= n
    BY <1>2, <2>1 DEF LastPosition
  <2>8. \E n \in P : \A e \in entries : e.position <= n
    BY <2>1, <2>6
  <2>9. LastPosition \in P /\ \A e \in entries : e.position <= LastPosition
    BY <2>7, <2>8
  <2>10. QED
    BY <2>1, <2>2, <2>9
<1>3. QED
  BY <1>1, <1>2

LEMMA LastInOrder ==
    ASSUME SourcesTyped, NumbersAreAsked, InOrder
    PROVE  LastPosition = Cardinality(entries) /\ Cardinality(entries) \in Nat
<1>1. Cardinality(entries) \in Nat /\ (entries = {} <=> Cardinality(entries) = 0)
  BY FS_CardinalityType, FS_EmptySet DEF SourcesTyped
<1>2. CASE entries = {}
  BY <1>1, <1>2 DEF LastPosition
<1>3. CASE entries # {}
  <2>1. PICK n : n = Cardinality(entries)
    OBVIOUS
  <2>2. n \in {e.position : e \in entries}
    BY <1>1, <1>3, <2>1 DEF InOrder
  <2>3. PICK e \in entries : e.position = n
    BY <2>2
  <2>4. PICK f \in entries : f.position = LastPosition
    BY <1>3, LastIsLast
  <2>5. f.position \in 1..n
    BY <2>1 DEF InOrder
  <2>6. n <= LastPosition /\ LastPosition \in Nat
    BY <2>3, LastIsLast
  <2>7. QED
    BY <1>1, <2>1, <2>4, <2>5, <2>6
<1>4. QED
  BY <1>2, <1>3

\* A request under way goes on, and the list stays as it is.
LEMMA WorkGoesOn ==
    ASSUME SourcesInv, NEW a \in Author, NEW w, task' = [task EXCEPT ![a] = w], WorkRow(w),
           task[a].pc \in {"number", "dial"}, w.what = task[a].what,
           task[a].pc = "dial" => w.pc \in {"dial", "create"},
           task[a].pc = "number" => w.pc = "create" /\ w.at = LastPosition + 1,
           UNCHANGED <<sheet, entries, asked, crossing>>, reached' \subseteq {"outside"}
    PROVE  SourcesInv'
<1>1. SourcesTyped /\ NumbersAreAsked /\ RoomIsKept
  BY DEF SourcesInv
<1>2. /\ task' = [b \in Author |-> task'[b]]
      /\ task'[a] = w /\ \A b \in Author : b # a => task'[b] = task[b]
  BY <1>1, TaskMoves
<1>3. WorkRow(task[a])
  BY <1>1 DEF SourcesTyped
<1>4. Adders' = Adders /\ a \in Adders
  <2>1. a \in Adders
    BY <1>1, Counting
  <2>2. w.pc \in {"number", "dial", "create"}
    OBVIOUS
  <2>3. a \in Adders'
    BY <1>1, <2>2, Counting
  <2>4. \A b : b # a => (b \in Adders <=> b \in Adders')
    BY <1>1, Counting
  <2>5. QED
    BY <2>1, <2>3, <2>4
<1>5. Cardinality(Numberers') = IF task[a].pc = "number" THEN Cardinality(Numberers) - 1
                                ELSE Cardinality(Numberers)
  BY <1>1, Counting, OneMoreOrLess
<1>6. Cardinality(Numberers) \in Nat /\ asked \in Nat
  <2>1. Cardinality(Numberers) \in Nat
    BY <1>1, Counting
  <2>2. asked \in Nat
    BY <1>1, SourcesAssumption DEF SourcesTyped
  <2>3. QED
    BY <2>1, <2>2
<1>7. SourcesTyped'
  <2>1. ASSUME NEW b \in Author PROVE WorkRow(task[b])'
    <3>1. CASE b = a
      BY <1>2, <3>1 DEF WorkRow
    <3>2. CASE b # a
      <4>1. WorkRow(task[b]) /\ task'[b] = task[b]
        BY <1>1, <1>2, <3>2 DEF SourcesTyped
      <4>2. QED
        BY <4>1 DEF WorkRow
    <3>3. QED
      BY <3>1, <3>2
  <2>3. \A b \in Author : task'[b].pc \in {"number", "dial", "create"} => task'[b].what \in 1..asked
    BY <1>1, <1>2 DEF SourcesTyped
  <2>4. \A e \in entries' : EntryRow(e)'
    BY <1>1 DEF SourcesTyped, EntryRow
  <2>5. QED
    BY <1>1, <1>2, <2>1, <2>3, <2>4 DEF SourcesTyped
<1>8. NumbersAreAsked'
  <2>1. CASE task[a].pc = "number"
    <3>1. Cardinality(Numberers') = Cardinality(Numberers) - 1
      BY <1>5, <2>1
    <3>2. Cardinality(Numberers) <= asked
      BY <1>1 DEF NumbersAreAsked
    <3>3. ASSUME NEW e \in entries PROVE e.position + (Cardinality(Numberers) - 1) <= asked
      <4>1. e.position \in Nat /\ e.position + Cardinality(Numberers) <= asked
        BY <1>1 DEF NumbersAreAsked, SourcesTyped, EntryRow
      <4>2. QED
        BY <1>6, <4>1
    <3>4. w.at + (Cardinality(Numberers) - 1) <= asked
      <4>1. w.at = LastPosition + 1 /\ LastPosition \in Nat
        BY <1>1, <2>1, LastIsLast
      <4>2. LastPosition + Cardinality(Numberers) <= asked
        <5>1. CASE entries = {}
          BY <1>6, <3>2, <5>1 DEF LastPosition
        <5>2. CASE entries # {}
          BY <1>1, <5>2, LastIsLast DEF NumbersAreAsked
        <5>3. QED
          BY <5>1, <5>2
      <4>3. QED
        BY <1>6, <4>1, <4>2
    <3>5. ASSUME NEW b \in Author, b # a, sheet = "references", task[b].pc = "create"
          PROVE  task[b].at + (Cardinality(Numberers) - 1) <= asked
      <4>1. task[b].at \in Nat /\ task[b].at + Cardinality(Numberers) <= asked
        BY <1>1, <3>5 DEF NumbersAreAsked, SourcesTyped, WorkRow
      <4>2. QED
        BY <1>6, <4>1
    <3>6. Cardinality(Numberers) - 1 <= asked
      BY <1>6, <3>2
    <3>7. QED
      BY <1>2, <3>1, <3>3, <3>4, <3>5, <3>6 DEF NumbersAreAsked
  <2>2. CASE task[a].pc = "dial"
    <3>1. Cardinality(Numberers') = Cardinality(Numberers) /\ sheet # "references"
      BY <1>3, <1>5, <2>2 DEF WorkRow
    <3>2. QED
      BY <1>1, <3>1 DEF NumbersAreAsked
  <2>3. QED
    BY <2>1, <2>2
<1>9. RoomIsKept'
  BY <1>1, <1>4 DEF RoomIsKept
<1>10. ASSUME ~crossing PROVE OneAtATime'
  <2>1. OneAtATime
    BY <1>10 DEF SourcesInv
  <2>2. w.pc # "idle" /\ task[a].pc # "idle"
    OBVIOUS
  <2>3. \A b \in Author : task'[b].pc # "idle" <=> task[b].pc # "idle"
    BY <1>2, <2>2
  <2>4. \A b \in Adders : task'[b].what = task[b].what
    BY <1>2, <1>4 DEF Adders
  <2>5. QED
    BY <1>4, <2>1, <2>3, <2>4 DEF OneAtATime
<1>11. ASSUME ~crossing, sheet = "references" PROVE InOrder'
  <2>1. OneAtATime /\ InOrder
    BY <1>11 DEF SourcesInv
  <2>2. task[a].pc = "number"
    BY <1>3, <1>11 DEF WorkRow
  <2>3. w.pc = "create" /\ w.at = Cardinality(entries) + 1
    BY <1>1, <2>1, <2>2, LastInOrder
  <2>4. \A b \in Author : b # a => task'[b].pc = "idle"
    BY <1>2, <2>1, <2>2 DEF OneAtATime
  <2>5. \A b \in Author : /\ task'[b].pc = "create" => task'[b].at = Cardinality(entries) + 1
                          /\ task'[b].pc # "remove"
    BY <1>2, <2>3, <2>4
  <2>6. QED
    BY <2>1, <2>5 DEF InOrder, Distinct
<1>12. QED
  BY <1>7, <1>8, <1>9, <1>10, <1>11 DEF SourcesInv

LEMMA FetchEndsKeeps ==
    ASSUME SourcesInv, NEW a \in Author, FetchEnds(a)
    PROVE  SourcesInv'
<1>1. SourcesTyped /\ task[a].pc = "dial"
  BY DEF SourcesInv, FetchEnds
<1>2. WorkRow(task[a])
  BY <1>1 DEF SourcesTyped
<1>3. PICK answers \in LookUps(task[a].at), read \in BOOLEAN :
          LET open == Connects(task[a].at, answers) IN
          /\ Set(a, [task[a] EXCEPT !.pc = "create", !.shown = open /\ read])
          /\ reached' = reached \cup IF open THEN answers ELSE {}
  BY DEF FetchEnds
<1>4. PICK shown : shown = (Connects(task[a].at, answers) /\ read)
  OBVIOUS
<1>5. PICK was : was = task[a]
  OBVIOUS
<1>6. PICK w : w = [was EXCEPT !.pc = "create", !.shown = shown]
  OBVIOUS
<1>7. was = [pc |-> was.pc, what |-> was.what, at |-> was.at, hop |-> was.hop, shown |-> was.shown]
  BY <1>2, <1>5 DEF WorkRow
<1>8. w = [pc |-> "create", what |-> was.what, at |-> was.at, hop |-> was.hop, shown |-> shown]
  BY <1>6, <1>7
<1>9. w = [pc |-> w.pc, what |-> w.what, at |-> w.at, hop |-> w.hop, shown |-> w.shown]
      /\ w.pc = "create" /\ w.what = was.what /\ w.hop = was.hop
  BY <1>8
<1>10. WorkRow(w)
  BY <1>1, <1>2, <1>5, <1>9 DEF WorkRow
<1>11. task' = [task EXCEPT ![a] = w] /\ UNCHANGED <<sheet, entries, asked, crossing>>
  BY <1>3, <1>4, <1>5, <1>6 DEF FetchEnds, Set
<1>12. reached' \subseteq {"outside"}
  <2>1. Fetchable(task[a].at) /\ task[a].at \in Address
    BY <1>1, <1>2 DEF WorkRow
  <2>2. Connects(task[a].at, answers) => answers \subseteq {"outside"}
    BY <1>3, <2>1 DEF Connects, LookUps, Fetchable, Places, Address
  <2>3. QED
    BY <1>1, <1>3, <2>2 DEF SourcesTyped
<1>13. QED
  BY <1>1, <1>5, <1>9, <1>10, <1>11, <1>12, WorkGoesOn

LEMMA FetchRedirectedKeeps ==
    ASSUME SourcesInv, NEW a \in Author, FetchRedirected(a)
    PROVE  SourcesInv'
<1>1. SourcesTyped /\ task[a].pc = "dial"
  BY DEF SourcesInv, FetchRedirected
<1>2. WorkRow(task[a])
  BY <1>1 DEF SourcesTyped
<1>3. PICK answers \in LookUps(task[a].at) :
          Connects(task[a].at, answers) /\ reached' = reached \cup answers
  BY DEF FetchRedirected
<1>4. PICK u \in Address : Set(a, Follow(a, u))
  BY DEF FetchRedirected
<1>5. PICK was : was = task[a]
  OBVIOUS
<1>6. PICK w : w = Follow(a, u)
  OBVIOUS
<1>7. was = [pc |-> was.pc, what |-> was.what, at |-> was.at, hop |-> was.hop, shown |-> was.shown]
  BY <1>2, <1>5 DEF WorkRow
<1>10. WorkRow(w) /\ w.pc \in {"dial", "create"} /\ w.what = was.what
  <2>1. CASE was.hop = MaxRedirects \/ ~Fetchable(u)
    <3>1. w = [was EXCEPT !.pc = "create"]
      BY <1>5, <1>6, <2>1 DEF Follow
    <3>2. w = [pc |-> "create", what |-> was.what, at |-> was.at, hop |-> was.hop, shown |-> was.shown]
      BY <1>7, <3>1
    <3>3. w = [pc |-> w.pc, what |-> w.what, at |-> w.at, hop |-> w.hop, shown |-> w.shown]
          /\ w.pc = "create" /\ w.what = was.what /\ w.hop = was.hop
      BY <3>2
    <3>4. WorkRow(w)
      BY <1>1, <1>2, <1>5, <3>3 DEF WorkRow
    <3>5. QED
      BY <3>3, <3>4
  <2>2. CASE ~(was.hop = MaxRedirects \/ ~Fetchable(u))
    <3>1. w = [was EXCEPT !.at = u, !.hop = was.hop + 1]
      BY <1>5, <1>6, <2>2 DEF Follow
    <3>2. w = [pc |-> was.pc, what |-> was.what, at |-> u, hop |-> was.hop + 1, shown |-> was.shown]
      BY <1>7, <3>1
    <3>3. w = [pc |-> w.pc, what |-> w.what, at |-> w.at, hop |-> w.hop, shown |-> w.shown]
          /\ w.pc = was.pc /\ w.what = was.what /\ w.hop = was.hop + 1 /\ w.at = u
      BY <3>2
    <3>4. was.hop \in 0..MaxRedirects
      BY <1>2, <1>5 DEF WorkRow
    <3>5. w.hop \in 0..MaxRedirects
      BY <2>2, <3>3, <3>4, SourcesAssumption
    <3>6. w.pc = "dial"
      BY <1>1, <1>5, <3>3
    <3>7. WorkRow(w)
      BY <1>1, <1>2, <1>5, <2>2, <3>3, <3>5, <3>6 DEF WorkRow
    <3>8. QED
      BY <3>3, <3>6, <3>7
  <2>3. QED
    BY <2>1, <2>2
<1>11. task' = [task EXCEPT ![a] = w] /\ UNCHANGED <<sheet, entries, asked, crossing>>
  BY <1>4, <1>6 DEF FetchRedirected, Set
<1>12. reached' \subseteq {"outside"}
  <2>1. Fetchable(task[a].at) /\ task[a].at \in Address
    BY <1>1, <1>2 DEF WorkRow
  <2>2. answers \subseteq {"outside"}
    BY <1>3, <2>1 DEF Connects, LookUps, Fetchable, Places, Address
  <2>3. QED
    BY <1>1, <1>3, <2>2 DEF SourcesTyped
<1>13. QED
  BY <1>1, <1>5, <1>10, <1>11, <1>12, WorkGoesOn

LEMMA ReadLastPositionKeeps ==
    ASSUME SourcesInv, NEW a \in Author, ReadLastPosition(a)
    PROVE  SourcesInv'
<1>1. SourcesTyped /\ NumbersAreAsked /\ task[a].pc = "number"
  BY DEF SourcesInv, ReadLastPosition
<1>2. WorkRow(task[a])
  BY <1>1 DEF SourcesTyped
<1>3. PICK was : was = task[a]
  OBVIOUS
<1>4. PICK n : n = LastPosition + 1
  OBVIOUS
<1>5. PICK w : w = [was EXCEPT !.pc = "create", !.at = n]
  OBVIOUS
<1>6. was = [pc |-> was.pc, what |-> was.what, at |-> was.at, hop |-> was.hop, shown |-> was.shown]
  BY <1>2, <1>3 DEF WorkRow
<1>7. w = [pc |-> "create", what |-> was.what, at |-> n, hop |-> was.hop, shown |-> was.shown]
  BY <1>5, <1>6
<1>8. w = [pc |-> w.pc, what |-> w.what, at |-> w.at, hop |-> w.hop, shown |-> w.shown]
      /\ w.pc = "create" /\ w.what = was.what /\ w.hop = was.hop /\ w.at = n
  BY <1>7
<1>9. n \in Nat
  BY <1>1, <1>4, LastIsLast
<1>10. WorkRow(w)
  BY <1>2, <1>3, <1>8, <1>9 DEF WorkRow
<1>11. task' = [task EXCEPT ![a] = w] /\ UNCHANGED <<sheet, entries, asked, crossing, reached>>
  BY <1>3, <1>4, <1>5 DEF ReadLastPosition, Set
<1>12. reached' \subseteq {"outside"}
  BY <1>1, <1>11 DEF SourcesTyped
<1>13. QED
  BY <1>1, <1>3, <1>4, <1>8, <1>10, <1>11, <1>12, WorkGoesOn
\* A request is let in: the bookkeeping that goes with it.
LEMMA WorkBegins ==
    ASSUME SourcesInv, NEW a \in Author, NEW w, Begin(a), Set(a, w), WorkRow(w), w.what \in Nat,
           UNCHANGED <<sheet, entries, reached>>,
           \/ /\ w.pc \in {"number", "dial", "create"} /\ w.what = asked + 1
              /\ Cardinality(entries) < MaxSources /\ (sheet = "references" => w.pc = "number")
           \/ /\ w.pc = "remove"
              /\ \E e \in entries : e.id = w.what /\ e.position = w.at
    PROVE  SourcesInv'
<1>1. SourcesTyped /\ NumbersAreAsked /\ RoomIsKept
  BY DEF SourcesInv
<1>2. task[a].pc = "idle" /\ asked' = asked + 1 /\ asked < SourceBound /\ task' = [task EXCEPT ![a] = w]
      /\ crossing' = (crossing \/ Working # {})
  BY DEF Begin, Set
<1>3. /\ task' = [b \in Author |-> task'[b]]
      /\ task'[a] = w /\ \A b \in Author : b # a => task'[b] = task[b]
  BY <1>1, <1>2, TaskMoves
<1>4. asked \in Nat /\ SourceBound \in Nat /\ asked' \in Nat
  BY <1>1, <1>2, SourcesAssumption DEF SourcesTyped
<1>5. Cardinality(Adders) \in Nat /\ Cardinality(Numberers) \in Nat /\ Cardinality(entries) \in Nat
  BY <1>1, <1>2, Counting, FS_CardinalityType DEF SourcesTyped
<1>6. Cardinality(Adders') = IF w.pc = "remove" THEN Cardinality(Adders) ELSE Cardinality(Adders) + 1
  <2>1. a \notin Adders /\ (a \in Adders' <=> w.pc # "remove")
    BY <1>1, <1>2, Counting
  <2>2. QED
    BY <1>1, <1>2, <2>1, Counting, OneMoreOrLess
<1>7. Cardinality(Numberers') \in Nat /\ Cardinality(Numberers') <= Cardinality(Numberers) + 1
  <2>1. a \notin Numberers
    BY <1>1, <1>2, Counting
  <2>2. PICK n : n = Cardinality(Numberers)
    OBVIOUS
  <2>3. PICK m : m = Cardinality(Numberers')
    OBVIOUS
  <2>4. m = n \/ m = n + 1
    BY <1>1, <1>2, <2>1, <2>2, <2>3, Counting, OneMoreOrLess
  <2>5. QED
    BY <1>5, <2>2, <2>3, <2>4
<1>8. SourcesTyped'
  <2>1. ASSUME NEW b \in Author PROVE WorkRow(task[b])'
    <3>1. CASE b = a
      BY <1>3, <3>1 DEF WorkRow
    <3>2. CASE b # a
      <4>1. WorkRow(task[b]) /\ task'[b] = task[b]
        BY <1>1, <1>3, <3>2 DEF SourcesTyped
      <4>2. QED
        BY <4>1 DEF WorkRow
    <3>3. QED
      BY <3>1, <3>2
  <2>2. ASSUME NEW b \in Author, task'[b].pc \in {"number", "dial", "create"} PROVE task'[b].what \in 1..asked'
    <3>1. CASE b = a
      BY <1>2, <1>3, <1>4, <2>2, <3>1
    <3>2. CASE b # a
      <4>1. task[b].what \in 1..asked
        BY <1>1, <1>3, <2>2, <3>2 DEF SourcesTyped
      <4>2. QED
        BY <1>2, <1>3, <1>4, <3>2, <4>1
    <3>3. QED
      BY <3>1, <3>2
  <2>3. ASSUME NEW e \in entries PROVE EntryRow(e)'
    <3>1. EntryRow(e)
      BY <1>1 DEF SourcesTyped
    <3>2. e.id \in 1..asked'
      BY <1>2, <1>4, <3>1 DEF EntryRow
    <3>3. QED
      BY <3>1, <3>2 DEF EntryRow
  <2>4. asked' \in 0..SourceBound /\ crossing' \in BOOLEAN
    BY <1>1, <1>2, <1>4 DEF SourcesTyped
  <2>5. QED
    BY <1>1, <1>3, <2>1, <2>2, <2>3, <2>4 DEF SourcesTyped
<1>9. NumbersAreAsked'
  <2>1. PICK n : n = Cardinality(Numberers)
    OBVIOUS
  <2>2. PICK m : m = Cardinality(Numberers')
    OBVIOUS
  <2>3. m <= n + 1 /\ m \in Nat /\ n \in Nat /\ n <= asked
    BY <1>1, <1>5, <1>7, <2>1, <2>2 DEF NumbersAreAsked
  <2>4. m <= asked'
    BY <1>2, <1>4, <2>3
  <2>5. ASSUME NEW e \in entries PROVE e.position + m <= asked'
    <3>1. e.position \in Nat /\ e.position + n <= asked
      BY <1>1, <2>1 DEF NumbersAreAsked, SourcesTyped, EntryRow
    <3>2. QED
      BY <1>2, <1>4, <2>3, <3>1
  <2>6. ASSUME NEW b \in Author, sheet = "references", task'[b].pc = "create"
        PROVE  task'[b].at + m <= asked'
    <3>1. b # a
      BY <1>3, <2>6
    <3>2. task[b].at \in Nat /\ task[b].at + n <= asked
      BY <1>1, <1>3, <2>1, <2>6, <3>1 DEF NumbersAreAsked, SourcesTyped, WorkRow
    <3>3. QED
      BY <1>2, <1>3, <1>4, <2>3, <3>1, <3>2
  <2>7. QED
    BY <2>2, <2>4, <2>5, <2>6 DEF NumbersAreAsked
<1>10. RoomIsKept'
  <2>1. Cardinality(Author) \in Nat /\ MaxSources \in Nat
    BY SourcesAssumption, FS_CardinalityType
  <2>2. CASE w.pc = "remove"
    BY <1>1, <1>6, <2>2 DEF RoomIsKept
  <2>3. CASE w.pc # "remove"
    <3>1. Cardinality(entries) < MaxSources
      BY <2>3
    <3>2. Adders \in SUBSET Author /\ a \notin Adders
      BY <1>2 DEF Adders
    <3>3. Cardinality(Adders) <= Cardinality(Author) /\ Adders # Author
      BY <3>2, SourcesAssumption, FS_Subset
    <3>4. Cardinality(Adders) # Cardinality(Author)
      BY <3>2, <3>3, SourcesAssumption, FS_Subset
    <3>5. Cardinality(Adders') = Cardinality(Adders) + 1
      BY <1>6, <2>3
    <3>6. Cardinality(entries) + (Cardinality(Adders) + 1) + 1 <= MaxSources + Cardinality(Author)
      BY <1>5, <2>1, <3>1, <3>3, <3>4
    <3>7. QED
      BY <3>5, <3>6 DEF RoomIsKept
  <2>4. QED
    BY <2>2, <2>3
<1>11. ASSUME ~crossing' PROVE OneAtATime'
  <2>1. OneAtATime /\ \A b \in Author : task[b].pc = "idle"
    BY <1>2, <1>11 DEF SourcesInv, Working
  <2>2. \A b \in Author : task'[b].pc # "idle" => b = a
    BY <1>3, <2>1
  <2>3. Adders' # {} => Cardinality(entries) < MaxSources
    BY <1>3, <2>2 DEF Adders
  <2>4. ASSUME NEW b \in Adders', NEW e \in entries PROVE e.id # task'[b].what
    <3>1. b = a /\ w.what = asked + 1
      BY <1>3, <2>2, <2>4 DEF Adders
    <3>2. e.id \in 1..asked
      BY <1>1 DEF SourcesTyped, EntryRow
    <3>3. QED
      BY <1>3, <1>4, <3>1, <3>2
  <2>5. QED
    BY <2>1, <2>2, <2>3, <2>4 DEF OneAtATime
<1>12. ASSUME ~crossing', sheet = "references" PROVE InOrder'
  <2>1. InOrder /\ \A b \in Author : task[b].pc = "idle"
    BY <1>2, <1>12 DEF SourcesInv, Working
  <2>2. \A b \in Author : b # a => task'[b].pc = "idle"
    BY <1>3, <2>1
  <2>3. w.pc # "create"
    BY <1>12
  <2>4. w.pc = "remove" => \E e \in entries : e.id = w.what /\ e.position = w.at
    OBVIOUS
  <2>5. QED
    BY <1>3, <2>1, <2>2, <2>3, <2>4 DEF InOrder, Distinct
<1>13. QED
  BY <1>8, <1>9, <1>10, <1>11, <1>12 DEF SourcesInv

LEMMA NoWorkFields ==
    /\ NoWork = [pc |-> "idle", what |-> 0, at |-> 0, hop |-> 0, shown |-> FALSE]
    /\ WorkRow(NoWork) /\ NoWork.pc = "idle"
<1>1. 0 \in 0..MaxRedirects
  BY SourcesAssumption
<1>2. NoWork.pc = "idle" /\ NoWork.what = 0 /\ NoWork.hop = 0 /\ NoWork.at = 0
  BY DEF NoWork
<1>3. NoWork = [pc |-> NoWork.pc, what |-> NoWork.what, at |-> NoWork.at, hop |-> NoWork.hop,
                shown |-> NoWork.shown]
  BY DEF NoWork
<1>4. WorkRow(NoWork)
  BY <1>1, <1>2, <1>3 DEF WorkRow
<1>5. QED
  BY <1>2, <1>4 DEF NoWork

LEMMA AddKeeps ==
    ASSUME SourcesInv, NEW a \in Author, Add(a)
    PROVE  SourcesInv'
<1>1. /\ Begin(a) /\ Cardinality(entries) < MaxSources /\ UNCHANGED <<sheet, entries, reached>>
      /\ sheet \in {"links", "references"} /\ asked \in Nat
  <2>1. sheet \in {"links", "references"} /\ asked \in Nat
    BY SourcesAssumption DEF SourcesInv, SourcesTyped
  <2>2. QED
    BY <2>1 DEF Add
<1>2. PICK n : n = asked + 1
  OBVIOUS
<1>3. n \in Nat /\ 0 \in 0..MaxRedirects
  BY <1>1, <1>2, SourcesAssumption
<1>4. CASE sheet = "references"
  <2>1. PICK w : w = [NoWork EXCEPT !.pc = "number", !.what = n]
    OBVIOUS
  <2>2. w = [pc |-> "number", what |-> n, at |-> 0, hop |-> 0, shown |-> FALSE]
    BY <2>1, NoWorkFields
  <2>3. w.pc = "number" /\ w.what = n /\ w.hop = 0
        /\ w = [pc |-> w.pc, what |-> w.what, at |-> w.at, hop |-> w.hop, shown |-> w.shown]
    BY <2>2
  <2>4. WorkRow(w)
    BY <1>3, <2>3 DEF WorkRow
  <2>5. Set(a, w)
    BY <1>2, <1>4, <2>1 DEF Add
  <2>6. QED
    BY <1>1, <1>2, <1>3, <2>3, <2>4, <2>5, WorkBegins
<1>5. CASE sheet # "references"
  <2>1. PICK u \in Address :
            Set(a, [NoWork EXCEPT !.what = asked + 1, !.at = u,
                         !.pc = IF Fetchable(u) THEN "dial" ELSE "create"])
    BY <1>5 DEF Add
  <2>2. PICK pc : pc = IF Fetchable(u) THEN "dial" ELSE "create"
    OBVIOUS
  <2>3. PICK w : w = [NoWork EXCEPT !.what = n, !.at = u, !.pc = pc]
    OBVIOUS
  <2>4. w = [pc |-> pc, what |-> n, at |-> u, hop |-> 0, shown |-> FALSE]
    BY <2>3, NoWorkFields
  <2>5. w.pc = pc /\ w.what = n /\ w.hop = 0 /\ w.at = u
        /\ w = [pc |-> w.pc, what |-> w.what, at |-> w.at, hop |-> w.hop, shown |-> w.shown]
    BY <2>4
  <2>6. WorkRow(w) /\ w.pc \in {"dial", "create"}
    BY <1>3, <1>5, <2>2, <2>5 DEF WorkRow
  <2>7. Set(a, w)
    BY <1>2, <2>1, <2>2, <2>3
  <2>8. QED
    BY <1>1, <1>2, <1>3, <1>5, <2>5, <2>6, <2>7, WorkBegins
<1>6. QED
  BY <1>4, <1>5

LEMMA FindToRemoveKeeps ==
    ASSUME SourcesInv, NEW a \in Author, FindToRemove(a)
    PROVE  SourcesInv'
<1>1. Begin(a) /\ UNCHANGED <<sheet, entries, reached>>
  BY DEF FindToRemove
<1>2. PICK e \in entries : Set(a, [NoWork EXCEPT !.pc = "remove", !.what = e.id, !.at = e.position])
  BY DEF FindToRemove
<1>3. PICK id : id = e.id
  OBVIOUS
<1>4. PICK at : at = e.position
  OBVIOUS
<1>5. PICK w : w = [NoWork EXCEPT !.pc = "remove", !.what = id, !.at = at]
  OBVIOUS
<1>6. w = [pc |-> "remove", what |-> id, at |-> at, hop |-> 0, shown |-> FALSE]
  BY <1>5, NoWorkFields
<1>7. w.pc = "remove" /\ w.what = id /\ w.hop = 0 /\ w.at = at
      /\ w = [pc |-> w.pc, what |-> w.what, at |-> w.at, hop |-> w.hop, shown |-> w.shown]
  BY <1>6
<1>8. id \in Nat /\ at \in Nat /\ 0 \in 0..MaxRedirects
  BY <1>3, <1>4, SourcesAssumption DEF SourcesInv, SourcesTyped, EntryRow
<1>9. WorkRow(w)
  BY <1>7, <1>8 DEF WorkRow
<1>10. Set(a, w)
  BY <1>2, <1>3, <1>4, <1>5
<1>11. QED
  BY <1>1, <1>3, <1>4, <1>7, <1>8, <1>9, <1>10, WorkBegins

\* A request is through: what is left to show is the list it leaves.
LEMMA WorkEnds ==
    ASSUME SourcesInv, NEW a \in Author, task' = [task EXCEPT ![a] = NoWork],
           task[a].pc \in {"create", "remove"},
           UNCHANGED <<sheet, asked, crossing, reached>>,
           IsFiniteSet(entries'), \A e \in entries' : EntryRow(e),
           \A e \in entries' : e.position + Cardinality(Numberers) <= asked,
           task[a].pc = "create" => Cardinality(entries') <= Cardinality(entries) + 1,
           task[a].pc = "remove" => Cardinality(entries') <= Cardinality(entries),
           ~crossing /\ sheet = "references" /\ InOrder =>
               Distinct(entries') /\ {e.position : e \in entries'} = 1..Cardinality(entries')
    PROVE  SourcesInv'
<1>1. SourcesTyped /\ NumbersAreAsked /\ RoomIsKept
  BY DEF SourcesInv
<1>2. /\ task' = [b \in Author |-> task'[b]]
      /\ task'[a] = NoWork /\ \A b \in Author : b # a => task'[b] = task[b]
  BY <1>1, TaskMoves
<1>3. WorkRow(NoWork) /\ NoWork.pc = "idle"
  BY NoWorkFields
<1>4. Cardinality(Numberers') = Cardinality(Numberers)
  <2>1. a \notin Numberers /\ a \notin Numberers'
    BY <1>1, <1>3, Counting
  <2>2. QED
    BY <1>1, <2>1, Counting, OneMoreOrLess
<1>5. Cardinality(Adders') = IF task[a].pc = "create" THEN Cardinality(Adders) - 1 ELSE Cardinality(Adders)
  <2>1. a \notin Adders' /\ (a \in Adders <=> task[a].pc = "create")
    BY <1>1, <1>3, Counting
  <2>3. IsFiniteSet(Adders) /\ \A b : b # a => (b \in Adders <=> b \in Adders')
    BY <1>1, Counting
  <2>4. CASE a \in Adders
    BY <2>1, <2>3, <2>4, OneMoreOrLess
  <2>5. CASE a \notin Adders
    BY <2>1, <2>3, <2>5, OneMoreOrLess
  <2>2. QED
    BY <2>1, <2>4, <2>5
<1>6. Cardinality(Adders) \in Nat /\ Cardinality(entries) \in Nat /\ Cardinality(entries') \in Nat
  BY <1>1, Counting, FS_CardinalityType DEF SourcesTyped
<1>7. SourcesTyped'
  <2>1. ASSUME NEW b \in Author PROVE WorkRow(task[b])'
    <3>1. CASE b = a
      BY <1>2, <1>3, <3>1 DEF WorkRow
    <3>2. CASE b # a
      <4>1. WorkRow(task[b]) /\ task'[b] = task[b]
        BY <1>1, <1>2, <3>2 DEF SourcesTyped
      <4>2. QED
        BY <4>1 DEF WorkRow
    <3>3. QED
      BY <3>1, <3>2
  <2>2. \A b \in Author : task'[b].pc \in {"number", "dial", "create"} => task'[b].what \in 1..asked
    BY <1>1, <1>2, <1>3 DEF SourcesTyped
  <2>3. \A e \in entries' : EntryRow(e)'
    BY DEF EntryRow
  <2>4. QED
    BY <1>1, <1>2, <2>1, <2>2, <2>3 DEF SourcesTyped
<1>8. NumbersAreAsked'
  <2>1. \A b \in Author : task'[b].pc = "create" => task'[b] = task[b]
    BY <1>2, <1>3
  <2>2. QED
    BY <1>1, <1>4, <2>1 DEF NumbersAreAsked
<1>9. RoomIsKept'
  <2>1. Cardinality(Author) \in Nat /\ MaxSources \in Nat
    BY SourcesAssumption, FS_CardinalityType
  <2>2. PICK n : n = Cardinality(entries')
    OBVIOUS
  <2>3. PICK k : k = Cardinality(Adders')
    OBVIOUS
  <2>4. n + k <= Cardinality(entries) + Cardinality(Adders)
    BY <1>5, <1>6, <2>2, <2>3
  <2>5. n \in Nat /\ k \in Int
    BY <1>5, <1>6, <2>2, <2>3
  <2>6. Cardinality(entries) + Cardinality(Adders) + 1 <= MaxSources + Cardinality(Author)
    BY <1>1 DEF RoomIsKept
  <2>7. n + k + 1 <= MaxSources + Cardinality(Author)
    BY <1>6, <2>1, <2>4, <2>5, <2>6
  <2>8. QED
    BY <2>2, <2>3, <2>7 DEF RoomIsKept
<1>10. ASSUME ~crossing PROVE OneAtATime'
  <2>1. OneAtATime
    BY <1>10 DEF SourcesInv
  <2>2. \A b \in Author : task'[b].pc = "idle"
    BY <1>2, <1>3, <2>1 DEF OneAtATime
  <2>3. Adders' = {}
    BY <2>2 DEF Adders
  <2>4. Cardinality(entries') <= MaxSources
    <3>1. MaxSources \in Nat /\ Cardinality(entries) <= MaxSources
      BY <2>1, SourcesAssumption DEF OneAtATime
    <3>2. task[a].pc = "create" => Cardinality(entries) < MaxSources
      BY <2>1 DEF OneAtATime, Adders
    <3>3. QED
      BY <1>6, <3>1, <3>2
  <2>5. QED
    BY <2>2, <2>3, <2>4 DEF OneAtATime
<1>11. ASSUME ~crossing, sheet = "references" PROVE InOrder'
  <2>1. InOrder /\ OneAtATime
    BY <1>11 DEF SourcesInv
  <2>2. \A b \in Author : task'[b].pc = "idle"
    BY <1>2, <1>3, <2>1 DEF OneAtATime
  <2>3. QED
    BY <1>11, <2>1, <2>2 DEF InOrder, Distinct
<1>12. QED
  BY <1>7, <1>8, <1>9, <1>10, <1>11 DEF SourcesInv

LEMMA CreateKeeps ==
    ASSUME SourcesInv, NEW a \in Author, Create(a)
    PROVE  SourcesInv'
<1>1. SourcesTyped /\ NumbersAreAsked /\ task[a].pc = "create"
  BY DEF SourcesInv, Create
<1>2. WorkRow(task[a]) /\ task[a].what \in 1..asked
  BY <1>1 DEF SourcesTyped
<1>3. PICK at : at = IF sheet = "links" THEN 0 ELSE task[a].at
  OBVIOUS
<1>4. PICK new : new = [id |-> task[a].what, previewed |-> task[a].shown, position |-> at]
  OBVIOUS
<1>5. /\ entries' = entries \cup {new} /\ task' = [task EXCEPT ![a] = NoWork]
      /\ UNCHANGED <<sheet, asked, crossing, reached>>
  BY <1>3, <1>4 DEF Create, Set
<1>6. new.id = task[a].what /\ new.position = at
      /\ new = [id |-> new.id, previewed |-> new.previewed, position |-> new.position]
  BY <1>4
<1>7. Cardinality(Numberers) \in Nat /\ asked \in Nat
  <2>1. Cardinality(Numberers) \in Nat
    BY <1>1, <1>5, Counting
  <2>2. asked \in Nat
    BY <1>1, SourcesAssumption DEF SourcesTyped
  <2>3. QED
    BY <2>1, <2>2
<1>8. at \in Nat /\ at + Cardinality(Numberers) <= asked
  <2>1. CASE sheet = "links"
    BY <1>1, <1>3, <1>7, <2>1 DEF NumbersAreAsked
  <2>2. CASE sheet = "references"
    BY <1>1, <1>2, <1>3, <2>2 DEF NumbersAreAsked, WorkRow
  <2>3. QED
    BY <1>1, <2>1, <2>2 DEF SourcesTyped
<1>9. EntryRow(new)
  BY <1>2, <1>6, <1>8 DEF EntryRow
<1>10. /\ IsFiniteSet(entries') /\ Cardinality(entries) \in Nat /\ Cardinality(entries') \in Nat
       /\ Cardinality(entries') = IF new \in entries THEN Cardinality(entries) ELSE Cardinality(entries) + 1
  <2>1. IsFiniteSet(entries)
    BY <1>1 DEF SourcesTyped
  <2>2. QED
    BY <1>5, <2>1, FS_AddElement, FS_CardinalityType
<1>11. ASSUME ~crossing, sheet = "references", InOrder
       PROVE  Distinct(entries') /\ {e.position : e \in entries'} = 1..Cardinality(entries')
  <2>1. OneAtATime
    BY <1>11 DEF SourcesInv
  <2>2. \A e \in entries : e.id # new.id
    BY <1>1, <1>6, <2>1 DEF OneAtATime, Adders
  <2>3. PICK n : n = Cardinality(entries)
    OBVIOUS
  <2>4. Cardinality(entries') = n + 1 /\ n \in Nat
    BY <1>10, <2>2, <2>3
  <2>5. new.position = n + 1
    BY <1>1, <1>3, <1>6, <1>11, <2>3 DEF InOrder
  <2>6. {e.position : e \in entries} = 1..n
    BY <1>11, <2>3 DEF InOrder
  <2>7. \A e \in entries : e.position \in 1..n
    BY <2>6
  <2>8. \A e \in entries : e.position # new.position
    BY <2>4, <2>5, <2>7
  <2>9. Distinct(entries')
    BY <1>5, <1>11, <2>2, <2>8 DEF Distinct, InOrder
  <2>10. {e.position : e \in entries'} = {e.position : e \in entries} \cup {n + 1}
    BY <1>5, <2>5
  <2>11. (1..n) \cup {n + 1} = 1..(n + 1)
    BY <2>4
  <2>12. QED
    BY <2>4, <2>6, <2>9, <2>10, <2>11
<1>12. \A e \in entries' : EntryRow(e)
  BY <1>1, <1>5, <1>9 DEF SourcesTyped
<1>13. \A e \in entries' : e.position + Cardinality(Numberers) <= asked
  BY <1>1, <1>5, <1>6, <1>8 DEF NumbersAreAsked
<1>14. Cardinality(entries') <= Cardinality(entries) + 1
  BY <1>10
<1>15. QED
  BY <1>1, <1>5, <1>10, <1>11, <1>12, <1>13, <1>14, WorkEnds
LEMMA MoveUpFields ==
    ASSUME NEW e, EntryRow(e), NEW n \in Nat
    PROVE  /\ EntryRow(MoveUp(e, n)) /\ MoveUp(e, n).id = e.id
           /\ MoveUp(e, n).position <= e.position
           /\ sheet = "references" /\ e.position > n => MoveUp(e, n).position = e.position - 1
           /\ sheet = "references" /\ e.position <= n => MoveUp(e, n).position = e.position
<1>1. e.position \in Nat /\ e.id \in 1..asked
      /\ e = [id |-> e.id, previewed |-> e.previewed, position |-> e.position]
  BY DEF EntryRow
<1>2. CASE sheet = "references" /\ e.position > n
  <2>1. PICK p : p = e.position - 1
    OBVIOUS
  <2>2. PICK m : m = MoveUp(e, n)
    OBVIOUS
  <2>3. m = [e EXCEPT !.position = p]
    BY <1>2, <2>1, <2>2 DEF MoveUp
  <2>4. m = [id |-> e.id, previewed |-> e.previewed, position |-> p]
    BY <1>1, <2>3
  <2>5. p \in Nat /\ p <= e.position
    BY <1>1, <1>2, <2>1
  <2>6. m.id = e.id /\ m.position = p /\ m = [id |-> m.id, previewed |-> m.previewed, position |-> m.position]
    BY <2>4
  <2>7. EntryRow(m)
    BY <1>1, <2>5, <2>6 DEF EntryRow
  <2>8. QED
    BY <1>1, <1>2, <2>1, <2>2, <2>5, <2>6, <2>7
<1>3. CASE ~(sheet = "references" /\ e.position > n)
  <2>1. MoveUp(e, n) = e
    BY <1>3 DEF MoveUp
  <2>2. QED
    BY <1>1, <1>3, <2>1
<1>4. QED
  BY <1>2, <1>3

LEMMA MovedAreCounted ==
    ASSUME NEW S, IsFiniteSet(S), NEW n, NEW T, T = {MoveUp(e, n) : e \in S}
    PROVE  /\ IsFiniteSet(T) /\ Cardinality(T) <= Cardinality(S)
           /\ (\A e \in S, f \in S : MoveUp(e, n) = MoveUp(f, n) => e = f)
                  => Cardinality(T) = Cardinality(S)
<1>1. PICK g : g = [e \in S |-> MoveUp(e, n)]
  OBVIOUS
<1>2. g \in [S -> T] /\ \A t \in T : \E e \in S : g[e] = t
  BY <1>1
<1>3. g \in Surjection(S, T)
  BY <1>2 DEF Surjection
<1>4. /\ IsFiniteSet(T) /\ Cardinality(T) <= Cardinality(S)
      /\ g \in Injection(S, T) => Cardinality(T) = Cardinality(S)
  BY <1>3, FS_Surjection
<1>5. ASSUME \A e \in S, f \in S : MoveUp(e, n) = MoveUp(f, n) => e = f
      PROVE  g \in Injection(S, T)
  <2>1. \A e \in S, f \in S : g[e] = g[f] => e = f
    BY <1>1, <1>5
  <2>2. QED
    BY <1>2, <2>1 DEF Injection, IsInjective
<1>6. QED
  BY <1>4, <1>5

\* One taken out of a numbered list, and the ones behind it moved up.
LEMMA HoleIsClosed ==
    ASSUME SourcesTyped, InOrder, sheet = "references", NEW gone \in entries, NEW T,
           T = {MoveUp(e, gone.position) : e \in entries \ {gone}}
    PROVE  Distinct(T) /\ {e.position : e \in T} = 1..Cardinality(T)
<1>1. PICK k : k = gone.position
  OBVIOUS
<1>2. PICK n : n = Cardinality(entries)
  OBVIOUS
<1>3. /\ \A e \in entries : EntryRow(e) /\ e.position \in Nat
      /\ IsFiniteSet(entries) /\ n \in Nat
  BY <1>2, FS_CardinalityType DEF SourcesTyped, EntryRow
<1>4. {e.position : e \in entries} = 1..n /\ Distinct(entries)
  BY <1>2 DEF InOrder
<1>5. k \in Nat /\ k \in 1..n
  BY <1>1, <1>3, <1>4
<1>6. PICK S : S = entries \ {gone}
  OBVIOUS
<1>7. IsFiniteSet(S) /\ Cardinality(S) = n - 1
  BY <1>2, <1>3, <1>6, FS_RemoveElement
<1>8. \A e \in S : e.position # k /\ e \in entries
  BY <1>1, <1>4, <1>6 DEF Distinct
<1>9. ASSUME NEW e \in S
      PROVE  /\ EntryRow(MoveUp(e, k)) /\ MoveUp(e, k).id = e.id
             /\ e.position > k => MoveUp(e, k).position = e.position - 1
             /\ e.position < k => MoveUp(e, k).position = e.position
             /\ e.position > k \/ e.position < k
             /\ e.position \in 1..n
  <2>1. EntryRow(e) /\ e.position \in Nat /\ e.position # k /\ e.position \in 1..n
    BY <1>3, <1>4, <1>8
  <2>2. QED
    BY <1>5, <2>1, MoveUpFields
<1>10. ASSUME NEW e \in S, NEW f \in S,
              MoveUp(e, k).id = MoveUp(f, k).id \/ MoveUp(e, k).position = MoveUp(f, k).position
       PROVE  e = f
  <2>1. CASE MoveUp(e, k).id = MoveUp(f, k).id
    BY <1>4, <1>8, <1>9, <2>1 DEF Distinct
  <2>2. CASE MoveUp(e, k).position = MoveUp(f, k).position
    <3>1. e.position = f.position
      BY <1>5, <1>9, <2>2
    <3>2. QED
      BY <1>4, <1>8, <3>1 DEF Distinct
  <2>3. QED
    BY <1>10, <2>1, <2>2
<1>11. T = {MoveUp(e, k) : e \in S}
  BY <1>1, <1>6
<1>12. Cardinality(T) = n - 1
  BY <1>7, <1>10, <1>11, MovedAreCounted
<1>13. Distinct(T)
  BY <1>10, <1>11 DEF Distinct
<1>14. \A t \in T : t.position \in 1..(n - 1)
  BY <1>3, <1>5, <1>9, <1>11
<1>15. ASSUME NEW p \in 1..(n - 1) PROVE \E t \in T : t.position = p
  <2>1. CASE p < k
    <3>1. p \in 1..n
      BY <1>3
    <3>2. PICK e \in entries : e.position = p
      BY <1>4, <3>1
    <3>3. e \in S
      BY <1>1, <1>5, <1>6, <2>1, <3>2
    <3>4. QED
      BY <1>9, <1>11, <2>1, <3>2, <3>3
  <2>2. CASE p >= k
    <3>1. p + 1 \in 1..n
      BY <1>3
    <3>2. PICK e \in entries : e.position = p + 1
      BY <1>4, <3>1
    <3>3. e \in S /\ e.position > k
      BY <1>1, <1>5, <1>6, <2>2, <3>2
    <3>4. MoveUp(e, k).position = p
      BY <1>9, <3>2, <3>3
    <3>5. QED
      BY <1>11, <3>3, <3>4
  <2>3. QED
    BY <1>5, <2>1, <2>2
<1>16. {t.position : t \in T} = 1..(n - 1)
  BY <1>14, <1>15
<1>17. QED
  BY <1>12, <1>13, <1>16

LEMMA RemoveKeeps ==
    ASSUME SourcesInv, NEW a \in Author, Remove(a)
    PROVE  SourcesInv'
<1>1. SourcesTyped /\ NumbersAreAsked /\ task[a].pc = "remove"
  BY DEF SourcesInv, Remove
<1>2. task' = [task EXCEPT ![a] = NoWork] /\ UNCHANGED <<sheet, asked, crossing, reached>>
  BY DEF Remove, Set
<1>3. WorkRow(task[a]) /\ \A e \in entries : EntryRow(e) /\ e.position + Cardinality(Numberers) <= asked
  BY <1>1 DEF SourcesTyped, NumbersAreAsked
<1>4. Cardinality(Numberers) \in Nat /\ asked \in Nat /\ IsFiniteSet(entries)
  <2>1. Cardinality(Numberers) \in Nat
    BY <1>1, <1>2, Counting
  <2>2. asked \in Nat /\ IsFiniteSet(entries)
    BY <1>1, SourcesAssumption DEF SourcesTyped
  <2>3. QED
    BY <2>1, <2>2
<1>5. CASE \A e \in entries : e.id # task[a].what
  <2>1. entries' = entries
    BY <1>5 DEF Remove
  <2>2. Cardinality(entries) \in Nat
    BY <1>4, FS_CardinalityType
  <2>3. ~(~crossing /\ sheet = "references" /\ InOrder)
    BY <1>1, <1>5 DEF InOrder
  <2>4. /\ IsFiniteSet(entries') /\ Cardinality(entries') <= Cardinality(entries)
        /\ \A e \in entries' : EntryRow(e) /\ e.position + Cardinality(Numberers) <= asked
    BY <1>3, <1>4, <2>1, <2>2
  <2>5. QED
    BY <1>1, <1>2, <2>3, <2>4, WorkEnds
<1>6. CASE \E e \in entries : e.id = task[a].what
  <2>1. PICK S : S = {x \in entries : x.id # task[a].what}
    OBVIOUS
  <2>2. PICK n : n = task[a].at
    OBVIOUS
  <2>3. entries' = {MoveUp(e, n) : e \in S}
    BY <1>6, <2>1, <2>2 DEF Remove
  <2>4. IsFiniteSet(S) /\ Cardinality(S) <= Cardinality(entries) /\ Cardinality(S) \in Nat
        /\ Cardinality(entries) \in Nat
    <3>1. S \in SUBSET entries
      BY <2>1
    <3>2. QED
      BY <1>4, <3>1, FS_Subset, FS_CardinalityType
  <2>5. IsFiniteSet(entries') /\ Cardinality(entries') <= Cardinality(S)
    BY <2>3, <2>4, MovedAreCounted
  <2>6. Cardinality(entries') <= Cardinality(entries)
    <3>1. Cardinality(entries') \in Nat
      BY <2>5, FS_CardinalityType
    <3>2. QED
      BY <2>4, <2>5, <3>1
  <2>7. ASSUME NEW e \in S
        PROVE  EntryRow(MoveUp(e, n)) /\ MoveUp(e, n).position + Cardinality(Numberers) <= asked
    <3>1. EntryRow(e) /\ e.position + Cardinality(Numberers) <= asked /\ e.position \in Nat
      BY <1>3, <2>1 DEF EntryRow
    <3>2. CASE sheet = "references"
      <4>1. n \in Nat
        BY <1>1, <1>3, <2>2, <3>2 DEF WorkRow
      <4>2. EntryRow(MoveUp(e, n)) /\ MoveUp(e, n).position <= e.position
        BY <3>1, <4>1, MoveUpFields
      <4>3. MoveUp(e, n).position \in Nat
        BY <4>2 DEF EntryRow
      <4>4. QED
        BY <1>4, <3>1, <4>2, <4>3
    <3>3. CASE sheet # "references"
      <4>1. MoveUp(e, n) = e
        BY <3>3 DEF MoveUp
      <4>2. QED
        BY <3>1, <4>1
    <3>4. QED
      BY <3>2, <3>3
  <2>8. \A t \in entries' : EntryRow(t) /\ t.position + Cardinality(Numberers) <= asked
    BY <2>3, <2>7
  <2>9. ASSUME ~crossing, sheet = "references", InOrder
        PROVE  Distinct(entries') /\ {e.position : e \in entries'} = 1..Cardinality(entries')
    <3>1. PICK gone \in entries : gone.id = task[a].what /\ gone.position = n
      BY <1>1, <2>2, <2>9 DEF InOrder
    <3>2. S = entries \ {gone}
      BY <2>1, <2>9, <3>1 DEF InOrder, Distinct
    <3>3. QED
      BY <1>1, <2>3, <2>9, <3>1, <3>2, HoleIsClosed
  <2>10. QED
    BY <1>1, <1>2, <2>5, <2>6, <2>8, <2>9, WorkEnds
<1>7. QED
  BY <1>5, <1>6

LEMMA SourcesStart ==
    ASSUME SourcesInit
    PROVE  SourcesInv
<1>1. /\ sheet \in {"links", "references"} /\ entries = {} /\ asked = 0 /\ crossing = FALSE /\ reached = {}
      /\ task = [a \in Author |-> NoWork]
  BY DEF SourcesInit
<1>2. WorkRow(NoWork) /\ NoWork.pc = "idle" /\ \A a \in Author : task[a] = NoWork
  BY <1>1, NoWorkFields
<1>3. Adders = {} /\ Numberers = {}
  BY <1>2 DEF Adders, Numberers
<1>4. IsFiniteSet(entries) /\ Cardinality(entries) = 0 /\ Cardinality(Adders) = 0
      /\ Cardinality(Numberers) = 0
  BY <1>1, <1>3, FS_EmptySet
<1>5. SourcesTyped
  <2>1. asked \in 0..SourceBound
    BY <1>1, SourcesAssumption
  <2>2. \A a \in Author : WorkRow(task[a]) /\ task[a].pc = "idle"
    BY <1>2
  <2>3. QED
    BY <1>1, <1>4, <2>1, <2>2 DEF SourcesTyped
<1>6. NumbersAreAsked
  BY <1>1, <1>2, <1>4 DEF NumbersAreAsked
<1>7. RoomIsKept
  <2>1. Cardinality(Author) \in Nat /\ MaxSources \in Nat \ {0}
    BY SourcesAssumption, FS_CardinalityType
  <2>2. 0 + 0 + 1 <= MaxSources + Cardinality(Author)
    BY <2>1
  <2>3. QED
    BY <1>4, <2>2 DEF RoomIsKept
<1>8. OneAtATime
  <2>1. 0 <= MaxSources
    BY SourcesAssumption
  <2>2. QED
    BY <1>1, <1>2, <1>3, <1>4, <2>1 DEF OneAtATime
<1>9. InOrder
  <2>1. {e.position : e \in entries} = {} /\ 1..0 = {}
    BY <1>1
  <2>2. QED
    BY <1>1, <1>2, <1>4, <2>1 DEF InOrder, Distinct
<1>10. QED
  BY <1>5, <1>6, <1>7, <1>8, <1>9 DEF SourcesInv

LEMMA SourcesStep ==
    ASSUME SourcesInv, [SourcesNext]_sourceVars
    PROVE  SourcesInv'
<1>1. ASSUME UNCHANGED sourceVars PROVE SourcesInv'
  <2>1. UNCHANGED <<sheet, entries, task, asked, crossing, reached>>
    BY <1>1 DEF sourceVars
  <2>2. SourcesTyped'
    BY <2>1 DEF SourcesInv, SourcesTyped, WorkRow, EntryRow
  <2>3. Adders' = Adders /\ Numberers' = Numberers
    BY <2>1 DEF Adders, Numberers
  <2>4. NumbersAreAsked' /\ RoomIsKept'
    BY <2>1, <2>3 DEF SourcesInv, NumbersAreAsked, RoomIsKept
  <2>5. ~crossing' => OneAtATime'
    BY <2>1, <2>3 DEF SourcesInv, OneAtATime
  <2>6. ~crossing' /\ sheet' = "references" => InOrder'
    BY <2>1, <2>3 DEF SourcesInv, InOrder, Distinct
  <2>7. QED
    BY <2>2, <2>4, <2>5, <2>6 DEF SourcesInv
<1>2. QED
  BY <1>1, AddKeeps, FetchEndsKeeps, FetchRedirectedKeeps, ReadLastPositionKeeps, CreateKeeps,
     FindToRemoveKeeps, RemoveKeeps DEF SourcesNext

LEMMA SourcesInvImplies ==
    ASSUME SourcesInv
    PROVE  SourcesTypeOK /\ SourcesInOrder
<1>1. SourcesTyped /\ NumbersAreAsked /\ RoomIsKept
  BY DEF SourcesInv
<1>2. /\ asked \in Nat /\ asked <= SourceBound /\ SourceBound \in Nat
      /\ Cardinality(Numberers) \in Nat /\ Cardinality(Adders) \in Nat /\ Cardinality(entries) \in Nat
      /\ Cardinality(Author) \in Nat /\ MaxSources \in Nat
  <2>1. Numberers \in SUBSET Author /\ Adders \in SUBSET Author
    BY DEF Numberers, Adders
  <2>2. Cardinality(Numberers) \in Nat /\ Cardinality(Adders) \in Nat /\ Cardinality(Author) \in Nat
    BY <2>1, SourcesAssumption, FS_Subset, FS_CardinalityType
  <2>3. Cardinality(entries) \in Nat
    BY <1>1, FS_CardinalityType DEF SourcesTyped
  <2>4. QED
    BY <1>1, <2>2, <2>3, SourcesAssumption DEF SourcesTyped
<1>3. SourcesTypeOK
  <2>1. ASSUME NEW e \in entries PROVE e.id \in 1..SourceBound /\ e.position \in 0..SourceBound
    <3>1. e.id \in 1..asked /\ e.position \in Nat /\ e.position + Cardinality(Numberers) <= asked
      BY <1>1 DEF SourcesTyped, EntryRow, NumbersAreAsked
    <3>2. QED
      BY <1>2, <3>1
  <2>2. \A a \in Author : task[a].hop \in 0..MaxRedirects
    BY <1>1 DEF SourcesTyped, WorkRow
  <2>3. reached \subseteq Places
    BY <1>1 DEF SourcesTyped, Places
  <2>4. QED
    BY <1>1, <2>1, <2>2, <2>3 DEF SourcesTyped, SourcesTypeOK
<1>4. NumberedInOrder
  BY DEF SourcesInv, NumberedInOrder, InOrder
<1>5. FewSources
  <2>1. ~crossing => Cardinality(entries) <= MaxSources
    BY DEF SourcesInv, OneAtATime
  <2>2. Cardinality(entries) + 1 <= MaxSources + Cardinality(Author)
    BY <1>1, <1>2 DEF RoomIsKept
  <2>3. QED
    BY <2>1, <2>2 DEF FewSources
<1>6. OnlyOutsideIsRead
  BY <1>1 DEF SourcesTyped, OnlyOutsideIsRead
<1>7. QED
  BY <1>3, <1>4, <1>5, <1>6 DEF SourcesInOrder

\* Sources and links stay within their room, and while one request at a time is
\* served they are numbered from one without a gap, and none is lost or doubled.
THEOREM SourcesAreInOrder == SourcesSpec => []SourcesInv
<1>1. SourcesInit => SourcesInv
  BY SourcesStart
<1>2. SourcesInv /\ [SourcesNext]_sourceVars => SourcesInv'
  BY SourcesStep
<1>3. QED
  BY <1>1, <1>2, PTL DEF SourcesSpec

---------------------------------------------------------------------------
(* Editor: the form of a story and its saves                             *)

ArticleRow == [text : 0..TextBound, public : BOOLEAN]

SaveIsSound(s) ==
    /\ s.id <= Len(rows) /\ s.made <= Len(rows)
    /\ s.id # 0 => form.articleId # 0
    /\ s.pc \in {"waiting", "sent"} => s.made = 0
    /\ s.pc \in {"saved", "acting"} => s.made # 0
    /\ s.pc = "saved" /\ s.id # 0 => s.made = s.id

EditorTyped ==
    /\ form \in Form /\ saves \in Seq(Save) /\ Len(saves) <= SaveBound /\ inFlight \in 0..Len(saves)
    /\ rows \in Seq(ArticleRow) /\ form.articleId <= Len(rows)
    /\ slipped \in BOOLEAN /\ overtaken \in BOOLEAN
    /\ \A i \in DOMAIN saves : SaveIsSound(saves[i])

\* The saves that created a row each.
Makers == {i \in DOMAIN saves : saves[i].id = 0 /\ saves[i].made # 0}

RowsAreMade ==
    \/ Len(rows) <= Cardinality(Makers)
    \/ Len(rows) = 1 /\ form.articleId # 0 /\ \A i \in DOMAIN saves : saves[i].id # 0

\* What is on its way is on the screen, and what arrived is in its row.
TextIsKept ==
    /\ \A i \in OnItsWay : /\ saves[i].text = form.text
                           /\ saves[i].pc = "saved" => rows[saves[i].made].text = form.text
                           /\ saves[i].id \notin {0, form.articleId} =>
                                  rows[form.articleId].text = form.text
    /\ \A i \in DOMAIN saves : saves[i].pc = "acting" =>
           /\ rows[saves[i].made].text = saves[i].text
           /\ \A j \in OnItsWay : j < i => saves[j].text = saves[i].text
    /\ ~form.dirty /\ form.articleId # 0 => rows[form.articleId].text = form.text

\* One save at a time creates the article.
CreatedOnce ==
    /\ Creating # {} => form.articleId = 0
    /\ \A i \in Creating, j \in Creating : i = j
    /\ Len(rows) = IF form.articleId # 0 \/ (\E i \in Creating : saves[i].pc = "saved") THEN 1 ELSE 0

\* What holds of the form, its saves and the rows they made.
EditorInv ==
    /\ EditorTyped /\ RowsAreMade
    /\ ~slipped => TextIsKept
    /\ ~overtaken => CreatedOnce

LEMMA FormFields ==
    ASSUME NEW f, f \in Form
    PROVE  /\ f = [text |-> f.text, dirty |-> f.dirty, armed |-> f.armed, articleId |-> f.articleId,
                   pending |-> f.pending, open |-> f.open]
           /\ f.text \in 0..TextBound /\ f.dirty \in BOOLEAN /\ f.armed \in BOOLEAN
           /\ f.articleId \in 0..SaveBound /\ f.pending \in Buttons \cup {"none"} /\ f.open \in BOOLEAN
BY DEF Form

LEMMA FormIsMade ==
    ASSUME NEW f,
           f = [text |-> f.text, dirty |-> f.dirty, armed |-> f.armed, articleId |-> f.articleId,
                pending |-> f.pending, open |-> f.open],
           f.text \in 0..TextBound, f.dirty \in BOOLEAN, f.armed \in BOOLEAN,
           f.articleId \in 0..SaveBound, f.pending \in Buttons \cup {"none"}, f.open \in BOOLEAN
    PROVE  f \in Form
BY DEF Form

LEMMA RearmedFacts ==
    ASSUME NEW f, f \in Form
    PROVE  /\ Rearmed(f) \in Form /\ Rearmed(f).text = f.text /\ Rearmed(f).dirty = f.dirty
           /\ Rearmed(f).articleId = f.articleId /\ Rearmed(f).open = f.open
<1>1. PICK armed : armed = (f.dirty /\ f.pending = "none")
  OBVIOUS
<1>2. PICK r : r = [f EXCEPT !.armed = armed]
  OBVIOUS
<1>3. r = Rearmed(f)
  BY <1>1, <1>2 DEF Rearmed
<1>4. f = [text |-> f.text, dirty |-> f.dirty, armed |-> f.armed, articleId |-> f.articleId,
           pending |-> f.pending, open |-> f.open]
  BY FormFields
<1>5. r = [text |-> f.text, dirty |-> f.dirty, armed |-> armed, articleId |-> f.articleId,
           pending |-> f.pending, open |-> f.open]
  BY <1>2, <1>4
<1>6. /\ r = [text |-> r.text, dirty |-> r.dirty, armed |-> r.armed, articleId |-> r.articleId,
              pending |-> r.pending, open |-> r.open]
      /\ r.text = f.text /\ r.dirty = f.dirty /\ r.armed = armed /\ r.articleId = f.articleId
      /\ r.pending = f.pending /\ r.open = f.open
  BY <1>5
<1>7. armed \in BOOLEAN
  BY <1>1
<1>8. r \in Form
  <2>1. f.text \in 0..TextBound /\ f.dirty \in BOOLEAN /\ f.articleId \in 0..SaveBound
        /\ f.pending \in Buttons \cup {"none"} /\ f.open \in BOOLEAN
    BY FormFields
  <2>2. QED
    BY <1>6, <1>7, <2>1, FormIsMade
<1>9. QED
  BY <1>3, <1>6, <1>8

\* A form whose button or window changes.
LEMMA ButtonFacts ==
    ASSUME NEW f, f \in Form, NEW p \in Buttons \cup {"none"}, NEW o \in BOOLEAN, NEW g,
           g = [f EXCEPT !.pending = p, !.open = o]
    PROVE  g \in Form /\ g.text = f.text /\ g.dirty = f.dirty /\ g.articleId = f.articleId
<1>1. f = [text |-> f.text, dirty |-> f.dirty, armed |-> f.armed, articleId |-> f.articleId,
           pending |-> f.pending, open |-> f.open]
  BY FormFields
<1>2. g = [text |-> f.text, dirty |-> f.dirty, armed |-> f.armed, articleId |-> f.articleId,
           pending |-> p, open |-> o]
  BY <1>1
<1>3. /\ g = [text |-> g.text, dirty |-> g.dirty, armed |-> g.armed, articleId |-> g.articleId,
              pending |-> g.pending, open |-> g.open]
      /\ g.text = f.text /\ g.dirty = f.dirty /\ g.armed = f.armed /\ g.articleId = f.articleId
      /\ g.pending = p /\ g.open = o
  BY <1>2
<1>4. g \in Form
  <2>1. f.text \in 0..TextBound /\ f.dirty \in BOOLEAN /\ f.articleId \in 0..SaveBound /\ f.armed \in BOOLEAN
    BY FormFields
  <2>2. QED
    BY <1>3, <2>1, FormIsMade
<1>5. QED
  BY <1>3, <1>4

LEMMA SaveFields ==
    ASSUME NEW s, s \in Save
    PROVE  /\ s = [text |-> s.text, id |-> s.id, why |-> s.why, pc |-> s.pc, made |-> s.made]
           /\ s.text \in 0..TextBound /\ s.id \in 0..SaveBound /\ s.why \in Buttons \cup {"autosave"}
           /\ s.pc \in {"waiting", "sent", "saved", "refused", "lost", "acting", "over"}
           /\ s.made \in 0..SaveBound
BY DEF Save

LEMMA SaveIsMade ==
    ASSUME NEW s, s = [text |-> s.text, id |-> s.id, why |-> s.why, pc |-> s.pc, made |-> s.made],
           s.text \in 0..TextBound, s.id \in 0..SaveBound, s.why \in Buttons \cup {"autosave"},
           s.pc \in {"waiting", "sent", "saved", "refused", "lost", "acting", "over"},
           s.made \in 0..SaveBound
    PROVE  s \in Save
BY DEF Save

LEMMA OneSaveChanges ==
    ASSUME saves \in Seq(Save), NEW i \in DOMAIN saves, NEW s \in Save, saves' = [saves EXCEPT ![i] = s]
    PROVE  /\ saves' \in Seq(Save) /\ Len(saves') = Len(saves) /\ DOMAIN saves' = DOMAIN saves
           /\ saves'[i] = s /\ \A j \in DOMAIN saves : j # i => saves'[j] = saves[j]
OBVIOUS

\* A save that goes on to another state.
LEMMA SaveGoesOn ==
    ASSUME NEW r, r \in Save, NEW pc, NEW s, s = [r EXCEPT !.pc = pc],
           pc \in {"waiting", "sent", "saved", "refused", "lost", "acting", "over"}
    PROVE  s \in Save /\ s.pc = pc /\ s.text = r.text /\ s.id = r.id /\ s.made = r.made /\ s.why = r.why
<1>1. r = [text |-> r.text, id |-> r.id, why |-> r.why, pc |-> r.pc, made |-> r.made]
  BY SaveFields
<1>2. s = [text |-> r.text, id |-> r.id, why |-> r.why, pc |-> pc, made |-> r.made]
  BY <1>1
<1>3. /\ s = [text |-> s.text, id |-> s.id, why |-> s.why, pc |-> s.pc, made |-> s.made]
      /\ s.pc = pc /\ s.text = r.text /\ s.id = r.id /\ s.made = r.made /\ s.why = r.why
  BY <1>2
<1>4. r.text \in 0..TextBound /\ r.id \in 0..SaveBound /\ r.why \in Buttons \cup {"autosave"}
      /\ r.made \in 0..SaveBound
  BY SaveFields
<1>5. s \in Save
  BY <1>3, <1>4, SaveIsMade
<1>6. QED
  BY <1>3, <1>5

LEMMA RowsStay ==
    ASSUME RowsAreMade, Len(rows') = Len(rows), Makers' = Makers,
           form'.articleId = form.articleId,
           (\A i \in DOMAIN saves : saves[i].id # 0) => \A i \in DOMAIN saves' : saves'[i].id # 0
    PROVE  RowsAreMade'
BY DEF RowsAreMade

\* A save that is off its way: refused, lost, or through with its action.
LEMMA FallsAway ==
    ASSUME EditorInv, NEW i \in DOMAIN saves, NEW s \in Save, saves' = [saves EXCEPT ![i] = s],
           s.pc \in {"refused", "lost", "over"},
           s.text = saves[i].text, s.id = saves[i].id, s.made = saves[i].made,
           form' \in Form, form'.text = form.text, form'.dirty = form.dirty, form'.articleId = form.articleId,
           rows' \in Seq(ArticleRow), Len(rows') = Len(rows),
           \A k \in 1..Len(rows) : rows'[k].text = rows[k].text,
           inFlight' = inFlight, slipped' = slipped, overtaken' \in BOOLEAN,
           ~overtaken' => ~overtaken /\ ~(saves[i].pc = "saved" /\ saves[i].id = 0)
    PROVE  EditorInv'
<1>1. EditorTyped /\ RowsAreMade /\ (~slipped => TextIsKept) /\ (~overtaken => CreatedOnce)
  BY DEF EditorInv
<1>2. /\ saves' \in Seq(Save) /\ Len(saves') = Len(saves) /\ DOMAIN saves' = DOMAIN saves
      /\ saves'[i] = s /\ \A j \in DOMAIN saves : j # i => saves'[j] = saves[j]
  BY <1>1, OneSaveChanges DEF EditorTyped
<1>3. \A j \in DOMAIN saves : SaveIsSound(saves[j])'
  <2>1. ASSUME NEW j \in DOMAIN saves PROVE SaveIsSound(saves[j])'
    <3>1. SaveIsSound(saves[j])
      BY <1>1 DEF EditorTyped
    <3>2. CASE j = i
      BY <1>2, <3>1, <3>2 DEF SaveIsSound
    <3>3. CASE j # i
      BY <1>2, <3>1, <3>3 DEF SaveIsSound
    <3>4. QED
      BY <3>2, <3>3
  <2>2. QED
    BY <2>1
<1>4. EditorTyped'
  BY <1>1, <1>2, <1>3 DEF EditorTyped
<1>5. RowsAreMade'
  <2>1. Makers' = Makers
    BY <1>2 DEF Makers
  <2>2. (\A j \in DOMAIN saves : saves[j].id # 0) => \A j \in DOMAIN saves' : saves'[j].id # 0
    BY <1>2
  <2>3. QED
    BY <1>1, <2>1, <2>2, RowsStay
<1>6. \A j : j \in OnItsWay' => j \in OnItsWay /\ j # i /\ saves'[j] = saves[j]
  BY <1>2 DEF OnItsWay
<1>7. \A j \in DOMAIN saves : saves'[j].pc = "acting" => saves'[j] = saves[j]
  BY <1>2
<1>8. ASSUME ~slipped PROVE TextIsKept'
  <2>1. TextIsKept
    BY <1>1, <1>8
  <2>2. \A j \in DOMAIN saves : SaveIsSound(saves[j])
    BY <1>1 DEF EditorTyped
  <2>3. Len(rows) \in Nat /\ form.articleId \in Nat /\ form.articleId <= Len(rows)
        /\ \A j \in DOMAIN saves : saves[j].made \in Nat
    BY <1>1, EditorAssumption, SaveFields, FormFields DEF EditorTyped
  <2>4. form.articleId # 0 => rows'[form.articleId].text = rows[form.articleId].text
    BY <2>3
  <2>5. \A j \in DOMAIN saves : saves[j].made # 0 => rows'[saves[j].made].text = rows[saves[j].made].text
    BY <2>2, <2>3 DEF SaveIsSound
  <2>6. ASSUME NEW j \in OnItsWay'
        PROVE  /\ saves'[j].text = form'.text
               /\ saves'[j].pc = "saved" => rows'[saves'[j].made].text = form'.text
               /\ saves'[j].id \notin {0, form'.articleId} => rows'[form'.articleId].text = form'.text
    <3>1. j \in OnItsWay /\ saves'[j] = saves[j] /\ j \in DOMAIN saves
      BY <1>6 DEF OnItsWay
    <3>2. saves[j].pc = "saved" => saves[j].made # 0
      BY <2>2, <3>1 DEF SaveIsSound
    <3>3. saves[j].id # 0 => form.articleId # 0
      BY <2>2, <3>1 DEF SaveIsSound
    <3>4. QED
      BY <2>1, <2>4, <2>5, <3>1, <3>2, <3>3 DEF TextIsKept
  <2>7. ASSUME NEW j \in DOMAIN saves', saves'[j].pc = "acting"
        PROVE  /\ rows'[saves'[j].made].text = saves'[j].text
               /\ \A k \in OnItsWay' : k < j => saves'[k].text = saves'[j].text
    <3>1. j \in DOMAIN saves /\ saves'[j] = saves[j]
      BY <1>2, <1>7, <2>7
    <3>2. saves[j].made # 0
      BY <2>2, <2>7, <3>1 DEF SaveIsSound
    <3>3. QED
      BY <1>6, <2>1, <2>5, <2>7, <3>1, <3>2 DEF TextIsKept
  <2>8. ~form'.dirty /\ form'.articleId # 0 => rows'[form'.articleId].text = form'.text
    BY <2>1, <2>4 DEF TextIsKept
  <2>9. QED
    BY <2>6, <2>7, <2>8 DEF TextIsKept
<1>9. ASSUME ~overtaken' PROVE CreatedOnce'
  <2>1. CreatedOnce /\ ~(saves[i].pc = "saved" /\ saves[i].id = 0)
    BY <1>1, <1>9
  <2>2. \A j : j \in Creating' => j \in Creating /\ saves'[j] = saves[j]
    BY <1>6 DEF Creating
  <2>3. \A j \in Creating : saves[j].pc = "saved" => j \in Creating' /\ saves'[j] = saves[j]
    BY <1>2, <2>1 DEF Creating, OnItsWay
  <2>4. (\E j \in Creating' : saves'[j].pc = "saved") <=> \E j \in Creating : saves[j].pc = "saved"
    BY <2>2, <2>3
  <2>5. QED
    BY <2>1, <2>2, <2>4 DEF CreatedOnce
<1>10. QED
  BY <1>4, <1>5, <1>8, <1>9 DEF EditorInv

LEMMA RefuseKeeps ==
    ASSUME EditorInv, NEW i \in DOMAIN saves, Refuse(i)
    PROVE  EditorInv'
<1>1. EditorTyped /\ saves[i].pc = "sent"
  BY DEF EditorInv, Refuse
<1>2. PICK pc : pc = "refused"
  OBVIOUS
<1>3. PICK r : r = saves[i]
  OBVIOUS
<1>4. PICK s : s = [r EXCEPT !.pc = pc]
  OBVIOUS
<1>5. saves' = [saves EXCEPT ![i] = s] /\ UNCHANGED <<form, inFlight, rows, slipped, overtaken>>
  BY <1>2, <1>3, <1>4 DEF Refuse
<1>6. r \in Save
  BY <1>1, <1>3 DEF EditorTyped
<1>7. s \in Save /\ s.pc = pc /\ s.text = r.text /\ s.id = r.id /\ s.made = r.made
  BY <1>2, <1>4, <1>6, SaveGoesOn
<1>8. /\ form' \in Form /\ rows' \in Seq(ArticleRow) /\ overtaken' \in BOOLEAN
      /\ Len(rows') = Len(rows) /\ \A k \in 1..Len(rows) : rows'[k].text = rows[k].text
  BY <1>1, <1>5 DEF EditorTyped
<1>9. s.pc \in {"refused", "lost", "over"}
  BY <1>2, <1>7
<1>10. QED
  BY <1>1, <1>3, <1>5, <1>7, <1>8, <1>9, FallsAway

LEMMA LoseKeeps ==
    ASSUME EditorInv, NEW i \in DOMAIN saves, Lose(i)
    PROVE  EditorInv'
<1>1. EditorTyped
  BY DEF EditorInv
<1>2. PICK pc : pc = "lost"
  OBVIOUS
<1>3. PICK r : r = saves[i]
  OBVIOUS
<1>4. PICK s : s = [r EXCEPT !.pc = pc]
  OBVIOUS
<1>5. /\ saves' = [saves EXCEPT ![i] = s] /\ UNCHANGED <<form, inFlight, rows, slipped>>
      /\ overtaken' = (overtaken \/ saves[i].id = 0)
  BY <1>2, <1>3, <1>4 DEF Lose
<1>6. r \in Save
  BY <1>1, <1>3 DEF EditorTyped
<1>7. s \in Save /\ s.pc = pc /\ s.text = r.text /\ s.id = r.id /\ s.made = r.made
  BY <1>2, <1>4, <1>6, SaveGoesOn
<1>8. /\ form' \in Form /\ rows' \in Seq(ArticleRow) /\ overtaken' \in BOOLEAN
      /\ Len(rows') = Len(rows) /\ \A k \in 1..Len(rows) : rows'[k].text = rows[k].text
  BY <1>1, <1>5 DEF EditorTyped
<1>9. s.pc \in {"refused", "lost", "over"}
  BY <1>2, <1>7
<1>10. QED
  BY <1>1, <1>3, <1>5, <1>7, <1>8, <1>9, FallsAway

LEMMA ActKeeps ==
    ASSUME EditorInv, NEW i \in DOMAIN saves, Act(i)
    PROVE  EditorInv'
<1>1. EditorTyped /\ saves[i].pc = "acting"
  BY DEF EditorInv, Act
<1>2. PICK pc : pc = "over"
  OBVIOUS
<1>3. PICK r : r = saves[i]
  OBVIOUS
<1>4. PICK s : s = [r EXCEPT !.pc = pc]
  OBVIOUS
<1>5. /\ saves' = [saves EXCEPT ![i] = s] /\ UNCHANGED <<inFlight, slipped, overtaken>>
      /\ form' = Rearmed([form EXCEPT !.pending = "none"])
  BY <1>2, <1>3, <1>4 DEF Act
<1>6. r \in Save
  BY <1>1, <1>3 DEF EditorTyped
<1>7. s \in Save /\ s.pc = pc /\ s.text = r.text /\ s.id = r.id /\ s.made = r.made
  BY <1>2, <1>4, <1>6, SaveGoesOn
<1>8. PICK ok \in BOOLEAN : rows' = [rows EXCEPT ![saves[i].made].public = @ \/ ok]
  BY DEF Act
<1>9. PICK k : k = saves[i].made
  OBVIOUS
<1>10. k \in 1..Len(rows) /\ rows[k] \in ArticleRow
  <2>1. SaveIsSound(saves[i]) /\ rows \in Seq(ArticleRow) /\ k \in Nat
    BY <1>1, <1>3, <1>6, <1>9, SaveFields, EditorAssumption DEF EditorTyped
  <2>2. k # 0 /\ k <= Len(rows)
    BY <1>1, <1>9, <2>1 DEF SaveIsSound
  <2>3. QED
    BY <2>1, <2>2
<1>11. PICK public : public = (rows[k].public \/ ok)
  OBVIOUS
<1>12. PICK row : row = [rows[k] EXCEPT !.public = public]
  OBVIOUS
<1>13. row \in ArticleRow /\ row.text = rows[k].text
  <2>1. rows[k] = [text |-> rows[k].text, public |-> rows[k].public] /\ rows[k].text \in 0..TextBound
        /\ public \in BOOLEAN
    BY <1>10, <1>11 DEF ArticleRow
  <2>2. row = [text |-> rows[k].text, public |-> public]
    BY <1>12, <2>1
  <2>3. QED
    BY <2>1, <2>2 DEF ArticleRow
<1>14. rows' = [rows EXCEPT ![k] = row]
  BY <1>8, <1>9, <1>11, <1>12
<1>15. /\ rows' \in Seq(ArticleRow) /\ Len(rows') = Len(rows)
       /\ \A j \in 1..Len(rows) : rows'[j].text = rows[j].text
  BY <1>1, <1>10, <1>13, <1>14 DEF EditorTyped
<1>16. form' \in Form /\ form'.text = form.text /\ form'.dirty = form.dirty /\ form'.articleId = form.articleId
  <2>1. PICK none : none = "none"
    OBVIOUS
  <2>2. PICK g : g = [form EXCEPT !.pending = none, !.open = form.open]
    OBVIOUS
  <2>3. form = [text |-> form.text, dirty |-> form.dirty, armed |-> form.armed, articleId |-> form.articleId,
                pending |-> form.pending, open |-> form.open] /\ form.open \in BOOLEAN /\ form \in Form
    BY <1>1, FormFields DEF EditorTyped
  <2>4. g = [form EXCEPT !.pending = none]
    BY <2>2, <2>3
  <2>5. g \in Form /\ g.text = form.text /\ g.dirty = form.dirty /\ g.articleId = form.articleId
    BY <2>1, <2>2, <2>3, ButtonFacts
  <2>6. form' = Rearmed(g)
    BY <1>5, <2>1, <2>4
  <2>7. QED
    BY <2>5, <2>6, RearmedFacts
<1>17. s.pc \in {"refused", "lost", "over"} /\ overtaken' \in BOOLEAN
  BY <1>1, <1>2, <1>5, <1>7 DEF EditorTyped
<1>18. QED
  BY <1>1, <1>3, <1>5, <1>7, <1>15, <1>16, <1>17, FallsAway
LEMMA TypeKeeps ==
    ASSUME EditorInv, Type
    PROVE  EditorInv'
<1>1. EditorTyped /\ RowsAreMade /\ (~slipped => TextIsKept) /\ (~overtaken => CreatedOnce)
  BY DEF EditorInv
<1>2. PICK n : n = form.text + 1
  OBVIOUS
<1>3. PICK g : g = [form EXCEPT !.text = n, !.dirty = TRUE]
  OBVIOUS
<1>4. /\ form.text < TextBound /\ form' = Rearmed(g) /\ slipped' = (slipped \/ OnItsWay # {})
      /\ UNCHANGED <<saves, inFlight, rows, overtaken>>
  BY <1>2, <1>3 DEF Type
<1>5. g \in Form /\ g.text = n /\ g.dirty = TRUE /\ g.articleId = form.articleId
  <2>1. form = [text |-> form.text, dirty |-> form.dirty, armed |-> form.armed, articleId |-> form.articleId,
                pending |-> form.pending, open |-> form.open]
        /\ form.armed \in BOOLEAN /\ form.articleId \in 0..SaveBound /\ form.open \in BOOLEAN
        /\ form.pending \in Buttons \cup {"none"}
    BY <1>1, FormFields DEF EditorTyped
  <2>2. form.text \in 0..TextBound
    BY <1>1, FormFields DEF EditorTyped
  <2>3. n \in 0..TextBound
    BY <1>2, <1>4, <2>2, EditorAssumption
  <2>4. g = [text |-> n, dirty |-> TRUE, armed |-> form.armed, articleId |-> form.articleId,
             pending |-> form.pending, open |-> form.open]
    BY <1>3, <2>1
  <2>5. /\ g = [text |-> g.text, dirty |-> g.dirty, armed |-> g.armed, articleId |-> g.articleId,
                pending |-> g.pending, open |-> g.open]
        /\ g.text = n /\ g.dirty = TRUE /\ g.armed = form.armed /\ g.articleId = form.articleId
        /\ g.pending = form.pending /\ g.open = form.open
    BY <2>4
  <2>6. g \in Form
    BY <2>1, <2>3, <2>5, FormIsMade
  <2>7. QED
    BY <2>5, <2>6
<1>6. form' \in Form /\ form'.dirty = TRUE /\ form'.articleId = form.articleId
  BY <1>4, <1>5, RearmedFacts
<1>7. EditorTyped'
  <2>1. \A i \in DOMAIN saves : SaveIsSound(saves[i])'
    BY <1>1, <1>4, <1>6 DEF EditorTyped, SaveIsSound
  <2>2. slipped' \in BOOLEAN
    BY <1>1, <1>4 DEF EditorTyped
  <2>3. QED
    BY <1>1, <1>4, <1>6, <2>1, <2>2 DEF EditorTyped
<1>8. Makers' = Makers /\ OnItsWay' = OnItsWay /\ Creating' = Creating
  BY <1>4 DEF Makers, OnItsWay, Creating
<1>9. RowsAreMade'
  BY <1>1, <1>4, <1>6, <1>8 DEF RowsAreMade
<1>10. ASSUME ~slipped' PROVE TextIsKept'
  <2>1. TextIsKept /\ OnItsWay = {}
    BY <1>1, <1>4, <1>10
  <2>2. QED
    BY <1>4, <1>6, <1>8, <2>1 DEF TextIsKept
<1>11. ~overtaken' => CreatedOnce'
  BY <1>1, <1>4, <1>6, <1>8 DEF CreatedOnce
<1>12. QED
  BY <1>7, <1>9, <1>10, <1>11 DEF EditorInv

\* A save is begun, on its way or straight at its action.
LEMMA SaveIsBegun ==
    ASSUME EditorInv, NEW s \in Save, saves' = Append(saves, s), Len(saves) < SaveBound,
           s.text = form.text, s.id = form.articleId,
           \/ s.pc \in {"waiting", "sent"} /\ s.made = 0 /\ overtaken' = (overtaken \/ Creating # {})
           \/ /\ s.pc = "acting" /\ s.made = form.articleId /\ ~form.dirty /\ form.articleId # 0
              /\ overtaken' = overtaken,
           form' \in Form, form'.text = form.text, form'.dirty = form.dirty, form'.articleId = form.articleId,
           rows' = rows, inFlight' \in 0..Len(saves'), slipped' = slipped
    PROVE  EditorInv'
<1>1. EditorTyped /\ RowsAreMade /\ (~slipped => TextIsKept) /\ (~overtaken => CreatedOnce)
  BY DEF EditorInv
<1>2. PICK n : n = Len(saves) + 1
  OBVIOUS
<1>3. /\ Len(saves) \in Nat /\ saves \in Seq(Save) /\ DOMAIN saves = 1..Len(saves) /\ n \notin DOMAIN saves
      /\ \A j \in DOMAIN saves : j < n
  BY <1>1, <1>2 DEF EditorTyped
<1>4. /\ saves' \in Seq(Save) /\ Len(saves') = n /\ DOMAIN saves' = 1..n
      /\ saves'[n] = s /\ \A j \in DOMAIN saves : saves'[j] = saves[j]
  BY <1>2, <1>3
<1>5. DOMAIN saves' = DOMAIN saves \cup {n}
  BY <1>2, <1>3, <1>4
<1>6. EditorTyped'
  <2>1. ASSUME NEW j \in DOMAIN saves' PROVE SaveIsSound(saves[j])'
    <3>1. CASE j = n
      <4>1. form.articleId <= Len(rows) /\ 0 <= Len(rows) /\ Len(rows) \in Nat
        BY <1>1 DEF EditorTyped
      <4>2. s.id <= Len(rows) /\ s.made <= Len(rows)
        BY <4>1
      <4>3. /\ s.id # 0 => form.articleId # 0
            /\ s.pc \in {"waiting", "sent"} => s.made = 0
            /\ s.pc \in {"saved", "acting"} => s.made # 0
            /\ s.pc = "saved" /\ s.id # 0 => s.made = s.id
        OBVIOUS
      <4>4. QED
        BY <1>4, <3>1, <4>2, <4>3 DEF SaveIsSound
    <3>2. CASE j \in DOMAIN saves
      <4>1. SaveIsSound(saves[j]) /\ saves'[j] = saves[j]
        BY <1>1, <1>4, <3>2 DEF EditorTyped
      <4>2. QED
        BY <4>1 DEF SaveIsSound
    <3>3. QED
      BY <1>5, <2>1, <3>1, <3>2
  <2>2. Len(saves') <= SaveBound
    BY <1>2, <1>3, <1>4, EditorAssumption
  <2>3. overtaken' \in BOOLEAN
    BY <1>1 DEF EditorTyped
  <2>4. QED
    BY <1>1, <1>4, <2>1, <2>2, <2>3 DEF EditorTyped
<1>7. RowsAreMade'
  <2>1. Makers' = Makers
    <3>1. ~(s.id = 0 /\ s.made # 0)
      OBVIOUS
    <3>2. QED
      BY <1>3, <1>4, <1>5, <3>1 DEF Makers
  <2>2. CASE Len(rows) <= Cardinality(Makers)
    BY <2>1, <2>2 DEF RowsAreMade
  <2>3. CASE Len(rows) = 1 /\ form.articleId # 0 /\ \A i \in DOMAIN saves : saves[i].id # 0
    BY <1>4, <1>5, <2>3 DEF RowsAreMade
  <2>4. QED
    BY <1>1, <2>2, <2>3 DEF RowsAreMade
<1>8. \A j : j \in OnItsWay' <=> j \in OnItsWay \/ (j = n /\ s.pc # "acting")
  BY <1>3, <1>4, <1>5 DEF OnItsWay
<1>9. \A j \in OnItsWay : j \in DOMAIN saves /\ saves'[j] = saves[j] /\ j < n
  BY <1>3, <1>4 DEF OnItsWay
<1>10. ASSUME ~slipped PROVE TextIsKept'
  <2>1. TextIsKept
    BY <1>1, <1>10
  <2>2. ASSUME NEW j \in OnItsWay'
        PROVE  /\ saves'[j].text = form'.text
               /\ saves'[j].pc = "saved" => rows'[saves'[j].made].text = form'.text
               /\ saves'[j].id \notin {0, form'.articleId} => rows'[form'.articleId].text = form'.text
    <3>1. CASE j \in OnItsWay
      BY <1>9, <2>1, <3>1 DEF TextIsKept
    <3>2. CASE j = n /\ s.pc # "acting"
      BY <1>4, <3>2
    <3>3. QED
      BY <1>8, <2>2, <3>1, <3>2
  <2>3. ASSUME NEW j \in DOMAIN saves', saves'[j].pc = "acting"
        PROVE  /\ rows'[saves'[j].made].text = saves'[j].text
               /\ \A k \in OnItsWay' : k < j => saves'[k].text = saves'[j].text
    <3>1. CASE j = n
      <4>1. s.pc = "acting" /\ saves'[j] = s
        BY <1>4, <2>3, <3>1
      <4>2. rows[form.articleId].text = form.text
        BY <2>1, <4>1 DEF TextIsKept
      <4>3. \A k \in OnItsWay' : saves'[k].text = form.text
        BY <2>2
      <4>4. QED
        BY <4>1, <4>2, <4>3
    <3>2. CASE j \in DOMAIN saves
      <4>1. saves'[j] = saves[j] /\ j < n
        BY <1>3, <1>4, <3>2
      <4>2. \A k \in OnItsWay' : k < j => k \in OnItsWay /\ saves'[k] = saves[k]
        BY <1>2, <1>3, <1>8, <1>9, <3>2
      <4>3. QED
        BY <2>1, <2>3, <3>2, <4>1, <4>2 DEF TextIsKept
    <3>3. QED
      BY <1>5, <2>3, <3>1, <3>2
  <2>4. ~form'.dirty /\ form'.articleId # 0 => rows'[form'.articleId].text = form'.text
    BY <2>1 DEF TextIsKept
  <2>5. QED
    BY <2>2, <2>3, <2>4 DEF TextIsKept
<1>11. ASSUME ~overtaken' PROVE CreatedOnce'
  <2>1. CreatedOnce
    BY <1>1, <1>11
  <2>2. CASE s.pc = "acting"
    <3>1. Creating' = Creating
      BY <1>8, <1>9, <2>2 DEF Creating
    <3>2. \A j \in Creating : saves'[j] = saves[j]
      BY <1>9 DEF Creating
    <3>3. QED
      BY <2>1, <3>1, <3>2 DEF CreatedOnce
  <2>3. CASE s.pc # "acting"
    <3>1. Creating = {} /\ s.pc # "saved"
      BY <1>11, <2>3
    <3>2. \A j : j \in Creating' <=> j = n /\ form.articleId = 0
      BY <1>4, <1>8, <1>9, <2>3, <3>1 DEF Creating
    <3>3. \A j \in Creating' : saves'[j].pc # "saved"
      BY <1>4, <3>1, <3>2
    <3>4. Creating' # {} => form'.articleId = 0
      BY <3>2
    <3>5. \A j \in Creating', k \in Creating' : j = k
      BY <3>2
    <3>6. Len(rows) = IF form.articleId # 0 THEN 1 ELSE 0
      BY <2>1, <3>1 DEF CreatedOnce
    <3>7. QED
      BY <3>3, <3>4, <3>5, <3>6 DEF CreatedOnce
  <2>4. QED
    BY <2>2, <2>3
<1>12. QED
  BY <1>6, <1>7, <1>10, <1>11 DEF EditorInv

LEMMA PersistKeeps ==
    ASSUME EditorInv, NEW why \in Buttons \cup {"autosave"}, Persist(why),
           form' \in Form, form'.text = form.text, form'.dirty = form.dirty, form'.articleId = form.articleId
    PROVE  EditorInv'
<1>1. EditorTyped
  BY DEF EditorInv
<1>2. PICK pc : pc = IF inFlight # 0 THEN "waiting" ELSE "sent"
  OBVIOUS
<1>3. PICK s : s = [text |-> form.text, id |-> form.articleId, why |-> why, made |-> 0, pc |-> pc]
  OBVIOUS
<1>4. /\ Len(saves) < SaveBound /\ saves' = Append(saves, s)
      /\ inFlight' = IF inFlight # 0 THEN inFlight ELSE Len(saves')
      /\ overtaken' = (overtaken \/ Creating # {}) /\ rows' = rows /\ slipped' = slipped
  BY <1>2, <1>3 DEF Persist
<1>5. s.text = form.text /\ s.id = form.articleId /\ s.why = why /\ s.made = 0 /\ s.pc = pc
      /\ s = [text |-> s.text, id |-> s.id, why |-> s.why, pc |-> s.pc, made |-> s.made]
  BY <1>3
<1>6. pc \in {"waiting", "sent"}
  BY <1>2
<1>7. s \in Save
  <2>1. form.text \in 0..TextBound /\ form.articleId \in 0..SaveBound /\ 0 \in 0..SaveBound
    BY <1>1, FormFields, EditorAssumption DEF EditorTyped
  <2>2. s.pc \in {"waiting", "sent", "saved", "refused", "lost", "acting", "over"}
    BY <1>5, <1>6
  <2>3. QED
    BY <1>5, <2>1, <2>2, SaveIsMade
<1>8. inFlight' \in 0..Len(saves')
  <2>1. saves \in Seq(Save) /\ inFlight \in 0..Len(saves)
    BY <1>1 DEF EditorTyped
  <2>2. Len(saves') = Len(saves) + 1 /\ Len(saves) \in Nat
    BY <1>4, <1>7, <2>1
  <2>3. QED
    BY <1>4, <2>1, <2>2
<1>9. QED
  BY <1>4, <1>5, <1>6, <1>7, <1>8, SaveIsBegun

LEMMA AutosaveKeeps ==
    ASSUME EditorInv, Autosave
    PROVE  EditorInv'
<1>1. form \in Form
  BY DEF EditorInv, EditorTyped
<1>2. PICK g : g = [form EXCEPT !.armed = FALSE]
  OBVIOUS
<1>3. form = [text |-> form.text, dirty |-> form.dirty, armed |-> form.armed, articleId |-> form.articleId,
              pending |-> form.pending, open |-> form.open]
      /\ form.text \in 0..TextBound /\ form.dirty \in BOOLEAN /\ form.articleId \in 0..SaveBound
      /\ form.pending \in Buttons \cup {"none"} /\ form.open \in BOOLEAN
  BY <1>1, FormFields
<1>4. g = [text |-> form.text, dirty |-> form.dirty, armed |-> FALSE, articleId |-> form.articleId,
           pending |-> form.pending, open |-> form.open]
  BY <1>2, <1>3
<1>5. /\ g = [text |-> g.text, dirty |-> g.dirty, armed |-> g.armed, articleId |-> g.articleId,
              pending |-> g.pending, open |-> g.open]
      /\ g.text = form.text /\ g.dirty = form.dirty /\ g.armed = FALSE /\ g.articleId = form.articleId
      /\ g.pending = form.pending /\ g.open = form.open
  BY <1>4
<1>6. g \in Form
  BY <1>3, <1>5, FormIsMade
<1>7. form' = g /\ Persist("autosave")
  BY <1>2 DEF Autosave
<1>8. QED
  BY <1>5, <1>6, <1>7, PersistKeeps

LEMMA PressKeeps ==
    ASSUME EditorInv, NEW why \in Buttons, Press(why)
    PROVE  EditorInv'
<1>1. form \in Form
  BY DEF EditorInv, EditorTyped
<1>2. PICK g : g = [form EXCEPT !.pending = why, !.open = form.open]
  OBVIOUS
<1>3. form.open \in BOOLEAN
      /\ form = [text |-> form.text, dirty |-> form.dirty, armed |-> form.armed, articleId |-> form.articleId,
                 pending |-> form.pending, open |-> form.open]
  BY <1>1, FormFields
<1>4. g = [form EXCEPT !.pending = why]
  BY <1>2, <1>3
<1>5. g \in Form /\ g.text = form.text /\ g.dirty = form.dirty /\ g.articleId = form.articleId
  BY <1>1, <1>2, <1>3, ButtonFacts
<1>6. Persist(why) /\ form' = IF why = "preview" THEN form ELSE Rearmed(g)
  BY <1>4 DEF Press
<1>7. form' \in Form /\ form'.text = form.text /\ form'.dirty = form.dirty /\ form'.articleId = form.articleId
  BY <1>1, <1>5, <1>6, RearmedFacts
<1>8. QED
  BY <1>6, <1>7, PersistKeeps

LEMMA PublishSavedKeeps ==
    ASSUME EditorInv, PublishSaved
    PROVE  EditorInv'
<1>1. EditorTyped
  BY DEF EditorInv
<1>2. PICK why : why = "publish"
  OBVIOUS
<1>3. PICK s : s = [text |-> form.text, id |-> form.articleId, why |-> why, made |-> form.articleId,
                    pc |-> "acting"]
  OBVIOUS
<1>4. PICK g : g = [form EXCEPT !.pending = why, !.open = form.open]
  OBVIOUS
<1>5. form.open \in BOOLEAN /\ form \in Form /\ why \in Buttons
      /\ form = [text |-> form.text, dirty |-> form.dirty, armed |-> form.armed, articleId |-> form.articleId,
                 pending |-> form.pending, open |-> form.open]
  <2>1. form \in Form
    BY <1>1 DEF EditorTyped
  <2>2. QED
    BY <1>2, <2>1, FormFields DEF Buttons
<1>6. g = [form EXCEPT !.pending = why]
  BY <1>4, <1>5
<1>7. g \in Form /\ g.text = form.text /\ g.dirty = form.dirty /\ g.articleId = form.articleId
  BY <1>4, <1>5, ButtonFacts
<1>8. /\ ~form.dirty /\ form.articleId # 0 /\ Len(saves) < SaveBound
      /\ saves' = Append(saves, s) /\ form' = g /\ UNCHANGED <<inFlight, rows, slipped, overtaken>>
  BY <1>2, <1>3, <1>6 DEF PublishSaved
<1>9. s.text = form.text /\ s.id = form.articleId /\ s.why = why /\ s.made = form.articleId /\ s.pc = "acting"
      /\ s = [text |-> s.text, id |-> s.id, why |-> s.why, pc |-> s.pc, made |-> s.made]
  BY <1>3
<1>10. s \in Save
  <2>1. form.text \in 0..TextBound /\ form.articleId \in 0..SaveBound
    BY <1>5, FormFields
  <2>2. s.pc \in {"waiting", "sent", "saved", "refused", "lost", "acting", "over"}
    BY <1>9
  <2>3. QED
    BY <1>5, <1>9, <2>1, <2>2, SaveIsMade
<1>11. inFlight' \in 0..Len(saves')
  <2>1. saves \in Seq(Save) /\ inFlight \in 0..Len(saves)
    BY <1>1 DEF EditorTyped
  <2>2. Len(saves') = Len(saves) + 1 /\ Len(saves) \in Nat
    BY <1>8, <1>10, <2>1
  <2>3. QED
    BY <1>8, <2>1, <2>2
<1>12. QED
  BY <1>7, <1>8, <1>9, <1>10, <1>11, SaveIsBegun

LEMMA ServeKeeps ==
    ASSUME EditorInv, NEW i \in DOMAIN saves, Serve(i)
    PROVE  EditorInv'
<1>1. EditorTyped /\ RowsAreMade /\ (~slipped => TextIsKept) /\ (~overtaken => CreatedOnce)
  BY DEF EditorInv
<1>2. PICK r : r = saves[i]
  OBVIOUS
<1>3. PICK row : row = [text |-> r.text, public |-> FALSE]
  OBVIOUS
<1>4. PICK was : was = rows[r.id]
  OBVIOUS
<1>5. PICK new : new = [was EXCEPT !.text = r.text]
  OBVIOUS
<1>6. PICK made : made = IF r.id = 0 THEN Len(rows) + 1 ELSE r.id
  OBVIOUS
<1>7. PICK sv : sv = [r EXCEPT !.pc = "saved"]
  OBVIOUS
<1>8. PICK s : s = [sv EXCEPT !.made = made]
  OBVIOUS
<1>9. saves \in Seq(Save) /\ rows \in Seq(ArticleRow) /\ r \in Save /\ r.pc = "sent" /\ SaveIsSound(r)
      /\ Len(rows) \in Nat
  BY <1>1, <1>2 DEF EditorTyped, Serve
<1>10. /\ r = [text |-> r.text, id |-> r.id, why |-> r.why, pc |-> r.pc, made |-> r.made]
       /\ r.text \in 0..TextBound /\ r.id \in 0..SaveBound /\ r.why \in Buttons \cup {"autosave"}
       /\ r.id \in Nat
  BY <1>9, SaveFields, EditorAssumption
<1>11. r.id <= Len(rows) /\ r.made = 0 /\ (r.id # 0 => form.articleId # 0)
  BY <1>9 DEF SaveIsSound
<1>12. /\ rows' = IF r.id = 0 THEN Append(rows, row) ELSE [rows EXCEPT ![r.id] = new]
       /\ UNCHANGED <<form, inFlight, slipped, overtaken>>
  BY <1>2, <1>3, <1>4, <1>5 DEF Serve
<1>13. row \in ArticleRow /\ row.text = r.text
  BY <1>3, <1>10 DEF ArticleRow
<1>14. r.id # 0 => new \in ArticleRow /\ new.text = r.text
  <2>1. SUFFICES ASSUME r.id # 0 PROVE new \in ArticleRow /\ new.text = r.text
    OBVIOUS
  <2>2. was \in ArticleRow
    BY <1>4, <1>9, <1>10, <1>11, <2>1
  <2>3. was = [text |-> was.text, public |-> was.public] /\ was.public \in BOOLEAN
    BY <2>2 DEF ArticleRow
  <2>4. new = [text |-> r.text, public |-> was.public]
    BY <1>5, <2>3
  <2>5. QED
    BY <1>10, <2>3, <2>4 DEF ArticleRow
<1>15. /\ rows' \in Seq(ArticleRow) /\ Len(rows') = IF r.id = 0 THEN Len(rows) + 1 ELSE Len(rows)
       /\ \A k \in 1..Len(rows) : k # r.id => rows'[k] = rows[k]
       /\ made \in 1..Len(rows') /\ rows'[made].text = r.text
       /\ r.id # 0 => rows'[r.id].text = r.text
  <2>1. CASE r.id = 0
    BY <1>6, <1>9, <1>12, <1>13, <2>1
  <2>2. CASE r.id # 0
    BY <1>6, <1>9, <1>10, <1>11, <1>12, <1>14, <2>2
  <2>3. QED
    BY <2>1, <2>2
<1>16. saves' = [saves EXCEPT ![i] = s]
  <2>1. made = IF r.id = 0 THEN Len(rows') ELSE r.id
    BY <1>6, <1>15
  <2>2. saves' = [[saves EXCEPT ![i].pc = "saved"] EXCEPT ![i].made = made]
    BY <1>2, <2>1 DEF Serve
  <2>3. PICK first : first = [saves EXCEPT ![i].pc = "saved"]
    OBVIOUS
  <2>4. first = [saves EXCEPT ![i] = sv]
    BY <1>2, <1>7, <2>3
  <2>5. first[i] = sv
    BY <1>9, <2>4
  <2>6. saves' = [first EXCEPT ![i] = s]
    BY <1>8, <2>2, <2>3, <2>5
  <2>7. QED
    BY <2>4, <2>6
<1>17. i \notin Makers /\ IsFiniteSet(Makers) /\ Cardinality(Makers) \in Nat
       /\ Cardinality(Makers \cup {i}) = Cardinality(Makers) + 1 /\ Cardinality(Makers) + 1 <= Len(saves)
  <2>1. i \notin Makers
    BY <1>2, <1>11 DEF Makers
  <2>2. IsFiniteSet(DOMAIN saves) /\ Cardinality(DOMAIN saves) = Len(saves)
    <3>1. Len(saves) \in Nat /\ DOMAIN saves = 1..Len(saves)
      BY <1>9
    <3>2. IsFiniteSet(1..Len(saves)) /\ Cardinality(1..Len(saves)) = IF 1 > Len(saves) THEN 0 ELSE Len(saves) - 1 + 1
      BY <3>1, FS_Interval
    <3>3. Cardinality(1..Len(saves)) = Len(saves)
      BY <3>1, <3>2
    <3>4. QED
      BY <3>1, <3>2, <3>3
  <2>3. Makers \cup {i} \subseteq DOMAIN saves
    BY DEF Makers
  <2>4. IsFiniteSet(Makers) /\ IsFiniteSet(Makers \cup {i})
        /\ Cardinality(Makers \cup {i}) <= Cardinality(DOMAIN saves)
    BY <2>2, <2>3, FS_Subset
  <2>5. Cardinality(Makers \cup {i}) = Cardinality(Makers) + 1
    BY <2>1, <2>4, FS_AddElement
  <2>6. Cardinality(Makers) \in Nat
    BY <2>4, FS_CardinalityType
  <2>7. QED
    BY <2>1, <2>2, <2>4, <2>5, <2>6
<1>18. r.id = 0 => Len(rows) <= Cardinality(Makers)
  BY <1>1, <1>2 DEF RowsAreMade
<1>19. made \in 0..SaveBound
  <2>1. Len(saves) <= SaveBound /\ Len(saves) \in Nat
    BY <1>1, <1>9 DEF EditorTyped
  <2>2. r.id = 0 => Len(rows) + 1 <= SaveBound
    BY <1>9, <1>17, <1>18, <2>1, EditorAssumption
  <2>3. QED
    BY <1>6, <1>9, <1>10, <2>2, EditorAssumption
<1>20. /\ s \in Save /\ s.pc = "saved" /\ s.text = r.text /\ s.id = r.id /\ s.made = made
  <2>1. sv = [text |-> r.text, id |-> r.id, why |-> r.why, pc |-> "saved", made |-> r.made]
    BY <1>7, <1>10
  <2>2. s = [text |-> r.text, id |-> r.id, why |-> r.why, pc |-> "saved", made |-> made]
    BY <1>8, <2>1
  <2>3. /\ s = [text |-> s.text, id |-> s.id, why |-> s.why, pc |-> s.pc, made |-> s.made]
        /\ s.text = r.text /\ s.id = r.id /\ s.why = r.why /\ s.pc = "saved" /\ s.made = made
    BY <2>2
  <2>4. s.pc \in {"waiting", "sent", "saved", "refused", "lost", "acting", "over"}
    BY <2>3
  <2>5. s \in Save
    BY <1>10, <1>19, <2>3, <2>4, SaveIsMade
  <2>6. QED
    BY <2>3, <2>5
<1>21. /\ saves' \in Seq(Save) /\ Len(saves') = Len(saves) /\ DOMAIN saves' = DOMAIN saves
       /\ saves'[i] = s /\ \A j \in DOMAIN saves : j # i => saves'[j] = saves[j]
  BY <1>9, <1>16, <1>20, OneSaveChanges
<1>22. Len(rows) <= Len(rows') /\ Len(rows') \in Nat /\ made # 0 /\ made <= Len(rows')
       /\ (r.id # 0 => made = r.id)
  <2>1. made \in 1..Len(rows') /\ Len(rows') \in Nat
    BY <1>15
  <2>2. Len(rows) <= Len(rows')
    BY <1>9, <1>15
  <2>3. QED
    BY <1>6, <2>1, <2>2
<1>23. EditorTyped'
  <2>1. ASSUME NEW j \in DOMAIN saves PROVE SaveIsSound(saves[j])'
    <3>1. SaveIsSound(saves[j]) /\ saves[j] \in Save
      BY <1>1 DEF EditorTyped
    <3>2. saves[j].id \in Nat /\ saves[j].made \in Nat
      BY <3>1, SaveFields, EditorAssumption
    <3>3. CASE j = i
      <4>1. s.id <= Len(rows') /\ s.made <= Len(rows')
        BY <1>9, <1>10, <1>11, <1>20, <1>22
      <4>2. s.id # 0 => form'.articleId # 0
        BY <1>11, <1>12, <1>20
      <4>3. s.made # 0 /\ (s.id # 0 => s.made = s.id)
        BY <1>20, <1>22
      <4>4. QED
        BY <1>20, <1>21, <3>3, <4>1, <4>2, <4>3 DEF SaveIsSound
    <3>4. CASE j # i
      <4>1. saves'[j] = saves[j]
        BY <1>21, <3>4
      <4>2. saves[j].id <= Len(rows') /\ saves[j].made <= Len(rows')
        <5>1. saves[j].id <= Len(rows) /\ saves[j].made <= Len(rows)
          BY <3>1 DEF SaveIsSound
        <5>2. QED
          BY <1>9, <1>22, <3>2, <5>1
      <4>3. QED
        BY <1>12, <3>1, <4>1, <4>2 DEF SaveIsSound
    <3>5. QED
      BY <3>3, <3>4
  <2>2. form.articleId <= Len(rows')
    <3>1. form.articleId <= Len(rows) /\ form.articleId \in Nat
      BY <1>1, FormFields, EditorAssumption DEF EditorTyped
    <3>2. QED
      BY <1>9, <1>22, <3>1
  <2>3. QED
    BY <1>1, <1>12, <1>15, <1>21, <2>1, <2>2 DEF EditorTyped
<1>24. RowsAreMade'
  <2>1. CASE r.id = 0
    <3>1. Makers' = Makers \cup {i}
      <4>1. \A j : j \in Makers' <=> j \in Makers \/ j = i
        BY <1>20, <1>21, <1>22, <2>1 DEF Makers
      <4>2. QED
        BY <4>1
    <3>2. Len(rows') = Len(rows) + 1 /\ Len(rows) <= Cardinality(Makers)
      BY <1>15, <1>18, <2>1
    <3>3. Len(rows') <= Cardinality(Makers \cup {i})
      BY <1>9, <1>17, <3>2
    <3>4. QED
      BY <3>1, <3>3 DEF RowsAreMade
  <2>2. CASE r.id # 0
    <3>1. Makers' = Makers
      <4>1. \A j : j \in Makers' <=> j \in Makers
        BY <1>2, <1>20, <1>21, <2>2 DEF Makers
      <4>2. QED
        BY <4>1
    <3>2. (\A j \in DOMAIN saves : saves[j].id # 0) => \A j \in DOMAIN saves' : saves'[j].id # 0
      BY <1>20, <1>21, <2>2
    <3>3. Len(rows') = Len(rows) /\ form'.articleId = form.articleId
      BY <1>12, <1>15, <2>2
    <3>4. QED
      BY <1>1, <3>1, <3>2, <3>3, RowsStay
  <2>3. QED
    BY <2>1, <2>2
<1>25. OnItsWay' = OnItsWay /\ Creating' = Creating /\ i \in OnItsWay
       /\ (r.id = 0 => i \in Creating)
  <2>1. i \in OnItsWay
    BY <1>2, <1>9 DEF OnItsWay
  <2>2. \A j : j \in OnItsWay' <=> j \in OnItsWay
    BY <1>2, <1>9, <1>20, <1>21 DEF OnItsWay
  <2>3. \A j : j \in Creating' <=> j \in Creating
    <3>1. \A j \in OnItsWay : saves'[j].id = saves[j].id
      BY <1>2, <1>20, <1>21 DEF OnItsWay
    <3>2. QED
      BY <2>2, <3>1 DEF Creating
  <2>4. QED
    BY <1>2, <2>1, <2>2, <2>3 DEF Creating
<1>26. ASSUME ~slipped PROVE TextIsKept'
  <2>1. TextIsKept
    BY <1>1, <1>26
  <2>2. r.text = form.text
    BY <1>2, <1>25, <2>1 DEF TextIsKept
  <2>3. ASSUME NEW k \in Nat, k # 0, k <= Len(rows)
        PROVE  rows'[k].text \in {rows[k].text, r.text} /\ (k # r.id => rows'[k].text = rows[k].text)
    BY <1>9, <1>15, <2>3
  <2>4. \A j \in DOMAIN saves : saves[j].made \in Nat /\ saves[j].made <= Len(rows)
    BY <1>1, EditorAssumption, SaveFields DEF EditorTyped, SaveIsSound
  <2>5. form.articleId \in Nat /\ form.articleId <= Len(rows)
    BY <1>1, FormFields, EditorAssumption DEF EditorTyped
  <2>6. \A j \in DOMAIN saves : /\ saves[j].pc \in {"saved", "acting"} => saves[j].made # 0
                                /\ saves[j].id # 0 => form.articleId # 0
    BY <1>1 DEF EditorTyped, SaveIsSound
  <2>7. ASSUME NEW j \in OnItsWay
        PROVE  /\ saves'[j].text = form.text
               /\ saves'[j].pc = "saved" => rows'[saves'[j].made].text = form.text
               /\ saves'[j].id \notin {0, form.articleId} => rows'[form.articleId].text = form.text
    <3>1. j \in DOMAIN saves /\ saves[j].text = form.text
          /\ (saves[j].pc = "saved" => rows[saves[j].made].text = form.text)
          /\ (saves[j].id \notin {0, form.articleId} => rows[form.articleId].text = form.text)
      BY <2>1, <2>7 DEF TextIsKept, OnItsWay
    <3>2. CASE j = i
      <4>1. saves'[j] = s /\ s.text = form.text /\ rows'[s.made].text = form.text
        BY <1>15, <1>20, <1>21, <2>2, <3>2
      <4>2. s.id \notin {0, form.articleId} => rows'[form.articleId].text = form.text
        BY <1>2, <1>20, <2>2, <2>3, <2>5, <2>6, <3>1, <3>2
      <4>3. QED
        BY <4>1, <4>2
    <3>3. CASE j # i
      <4>1. saves'[j] = saves[j]
        BY <1>21, <3>1, <3>3
      <4>2. saves[j].pc = "saved" => rows'[saves[j].made].text = form.text
        BY <2>2, <2>3, <2>4, <2>6, <3>1
      <4>3. saves[j].id \notin {0, form.articleId} => rows'[form.articleId].text = form.text
        BY <2>2, <2>3, <2>5, <2>6, <3>1
      <4>4. QED
        BY <3>1, <4>1, <4>2, <4>3
    <3>4. QED
      BY <3>2, <3>3
  <2>8. ASSUME NEW j \in DOMAIN saves, saves'[j].pc = "acting"
        PROVE  /\ rows'[saves'[j].made].text = saves'[j].text
               /\ \A k \in OnItsWay : k < j => saves'[k].text = saves'[j].text
    <3>1. j # i /\ saves'[j] = saves[j] /\ saves[j].pc = "acting"
      BY <1>20, <1>21, <2>8
    <3>2. rows[saves[j].made].text = saves[j].text /\ \A k \in OnItsWay : k < j => saves[k].text = saves[j].text
      BY <2>1, <3>1 DEF TextIsKept
    <3>3. i < j
      <4>1. i \in Nat /\ j \in Nat /\ i >= 1 /\ j >= 1
        BY <1>9
      <4>2. ~(j \in 1..(i - 1))
        BY <3>1 DEF Serve, InTurn
      <4>3. QED
        BY <3>1, <4>1, <4>2
    <3>4. r.text = saves[j].text
      BY <1>2, <1>25, <3>2, <3>3
    <3>5. rows'[saves[j].made].text = saves[j].text
      BY <2>3, <2>4, <2>6, <3>1, <3>2, <3>4
    <3>6. \A k \in OnItsWay : saves'[k].text = saves[k].text
      BY <1>2, <1>20, <1>21 DEF OnItsWay
    <3>7. QED
      BY <3>1, <3>2, <3>5, <3>6
  <2>9. ~form.dirty /\ form.articleId # 0 => rows'[form.articleId].text = form.text
    BY <2>1, <2>2, <2>3, <2>5 DEF TextIsKept
  <2>10. QED
    BY <1>12, <1>21, <1>25, <2>7, <2>8, <2>9 DEF TextIsKept
<1>27. ASSUME ~overtaken PROVE CreatedOnce'
  <2>1. CreatedOnce
    BY <1>1, <1>27
  <2>2. CASE r.id = 0
    <3>1. form.articleId = 0 /\ \A j \in Creating : j = i
      BY <1>25, <2>1, <2>2 DEF CreatedOnce
    <3>2. ~\E j \in Creating : saves[j].pc = "saved"
      BY <1>2, <1>9, <3>1
    <3>3. Len(rows) = 0
      BY <2>1, <3>1, <3>2 DEF CreatedOnce
    <3>4. Len(rows') = 1
      BY <1>15, <2>2, <3>3
    <3>5. saves'[i].pc = "saved" /\ i \in Creating'
      BY <1>20, <1>21, <1>25, <2>2
    <3>6. \A j \in Creating', k \in Creating' : j = k
      BY <1>25, <3>1
    <3>7. QED
      BY <1>12, <3>1, <3>4, <3>5, <3>6 DEF CreatedOnce
  <2>3. CASE r.id # 0
    <3>1. form.articleId # 0 /\ Creating = {}
      BY <1>11, <2>1, <2>3 DEF CreatedOnce
    <3>2. Len(rows) = 1
      BY <2>1, <3>1 DEF CreatedOnce
    <3>3. Len(rows') = 1
      BY <1>15, <2>3, <3>2
    <3>4. QED
      BY <1>12, <1>25, <3>1, <3>3 DEF CreatedOnce
  <2>4. QED
    BY <2>2, <2>3
<1>28. QED
  BY <1>12, <1>23, <1>24, <1>26, <1>27 DEF EditorInv

\* A save as it goes on.
GoneOn(r, pc) == [r EXCEPT !.pc = pc]

LEMMA GoneOnFacts ==
    ASSUME NEW r \in Save, NEW pc, pc \in {"waiting", "sent", "saved", "refused", "lost", "acting", "over"}
    PROVE  /\ GoneOn(r, pc) \in Save /\ GoneOn(r, pc).pc = pc /\ GoneOn(r, pc).text = r.text
           /\ GoneOn(r, pc).id = r.id /\ GoneOn(r, pc).made = r.made
<1>1. PICK s : s = [r EXCEPT !.pc = pc]
  OBVIOUS
<1>2. s \in Save /\ s.pc = pc /\ s.text = r.text /\ s.id = r.id /\ s.made = r.made
  BY <1>1, SaveGoesOn
<1>3. s = GoneOn(r, pc)
  BY <1>1 DEF GoneOn
<1>4. QED
  BY <1>2, <1>3

\* The answer to a save settles it, and sends those that waited for it.
LEMMA OnwardFacts ==
    ASSUME saves \in Seq(Save), inFlight \in 0..Len(saves), NEW i \in DOMAIN saves,
           saves[i].pc # "waiting", NEW pc, pc \in {"acting", "over"}, Onward(i, pc)
    PROVE  /\ saves' \in Seq(Save) /\ Len(saves') = Len(saves) /\ DOMAIN saves' = DOMAIN saves
           /\ inFlight' \in 0..Len(saves) /\ saves'[i].pc = pc
           /\ \A j \in DOMAIN saves :
                  /\ saves'[j].text = saves[j].text /\ saves'[j].id = saves[j].id
                  /\ saves'[j].made = saves[j].made
                  /\ j # i => \/ saves'[j].pc = saves[j].pc
                              \/ saves[j].pc = "waiting" /\ saves'[j].pc = "sent"
<1>1. PICK sent : sent = "sent"
  OBVIOUS
<1>2. DOMAIN saves = 1..Len(saves) /\ Len(saves) \in Nat
  OBVIOUS
<1>3. saves' = [j \in DOMAIN saves |->
           IF j = i THEN GoneOn(saves[j], pc)
           ELSE IF j \in Released(i) THEN GoneOn(saves[j], sent) ELSE saves[j]]
  BY <1>1 DEF Onward, GoneOn
<1>4. ASSUME NEW j \in DOMAIN saves
      PROVE  /\ saves'[j] \in Save /\ saves'[j].text = saves[j].text /\ saves'[j].id = saves[j].id
             /\ saves'[j].made = saves[j].made
             /\ j = i => saves'[j].pc = pc
             /\ j # i => \/ saves'[j].pc = saves[j].pc
                         \/ saves[j].pc = "waiting" /\ saves'[j].pc = "sent"
  <2>1. saves[j] \in Save
    OBVIOUS
  <2>2. CASE j = i
    <3>1. saves'[j] = GoneOn(saves[j], pc)
      BY <1>3, <2>2
    <3>2. QED
      BY <2>1, <2>2, <3>1, GoneOnFacts
  <2>3. CASE j # i /\ j \in Released(i)
    <3>1. saves'[j] = GoneOn(saves[j], sent)
      BY <1>3, <2>3
    <3>2. saves[j].pc = "waiting"
      BY <2>3 DEF Released
    <3>3. QED
      BY <1>1, <2>1, <2>3, <3>1, <3>2, GoneOnFacts
  <2>4. CASE j # i /\ j \notin Released(i)
    BY <1>3, <2>1, <2>4
  <2>5. QED
    BY <2>2, <2>3, <2>4
<1>5. saves' \in [1..Len(saves) -> Save]
  <2>1. saves' = [j \in DOMAIN saves |-> saves'[j]]
    BY <1>3
  <2>2. QED
    BY <1>2, <1>4, <2>1
<1>6. saves' \in Seq(Save) /\ Len(saves') = Len(saves) /\ DOMAIN saves' = DOMAIN saves
  BY <1>2, <1>5
<1>7. inFlight' \in 0..Len(saves)
  <2>1. CASE Released(i) = {}
    BY <1>2, <2>1 DEF Onward
  <2>2. CASE Released(i) # {}
    <3>1. Released(i) \subseteq 1..Len(saves) /\ Released(i) \subseteq Nat
      BY <1>2 DEF Released
    <3>2. \A y \in Released(i) : y <= Len(saves)
      BY <1>2, <3>1
    <3>3. \E j \in Released(i) : \A k \in Released(i) : k <= j
      BY <1>2, <2>2, <3>1, <3>2, Greatest
    <3>4. inFlight' \in Released(i)
      <4>1. inFlight' = CHOOSE j \in Released(i) : \A k \in Released(i) : k <= j
        BY <2>2 DEF Onward
      <4>2. QED
        BY <3>3, <4>1
    <3>5. QED
      BY <1>2, <3>1, <3>4
  <2>3. QED
    BY <2>1, <2>2
<1>8. QED
  BY <1>4, <1>6, <1>7

\* What the answer makes of the form.
LEMMA AnswerFacts ==
    ASSUME NEW f, f \in Form, NEW s, s \in Save
    PROVE  /\ AfterButton(Settled(f, s), s) \in Form
           /\ AfterButton(Settled(f, s), s).text = f.text
           /\ AfterButton(Settled(f, s), s).dirty = IF s.pc = "saved" THEN FALSE ELSE f.dirty
           /\ AfterButton(Settled(f, s), s).articleId =
                  IF s.pc = "saved" /\ s.id = 0 THEN s.made ELSE f.articleId
<1>1. PICK g : g = Settled(f, s)
  OBVIOUS
<1>2. PICK h : h = AfterButton(g, s)
  OBVIOUS
<1>3. PICK id : id = IF s.id = 0 THEN s.made ELSE f.articleId
  OBVIOUS
<1>4. /\ f = [text |-> f.text, dirty |-> f.dirty, armed |-> f.armed, articleId |-> f.articleId,
              pending |-> f.pending, open |-> f.open]
      /\ f.text \in 0..TextBound /\ f.articleId \in 0..SaveBound
      /\ f.pending \in Buttons \cup {"none"} /\ f.open \in BOOLEAN
  BY FormFields
<1>5. id \in 0..SaveBound
  BY <1>3, <1>4, SaveFields
<1>6. g \in Form /\ g.text = f.text /\ g.dirty = (IF s.pc = "saved" THEN FALSE ELSE f.dirty)
      /\ g.articleId = (IF s.pc = "saved" THEN id ELSE f.articleId)
  <2>1. CASE s.pc = "saved"
    <3>1. g = [f EXCEPT !.dirty = FALSE, !.armed = FALSE, !.articleId = id]
      BY <1>1, <1>3, <2>1 DEF Settled
    <3>2. g = [text |-> f.text, dirty |-> FALSE, armed |-> FALSE, articleId |-> id,
               pending |-> f.pending, open |-> f.open]
      BY <1>4, <3>1
    <3>3. /\ g = [text |-> g.text, dirty |-> g.dirty, armed |-> g.armed, articleId |-> g.articleId,
                  pending |-> g.pending, open |-> g.open]
          /\ g.text = f.text /\ g.dirty = FALSE /\ g.armed = FALSE /\ g.articleId = id
          /\ g.pending = f.pending /\ g.open = f.open
      BY <3>2
    <3>4. g \in Form
      BY <1>4, <1>5, <3>3, FormIsMade
    <3>5. QED
      BY <2>1, <3>3, <3>4
  <2>2. CASE s.pc # "saved"
    BY <1>1, <2>2 DEF Settled
  <2>3. QED
    BY <2>1, <2>2
<1>7. h \in Form /\ h.text = g.text /\ h.dirty = g.dirty /\ h.articleId = g.articleId
  <2>1. PICK none : none = "none"
    OBVIOUS
  <2>2. none \in Buttons \cup {"none"} /\ g.open \in BOOLEAN
        /\ g = [text |-> g.text, dirty |-> g.dirty, armed |-> g.armed, articleId |-> g.articleId,
                pending |-> g.pending, open |-> g.open]
    BY <1>6, <2>1, FormFields
  <2>3. PICK shut : shut = [g EXCEPT !.pending = none, !.open = FALSE]
    OBVIOUS
  <2>4. PICK free : free = [g EXCEPT !.pending = none, !.open = g.open]
    OBVIOUS
  <2>5. free = [g EXCEPT !.pending = none]
    BY <2>2, <2>4
  <2>6. h \in {g, shut, Rearmed(free)}
    BY <1>2, <2>1, <2>3, <2>5 DEF AfterButton
  <2>7. shut \in Form /\ shut.text = g.text /\ shut.dirty = g.dirty /\ shut.articleId = g.articleId
    BY <1>6, <2>2, <2>3, ButtonFacts
  <2>8. free \in Form /\ free.text = g.text /\ free.dirty = g.dirty /\ free.articleId = g.articleId
    BY <1>6, <2>2, <2>4, ButtonFacts
  <2>9. Rearmed(free) \in Form /\ Rearmed(free).text = g.text /\ Rearmed(free).dirty = g.dirty
        /\ Rearmed(free).articleId = g.articleId
    BY <2>8, RearmedFacts
  <2>10. QED
    BY <1>6, <2>6, <2>7, <2>9
<1>8. QED
  BY <1>1, <1>2, <1>3, <1>6, <1>7

LEMMA SettleKeeps ==
    ASSUME EditorInv, NEW i \in DOMAIN saves, Settle(i)
    PROVE  EditorInv'
<1>1. EditorTyped /\ RowsAreMade /\ (~slipped => TextIsKept) /\ (~overtaken => CreatedOnce)
  BY DEF EditorInv
<1>2. PICK r : r = saves[i]
  OBVIOUS
<1>3. PICK pc : pc = IF r.why = "publish" /\ r.pc = "saved" THEN "acting" ELSE "over"
  OBVIOUS
<1>4. /\ r.pc \in {"saved", "refused", "lost"} /\ form' = AfterButton(Settled(form, r), r)
      /\ Onward(i, pc) /\ UNCHANGED <<rows, slipped, overtaken>>
  BY <1>2, <1>3 DEF Settle
<1>5. r \in Save /\ SaveIsSound(r) /\ saves \in Seq(Save) /\ inFlight \in 0..Len(saves) /\ form \in Form
  BY <1>1, <1>2 DEF EditorTyped
<1>6. /\ saves' \in Seq(Save) /\ Len(saves') = Len(saves) /\ DOMAIN saves' = DOMAIN saves
      /\ inFlight' \in 0..Len(saves) /\ saves'[i].pc = pc
      /\ \A j \in DOMAIN saves :
             /\ saves'[j].text = saves[j].text /\ saves'[j].id = saves[j].id
             /\ saves'[j].made = saves[j].made
             /\ j # i => \/ saves'[j].pc = saves[j].pc
                         \/ saves[j].pc = "waiting" /\ saves'[j].pc = "sent"
  <2>1. pc \in {"acting", "over"} /\ saves[i].pc # "waiting"
    BY <1>2, <1>3, <1>4
  <2>2. QED
    BY <1>4, <1>5, <2>1, OnwardFacts
<1>7. /\ form' \in Form /\ form'.text = form.text
      /\ form'.dirty = IF r.pc = "saved" THEN FALSE ELSE form.dirty
      /\ form'.articleId = IF r.pc = "saved" /\ r.id = 0 THEN r.made ELSE form.articleId
  BY <1>4, <1>5, AnswerFacts
<1>8. /\ r.id <= Len(rows) /\ r.made <= Len(rows) /\ (r.id # 0 => form.articleId # 0)
      /\ (r.pc = "saved" => r.made # 0) /\ (r.pc = "saved" /\ r.id # 0 => r.made = r.id)
  BY <1>5 DEF SaveIsSound
<1>9. form.articleId # 0 => form'.articleId # 0
  BY <1>7, <1>8
<1>10. EditorTyped'
  <2>1. ASSUME NEW j \in DOMAIN saves PROVE SaveIsSound(saves[j])'
    <3>1. SaveIsSound(saves[j])
      BY <1>1 DEF EditorTyped
    <3>2. saves'[j].id <= Len(rows') /\ saves'[j].made <= Len(rows')
          /\ (saves'[j].id # 0 => form'.articleId # 0)
      BY <1>4, <1>6, <1>9, <3>1 DEF SaveIsSound
    <3>3. CASE j = i
      <4>1. pc = "acting" => saves'[j].made # 0
        BY <1>2, <1>3, <1>6, <1>8, <3>3
      <4>2. saves'[j].pc \in {"acting", "over"}
        BY <1>3, <1>6, <3>3
      <4>3. QED
        BY <1>6, <3>2, <3>3, <4>1, <4>2 DEF SaveIsSound
    <3>4. CASE j # i
      <4>1. saves'[j].pc \in {"waiting", "sent"} => saves'[j].made = 0
        BY <1>6, <3>1, <3>4 DEF SaveIsSound
      <4>2. saves'[j].pc \in {"saved", "acting"} => saves'[j].made # 0
        BY <1>6, <3>1, <3>4 DEF SaveIsSound
      <4>3. saves'[j].pc = "saved" /\ saves'[j].id # 0 => saves'[j].made = saves'[j].id
        BY <1>6, <3>1, <3>4 DEF SaveIsSound
      <4>4. QED
        BY <3>2, <4>1, <4>2, <4>3 DEF SaveIsSound
    <3>5. QED
      BY <3>3, <3>4
  <2>2. form'.articleId <= Len(rows)
    <3>1. form.articleId <= Len(rows)
      BY <1>1 DEF EditorTyped
    <3>2. QED
      BY <1>7, <1>8, <3>1
  <2>3. QED
    BY <1>1, <1>4, <1>6, <1>7, <2>1, <2>2 DEF EditorTyped
<1>11. RowsAreMade'
  <2>1. Makers' = Makers
    <3>1. \A j : j \in Makers' <=> j \in Makers
      BY <1>6 DEF Makers
    <3>2. QED
      BY <3>1
  <2>2. CASE Len(rows) <= Cardinality(Makers)
    BY <1>4, <2>1, <2>2 DEF RowsAreMade
  <2>3. CASE Len(rows) = 1 /\ form.articleId # 0 /\ \A j \in DOMAIN saves : saves[j].id # 0
    <3>1. \A j \in DOMAIN saves' : saves'[j].id # 0
      BY <1>6, <2>3
    <3>2. QED
      BY <1>4, <1>9, <2>3, <3>1 DEF RowsAreMade
  <2>4. QED
    BY <1>1, <2>2, <2>3 DEF RowsAreMade
<1>12. \A j : j \in OnItsWay' <=> j \in OnItsWay /\ j # i
  <2>1. ASSUME NEW j \in DOMAIN saves
        PROVE  saves'[j].pc \in {"waiting", "sent", "saved"} <=>
                   saves[j].pc \in {"waiting", "sent", "saved"} /\ j # i
    BY <1>3, <1>6
  <2>2. QED
    BY <1>6, <2>1 DEF OnItsWay
<1>13. \A j \in OnItsWay : j \in DOMAIN saves
  BY DEF OnItsWay
<1>14. r.pc = "saved" => i \in OnItsWay
  BY <1>2 DEF OnItsWay
<1>15. ASSUME ~slipped PROVE TextIsKept'
  <2>1. TextIsKept
    BY <1>1, <1>15
  <2>2. r.pc = "saved" => r.text = form.text /\ rows[r.made].text = form.text
                          /\ (r.id \notin {0, form.articleId} => rows[form.articleId].text = form.text)
    BY <1>2, <1>14, <2>1 DEF TextIsKept
  <2>3. ASSUME NEW j \in OnItsWay'
        PROVE  /\ saves'[j].text = form'.text
               /\ saves'[j].pc = "saved" => rows'[saves'[j].made].text = form'.text
               /\ saves'[j].id \notin {0, form'.articleId} => rows'[form'.articleId].text = form'.text
    <3>1. j \in OnItsWay /\ j # i /\ j \in DOMAIN saves
      BY <1>12, <1>13, <2>3
    <3>2. saves'[j].text = saves[j].text /\ saves'[j].id = saves[j].id /\ saves'[j].made = saves[j].made
          /\ (saves'[j].pc = "saved" => saves[j].pc = "saved")
      BY <1>6, <3>1
    <3>3. saves[j].text = form.text /\ (saves[j].pc = "saved" => rows[saves[j].made].text = form.text)
          /\ (saves[j].id \notin {0, form.articleId} => rows[form.articleId].text = form.text)
      BY <2>1, <3>1 DEF TextIsKept
    <3>4. saves[j].id \notin {0, form'.articleId} => rows[form'.articleId].text = form.text
      BY <1>7, <2>2, <3>3
    <3>5. QED
      BY <1>4, <1>7, <3>2, <3>3, <3>4
  <2>4. ASSUME NEW j \in DOMAIN saves', saves'[j].pc = "acting"
        PROVE  /\ rows'[saves'[j].made].text = saves'[j].text
               /\ \A k \in OnItsWay' : k < j => saves'[k].text = saves'[j].text
    <3>1. j \in DOMAIN saves /\ saves'[j].made = saves[j].made /\ saves'[j].text = saves[j].text
      BY <1>6, <2>4
    <3>2. \A k \in OnItsWay' : k \in OnItsWay /\ saves'[k].text = saves[k].text
      BY <1>6, <1>12, <1>13
    <3>3. CASE j = i
      <4>1. r.pc = "saved"
        BY <1>3, <1>6, <2>4, <3>3
      <4>2. rows[r.made].text = r.text
        BY <2>2, <4>1
      <4>3. \A k \in OnItsWay : saves[k].text = r.text
        BY <2>1, <2>2, <4>1 DEF TextIsKept
      <4>4. QED
        BY <1>2, <1>4, <3>1, <3>2, <3>3, <4>2, <4>3
    <3>4. CASE j # i
      <4>1. saves[j].pc = "acting"
        BY <1>6, <2>4, <3>1, <3>4
      <4>2. QED
        BY <1>4, <2>1, <3>1, <3>2, <4>1 DEF TextIsKept
    <3>5. QED
      BY <3>3, <3>4
  <2>5. ~form'.dirty /\ form'.articleId # 0 => rows[form'.articleId].text = form.text
    <3>1. CASE r.pc = "saved"
      BY <1>7, <1>8, <2>2, <3>1
    <3>2. CASE r.pc # "saved"
      BY <1>7, <2>1, <3>2 DEF TextIsKept
    <3>3. QED
      BY <3>1, <3>2
  <2>6. QED
    BY <1>4, <1>7, <2>3, <2>4, <2>5 DEF TextIsKept
<1>16. ASSUME ~overtaken PROVE CreatedOnce'
  <2>1. CreatedOnce
    BY <1>1, <1>16
  <2>2. \A j : j \in Creating' <=> j \in Creating /\ j # i
    BY <1>6, <1>12, <1>13 DEF Creating
  <2>3. CASE r.pc = "saved" /\ r.id = 0
    <3>1. i \in Creating
      BY <1>2, <1>14, <2>3 DEF Creating
    <3>2. Creating' = {}
      BY <2>1, <2>2, <3>1 DEF CreatedOnce
    <3>3. saves[i].pc = "saved"
      BY <1>2, <2>3
    <3>4. Len(rows) = 1
      BY <2>1, <3>1, <3>3 DEF CreatedOnce
    <3>5. form'.articleId # 0
      BY <1>7, <1>8, <2>3
    <3>6. QED
      BY <1>4, <3>2, <3>4, <3>5 DEF CreatedOnce
  <2>4. CASE ~(r.pc = "saved" /\ r.id = 0)
    <3>1. i \notin Creating
      BY <1>2, <1>4, <2>4 DEF Creating, OnItsWay
    <3>2. Creating' = Creating /\ form'.articleId = form.articleId
      BY <1>7, <2>2, <2>4, <3>1
    <3>3. (\E j \in Creating : saves'[j].pc = "saved") <=> \E j \in Creating : saves[j].pc = "saved"
      BY <1>6, <1>13, <3>1 DEF Creating
    <3>4. QED
      BY <1>4, <2>1, <3>2, <3>3 DEF CreatedOnce
  <2>5. QED
    BY <2>3, <2>4
<1>17. QED
  BY <1>4, <1>10, <1>11, <1>15, <1>16 DEF EditorInv

LEMMA EditorStart == EditorInit => EditorInv
<1> SUFFICES ASSUME EditorInit PROVE EditorInv
  OBVIOUS
<1>1. saves = <<>> /\ inFlight = 0 /\ slipped = FALSE /\ overtaken = FALSE
  BY DEF EditorInit
<1>2. saves \in Seq(Save) /\ Len(saves) = 0 /\ DOMAIN saves = {} /\ OnItsWay = {} /\ Creating = {} /\ Makers = {}
  BY <1>1 DEF OnItsWay, Creating, Makers
<1>3. PICK none : none = "none"
  OBVIOUS
<1>4. PICK id \in {0, 1} : /\ form = [text |-> 0, dirty |-> FALSE, armed |-> FALSE, articleId |-> id,
                                        pending |-> none, open |-> TRUE]
                          /\ rows = IF id = 0 THEN <<>> ELSE <<[text |-> 0, public |-> FALSE]>>
  BY <1>3 DEF EditorInit, Blank
<1>5. 0 \in 0..TextBound /\ id \in 0..SaveBound /\ none \in Buttons \cup {"none"}
  BY <1>3, EditorAssumption
<1>6. form \in Form /\ form.articleId = id /\ form.text = 0
  BY <1>4, <1>5 DEF Form
<1>7. rows \in Seq(ArticleRow) /\ Len(rows) = id /\ (id # 0 => rows[id].text = 0)
  <2>1. CASE id = 0
    BY <1>4, <2>1
  <2>2. CASE id = 1
    <3>1. PICK row : row = [text |-> 0, public |-> FALSE]
      OBVIOUS
    <3>2. row \in ArticleRow /\ row.text = 0
      BY <1>5, <3>1 DEF ArticleRow
    <3>3. rows = <<row>>
      BY <1>4, <2>2, <3>1
    <3>4. QED
      BY <2>2, <3>2, <3>3
  <2>3. QED
    BY <2>1, <2>2
<1>8. EditorTyped
  <2>1. inFlight \in 0..Len(saves) /\ Len(saves) <= SaveBound
    BY <1>1, <1>2, EditorAssumption
  <2>2. form.articleId <= Len(rows)
    BY <1>5, <1>6, <1>7
  <2>3. \A i \in DOMAIN saves : SaveIsSound(saves[i])
    BY <1>2
  <2>4. QED
    BY <1>1, <1>2, <1>6, <1>7, <2>1, <2>2, <2>3 DEF EditorTyped
<1>9. RowsAreMade
  <2>1. Cardinality(Makers) = 0
    BY <1>2, FS_EmptySet
  <2>2. QED
    BY <1>2, <1>6, <1>7, <2>1 DEF RowsAreMade
<1>10. TextIsKept
  BY <1>2, <1>6, <1>7 DEF TextIsKept
<1>11. CreatedOnce
  BY <1>2, <1>6, <1>7 DEF CreatedOnce
<1>12. QED
  BY <1>8, <1>9, <1>10, <1>11 DEF EditorInv

LEMMA EditorStep == EditorInv /\ [EditorNext]_editorVars => EditorInv'
<1> SUFFICES ASSUME EditorInv, [EditorNext]_editorVars PROVE EditorInv'
  OBVIOUS
<1>1. CASE Type
  BY <1>1, TypeKeeps
<1>2. CASE Autosave
  BY <1>2, AutosaveKeeps
<1>3. CASE PublishSaved
  BY <1>3, PublishSavedKeeps
<1>4. CASE \E why \in Buttons : Press(why)
  BY <1>4, PressKeeps
<1>5. ASSUME NEW i \in DOMAIN saves, Serve(i) PROVE EditorInv'
  BY <1>5, ServeKeeps
<1>6. ASSUME NEW i \in DOMAIN saves, Refuse(i) PROVE EditorInv'
  BY <1>6, RefuseKeeps
<1>7. ASSUME NEW i \in DOMAIN saves, Lose(i) PROVE EditorInv'
  BY <1>7, LoseKeeps
<1>8. ASSUME NEW i \in DOMAIN saves, Settle(i) PROVE EditorInv'
  BY <1>8, SettleKeeps
<1>9. ASSUME NEW i \in DOMAIN saves, Act(i) PROVE EditorInv'
  BY <1>9, ActKeeps
<1>10. CASE UNCHANGED editorVars
  BY <1>10 DEF editorVars, EditorInv, EditorTyped, SaveIsSound, Makers, RowsAreMade, TextIsKept, OnItsWay,
               Creating, CreatedOnce
<1>11. QED
  BY <1>1, <1>2, <1>3, <1>4, <1>5, <1>6, <1>7, <1>8, <1>9, <1>10 DEF EditorNext

LEMMA EditorInvImplies == EditorInv => EditorTypeOK /\ FormKeepsItsStory
<1> SUFFICES ASSUME EditorInv PROVE EditorTypeOK /\ FormKeepsItsStory
  OBVIOUS
<1>1. EditorTyped /\ (~slipped => TextIsKept) /\ (~overtaken => CreatedOnce)
  BY DEF EditorInv
<1>2. EditorTypeOK
  BY <1>1 DEF EditorTyped, EditorTypeOK, ArticleRow
<1>3. ~slipped /\ ~form.dirty /\ form.articleId # 0 => rows[form.articleId].text = form.text
  BY <1>1 DEF TextIsKept
<1>4. ~slipped => \A i \in DOMAIN saves : saves[i].pc = "acting" => rows[saves[i].made].text = saves[i].text
  BY <1>1 DEF TextIsKept
<1>5. ~overtaken => Len(rows) <= 1
  <2>1. ASSUME ~overtaken PROVE Len(rows) = 0 \/ Len(rows) = 1
    BY <1>1, <2>1 DEF CreatedOnce
  <2>2. (Len(rows) = 0 \/ Len(rows) = 1) => Len(rows) <= 1
    <3>1. PICK n : n = Len(rows)
      OBVIOUS
    <3>2. n = 0 \/ n = 1 => n <= 1
      OBVIOUS
    <3>3. QED
      BY <3>1, <3>2
  <2>3. QED
    BY <2>1, <2>2, Zenon
<1>6. QED
  BY <1>2, <1>3, <1>4, <1>5 DEF FormKeepsItsStory

\* What the writer typed is on the screen, on its way, or in the row of its own
\* article, and one save creates that article.
THEOREM FormKeepsTheStory == EditorSpec => []EditorInv
<1>1. EditorInit => EditorInv
  BY EditorStart
<1>2. EditorInv /\ [EditorNext]_editorVars => EditorInv'
  BY EditorStep
<1>3. QED
  BY <1>1, <1>2, PTL DEF EditorSpec

---------------------------------------------------------------------------
(* Uploads: quarantine, scan, store                                      *)

ViewerPc == {"idle", "making", "writing", "got part", "got whole", "refused"}
ViewerRow == [pc : ViewerPc, overlapped : BOOLEAN]

UploadsTyped ==
    /\ setup \in Setup /\ upload \in [Upload -> UploadRow]
    /\ quarantine \subseteq Upload /\ kept \subseteq Upload /\ media \subseteq Upload
    /\ copy \in {"none", "part", "whole"} /\ views \in 0..ViewBound
    /\ viewer \in [Viewer -> ViewerRow] /\ spoilt \in BOOLEAN

\* What the scanner, or the new encoding where there is none, has made safe.
IsChecked(row) == IF setup.clamd THEN row.scan = "clean" ELSE row.encoded

\* An upload is stored when it is checked, gets its row when it is stored,
\* and leaves nothing in quarantine that has been answered.
UploadIsSafe(u) ==
    /\ upload[u].pc \in {"put", "finalize"} => upload[u].direct
    /\ upload[u].pc \in {"store", "row"} => IsChecked(upload[u])
    /\ u \in kept => IsChecked(upload[u]) /\ upload[u].pc \in {"row", "clear", "answered", "left"}
    /\ upload[u].pc = "row" => u \in kept
    /\ u \in media => u \in kept
    /\ u \in quarantine =>
           upload[u].direct /\ upload[u].pc \notin {"ticket", "put", "send", "answered"}

\* Part of a copy is there while it is written, or after its writer went down.
CopyIsSafe ==
    /\ copy = "part" => spoilt \/ \E v \in Viewer : viewer[v].pc = "writing"
    /\ \A v \in Viewer : viewer[v].pc = "got part" => viewer[v].overlapped \/ spoilt

\* What holds of every upload, and of the copy readers are given.
UploadsInv == UploadsTyped /\ (\A u \in Upload : UploadIsSafe(u)) /\ CopyIsSafe

LEMMA UploadFields ==
    ASSUME NEW r \in UploadRow
    PROVE  /\ r = [pc |-> r.pc, kind |-> r.kind, direct |-> r.direct, encoded |-> r.encoded, scan |-> r.scan]
           /\ r.pc \in UploadPc /\ r.kind \in Kind /\ r.direct \in BOOLEAN /\ r.encoded \in BOOLEAN
           /\ r.scan \in {"none", "clean", "infected", "unavailable", "error"}
BY DEF UploadRow

LEMMA UploadIsMade ==
    ASSUME NEW r,
           r = [pc |-> r.pc, kind |-> r.kind, direct |-> r.direct, encoded |-> r.encoded, scan |-> r.scan],
           r.pc \in UploadPc, r.kind \in Kind, r.direct \in BOOLEAN, r.encoded \in BOOLEAN,
           r.scan \in {"none", "clean", "infected", "unavailable", "error"}
    PROVE  r \in UploadRow
BY DEF UploadRow

\* An upload goes on, and what is known of it.
LEMMA UploadGoesOn ==
    ASSUME NEW r \in UploadRow, NEW pc \in UploadPc, NEW d \in BOOLEAN, NEW e \in BOOLEAN,
           NEW scan \in {"none", "clean", "infected", "unavailable", "error"}, NEW row,
           row = [pc |-> pc, kind |-> r.kind, direct |-> d, encoded |-> e, scan |-> scan]
    PROVE  row \in UploadRow /\ row.pc = pc /\ row.direct = d /\ row.encoded = e /\ row.scan = scan
<1>1. /\ row = [pc |-> row.pc, kind |-> row.kind, direct |-> row.direct, encoded |-> row.encoded,
                scan |-> row.scan]
      /\ row.pc = pc /\ row.kind = r.kind /\ row.direct = d /\ row.encoded = e /\ row.scan = scan
  OBVIOUS
<1>2. r.kind \in Kind
  BY UploadFields
<1>3. row \in UploadRow
  BY <1>1, <1>2, UploadIsMade
<1>4. QED
  BY <1>1, <1>3

\* An upload changes, and meets no other.
LEMMA UploadMeetsNone ==
    ASSUME UploadsInv, NEW u \in Upload, NEW row \in UploadRow, upload' = [upload EXCEPT ![u] = row],
           UNCHANGED <<setup, copy, viewer, views, spoilt>>,
           quarantine' \subseteq Upload, kept' \subseteq Upload, media' \subseteq Upload,
           \A w \in Upload : w # u => /\ w \in quarantine' <=> w \in quarantine
                                      /\ w \in kept' <=> w \in kept
                                      /\ w \in media' <=> w \in media,
           UploadIsSafe(u)'
    PROVE  UploadsInv'
<1>1. UploadsTyped /\ (\A w \in Upload : UploadIsSafe(w)) /\ CopyIsSafe
  BY DEF UploadsInv
<1>2. upload' \in [Upload -> UploadRow] /\ \A w \in Upload : w # u => upload'[w] = upload[w]
  BY <1>1 DEF UploadsTyped
<1>3. UploadsTyped'
  BY <1>1, <1>2 DEF UploadsTyped
<1>4. ASSUME NEW w \in Upload PROVE UploadIsSafe(w)'
  <2>1. CASE w = u
    BY <2>1
  <2>2. CASE w # u
    <3>1. UploadIsSafe(w) /\ upload'[w] = upload[w] /\ setup' = setup
      BY <1>1, <1>2, <2>2
    <3>2. (w \in quarantine' <=> w \in quarantine) /\ (w \in kept' <=> w \in kept) /\ (w \in media' <=> w \in media)
      BY <2>2
    <3>3. QED
      BY <3>1, <3>2 DEF UploadIsSafe, IsChecked
  <2>3. QED
    BY <2>1, <2>2
<1>5. CopyIsSafe'
  BY <1>1 DEF CopyIsSafe
<1>6. QED
  BY <1>3, <1>4, <1>5 DEF UploadsInv

\* Goes changes where an upload stands.
LEMMA GoesFacts ==
    ASSUME UploadsInv, NEW u \in Upload, NEW pc \in UploadPc, Goes(u, pc)
    PROVE  \E row \in UploadRow :
               /\ upload' = [upload EXCEPT ![u] = row] /\ upload'[u] = row
               /\ row.pc = pc /\ row.direct = upload[u].direct /\ row.encoded = upload[u].encoded
               /\ row.scan = upload[u].scan
<1>1. upload \in [Upload -> UploadRow]
  BY DEF UploadsInv, UploadsTyped
<1>2. PICK r : r = upload[u]
  OBVIOUS
<1>3. PICK row : row = [r EXCEPT !.pc = pc]
  OBVIOUS
<1>4. upload' = [upload EXCEPT ![u] = row] /\ upload'[u] = row
  BY <1>1, <1>2, <1>3 DEF Goes
<1>5. r \in UploadRow
  BY <1>1, <1>2
<1>6. /\ r = [pc |-> r.pc, kind |-> r.kind, direct |-> r.direct, encoded |-> r.encoded, scan |-> r.scan]
      /\ r.direct \in BOOLEAN /\ r.encoded \in BOOLEAN
      /\ r.scan \in {"none", "clean", "infected", "unavailable", "error"}
  BY <1>5, UploadFields
<1>7. row = [pc |-> pc, kind |-> r.kind, direct |-> r.direct, encoded |-> r.encoded, scan |-> r.scan]
  BY <1>3, <1>6
<1>8. row \in UploadRow /\ row.pc = pc /\ row.direct = r.direct /\ row.encoded = r.encoded /\ row.scan = r.scan
  BY <1>5, <1>6, <1>7, UploadGoesOn
<1>9. QED
  BY <1>2, <1>4, <1>8

\* An upload that has come no further than the scan is not kept.
LEMMA GoesEarly ==
    ASSUME UploadsInv, NEW u \in Upload, NEW pc, Goes(u, pc), UNCHANGED <<setup, copy, viewer, views, spoilt>>,
           pc \in {"finalize", "detect", "encode", "scan", "clear", "answered", "left"},
           pc = "finalize" => upload[u].direct,
           quarantine' \in {quarantine, quarantine \cup {u}}, kept' = kept, media' = media,
           u \in quarantine' => upload[u].direct /\ pc # "answered",
           pc \in {"finalize", "detect", "encode", "scan"} => u \notin kept
    PROVE  UploadsInv'
<1>1. UploadsTyped /\ UploadIsSafe(u)
  BY DEF UploadsInv
<1>2. pc \in UploadPc
  BY DEF UploadPc
<1>3. PICK row \in UploadRow :
          /\ upload' = [upload EXCEPT ![u] = row] /\ upload'[u] = row
          /\ row.pc = pc /\ row.direct = upload[u].direct /\ row.encoded = upload[u].encoded
          /\ row.scan = upload[u].scan
  BY <1>2, GoesFacts
<1>4. IsChecked(upload[u]) => IsChecked(upload[u])'
  BY <1>3 DEF IsChecked
<1>5. UploadIsSafe(u)'
  <2>1. upload'[u].pc \in {"put", "finalize"} => upload'[u].direct
    BY <1>3
  <2>2. upload'[u].pc \notin {"store", "row"}
    BY <1>3
  <2>3. u \in kept => IsChecked(upload[u])' /\ upload'[u].pc \in {"row", "clear", "answered", "left"}
    BY <1>1, <1>3, <1>4 DEF UploadIsSafe
  <2>4. u \in media => u \in kept
    BY <1>1 DEF UploadIsSafe
  <2>5. u \in quarantine' => upload'[u].direct /\ upload'[u].pc \notin {"ticket", "put", "send", "answered"}
    BY <1>3
  <2>6. QED
    BY <2>1, <2>2, <2>3, <2>4, <2>5 DEF UploadIsSafe
<1>6. /\ quarantine' \subseteq Upload /\ kept' \subseteq Upload /\ media' \subseteq Upload
      /\ \A w \in Upload : w # u => (w \in quarantine' <=> w \in quarantine)
  BY <1>1 DEF UploadsTyped
<1>7. QED
  BY <1>3, <1>5, <1>6, UploadMeetsNone

\* What is known of an upload before it is scanned, of the upload row as it was.
LEMMA NotYetKept ==
    ASSUME UploadsInv, NEW u \in Upload,
           upload[u].pc \in {"ticket", "put", "finalize", "send", "detect", "encode", "scan", "store"}
    PROVE  u \notin kept /\ u \notin media
BY DEF UploadsInv, UploadIsSafe

LEMMA AskForUrlKeeps ==
    ASSUME UploadsInv, NEW u \in Upload, AskForUrl(u)
    PROVE  UploadsInv'
<1>1. UploadsTyped /\ UploadIsSafe(u) /\ u \notin kept /\ u \notin media
  BY NotYetKept DEF UploadsInv, AskForUrl, UploadAt
<1>2. u \notin quarantine
  BY <1>1 DEF UploadIsSafe, AskForUrl, UploadAt
<1>3. UNCHANGED <<setup, copy, viewer, views, spoilt, quarantine, kept, media>>
  BY DEF AskForUrl, Stores, Copies
<1>4. CASE Goes(u, "answered")
  <2>1. PICK pc : pc = "answered"
    OBVIOUS
  <2>2. Goes(u, pc) /\ pc \in {"finalize", "detect", "encode", "scan", "clear", "answered", "left"}
        /\ pc \notin {"finalize", "detect", "encode", "scan"}
    BY <1>4, <2>1
  <2>3. QED
    BY <1>2, <1>3, <2>2, GoesEarly
<1>5. CASE Known(u, [upload[u] EXCEPT !.pc = IF setup.s3 THEN "put" ELSE "send", !.direct = setup.s3])
  <2>1. PICK pc : pc = IF setup.s3 THEN "put" ELSE "send"
    OBVIOUS
  <2>2. PICK d : d = setup.s3
    OBVIOUS
  <2>3. PICK r : r = upload[u]
    OBVIOUS
  <2>4. PICK row : row = [r EXCEPT !.pc = pc, !.direct = d]
    OBVIOUS
  <2>5. upload' = [upload EXCEPT ![u] = row]
    BY <1>5, <2>1, <2>2, <2>3, <2>4 DEF Known
  <2>6. r \in UploadRow /\ d \in BOOLEAN
    BY <1>1, <2>2, <2>3 DEF UploadsTyped, Setup
  <2>7. /\ r = [pc |-> r.pc, kind |-> r.kind, direct |-> r.direct, encoded |-> r.encoded, scan |-> r.scan]
        /\ r.encoded \in BOOLEAN /\ r.scan \in {"none", "clean", "infected", "unavailable", "error"}
    BY <2>6, UploadFields
  <2>8. row = [pc |-> pc, kind |-> r.kind, direct |-> d, encoded |-> r.encoded, scan |-> r.scan]
    BY <2>4, <2>7
  <2>9. pc \in UploadPc
    BY <2>1 DEF UploadPc
  <2>10. row \in UploadRow /\ row.pc = pc /\ row.direct = d
    BY <2>6, <2>7, <2>8, <2>9, UploadGoesOn
  <2>11. upload'[u] = row
    BY <1>1, <2>5 DEF UploadsTyped
  <2>12. UploadIsSafe(u)'
    <3>1. upload'[u].pc \in {"put", "send"} /\ (upload'[u].pc = "put" => upload'[u].direct)
      BY <2>1, <2>2, <2>10, <2>11
    <3>2. QED
      BY <1>1, <1>2, <1>3, <3>1 DEF UploadIsSafe
  <2>13. quarantine' \subseteq Upload /\ kept' \subseteq Upload /\ media' \subseteq Upload
    BY <1>1, <1>3 DEF UploadsTyped
  <2>14. QED
    BY <1>3, <2>5, <2>10, <2>12, <2>13, UploadMeetsNone
<1>6. QED
  BY <1>4, <1>5 DEF AskForUrl

LEMMA PutKeeps ==
    ASSUME UploadsInv, NEW u \in Upload, Put(u)
    PROVE  UploadsInv'
<1>1. upload[u].direct /\ u \notin kept
  BY NotYetKept DEF UploadsInv, UploadIsSafe, Put, UploadAt
<1>2. UNCHANGED <<setup, copy, viewer, views, spoilt, kept, media>>
  BY DEF Put, Copies
<1>3. PICK pc \in {"finalize", "left"} : Goes(u, pc) /\ quarantine' \in {quarantine, quarantine \cup {u}}
  BY DEF Put
<1>4. pc \in {"finalize", "detect", "encode", "scan", "clear", "answered", "left"} /\ pc # "answered"
  BY <1>3
<1>5. QED
  BY <1>1, <1>2, <1>3, <1>4, GoesEarly

LEMMA FinalizeKeeps ==
    ASSUME UploadsInv, NEW u \in Upload, Finalize(u)
    PROVE  UploadsInv'
<1>1. upload[u].direct /\ u \notin kept
  BY NotYetKept DEF UploadsInv, UploadIsSafe, Finalize, UploadAt
<1>2. UNCHANGED <<setup, copy, viewer, views, spoilt, quarantine, kept, media>>
  BY DEF Finalize, Copies, Stores
<1>3. PICK pc \in {"detect", "left"} : Goes(u, pc)
  BY DEF Finalize
<1>4. pc \in {"finalize", "detect", "encode", "scan", "clear", "answered", "left"} /\ pc # "answered"
  BY <1>3
<1>5. QED
  BY <1>1, <1>2, <1>3, <1>4, GoesEarly

LEMMA SendThroughKeeps ==
    ASSUME UploadsInv, NEW u \in Upload, SendThrough(u)
    PROVE  UploadsInv'
<1>1. u \notin quarantine /\ u \notin kept
  BY NotYetKept DEF UploadsInv, UploadIsSafe, SendThrough, UploadAt
<1>2. UNCHANGED <<setup, copy, viewer, views, spoilt, quarantine, kept, media>>
  BY DEF SendThrough, Copies, Stores
<1>3. PICK pc \in {"detect", "answered"} : Goes(u, pc)
  BY DEF SendThrough
<1>4. pc \in {"finalize", "detect", "encode", "scan", "clear", "answered", "left"} /\ pc # "finalize"
  BY <1>3
<1>5. QED
  BY <1>1, <1>2, <1>3, <1>4, GoesEarly

LEMMA DetectTypeKeeps ==
    ASSUME UploadsInv, NEW u \in Upload, DetectType(u)
    PROVE  UploadsInv'
<1>1. u \notin kept /\ (u \in quarantine => upload[u].direct)
  BY NotYetKept DEF UploadsInv, UploadIsSafe, DetectType, UploadAt
<1>2. UNCHANGED <<setup, copy, viewer, views, spoilt, quarantine, kept, media>>
  BY DEF DetectType, Copies, Stores
<1>3. PICK pc \in {"encode", "clear", "answered"} : Goes(u, pc) /\ (pc = "answered" => ~upload[u].direct)
  BY DEF DetectType, Ends
<1>4. pc \in {"finalize", "detect", "encode", "scan", "clear", "answered", "left"} /\ pc # "finalize"
  BY <1>3
<1>5. QED
  BY <1>1, <1>2, <1>3, <1>4, GoesEarly

LEMMA ReEncodeKeeps ==
    ASSUME UploadsInv, NEW u \in Upload, ReEncode(u)
    PROVE  UploadsInv'
<1>1. u \notin kept /\ u \notin media /\ (u \in quarantine => upload[u].direct)
  BY NotYetKept DEF UploadsInv, UploadIsSafe, ReEncode, UploadAt
<1>2. UNCHANGED <<setup, copy, viewer, views, spoilt, quarantine, kept, media>>
  BY DEF ReEncode, Copies, Stores
<1>3. UploadsTyped
  BY DEF UploadsInv
<1>4. CASE \E pc \in {"scan", "clear", "answered"} : Goes(u, pc) /\ (pc = "answered" => ~upload[u].direct)
  <2>1. PICK pc \in {"scan", "clear", "answered"} : Goes(u, pc) /\ (pc = "answered" => ~upload[u].direct)
    BY <1>4
  <2>2. pc \in {"finalize", "detect", "encode", "scan", "clear", "answered", "left"} /\ pc # "finalize"
    BY <2>1
  <2>3. QED
    BY <1>1, <1>2, <2>1, <2>2, GoesEarly
<1>5. CASE Known(u, [upload[u] EXCEPT !.pc = "scan", !.encoded = TRUE])
  <2>1. PICK pc : pc = "scan"
    OBVIOUS
  <2>2. PICK r : r = upload[u]
    OBVIOUS
  <2>14. PICK e : e = TRUE
    OBVIOUS
  <2>3. PICK row : row = [r EXCEPT !.pc = pc, !.encoded = e]
    OBVIOUS
  <2>4. upload' = [upload EXCEPT ![u] = row]
    BY <1>5, <2>1, <2>2, <2>3, <2>14 DEF Known
  <2>5. r \in UploadRow
    BY <1>3, <2>2 DEF UploadsTyped
  <2>6. /\ r = [pc |-> r.pc, kind |-> r.kind, direct |-> r.direct, encoded |-> r.encoded, scan |-> r.scan]
        /\ r.direct \in BOOLEAN /\ r.scan \in {"none", "clean", "infected", "unavailable", "error"}
    BY <2>5, UploadFields
  <2>7. row = [pc |-> pc, kind |-> r.kind, direct |-> r.direct, encoded |-> e, scan |-> r.scan]
    BY <2>3, <2>6
  <2>8. pc \in UploadPc /\ e \in BOOLEAN
    BY <2>1, <2>14 DEF UploadPc
  <2>9. row \in UploadRow /\ row.pc = pc /\ row.direct = r.direct
    BY <2>5, <2>6, <2>7, <2>8, UploadGoesOn
  <2>10. upload'[u] = row
    BY <1>3, <2>4 DEF UploadsTyped
  <2>11. UploadIsSafe(u)'
    <3>1. upload'[u].pc = "scan" /\ upload'[u].direct = upload[u].direct
      BY <2>1, <2>2, <2>9, <2>10
    <3>2. QED
      BY <1>1, <1>2, <3>1 DEF UploadIsSafe
  <2>12. quarantine' \subseteq Upload /\ kept' \subseteq Upload /\ media' \subseteq Upload
    BY <1>2, <1>3 DEF UploadsTyped
  <2>13. QED
    BY <1>2, <2>4, <2>9, <2>11, <2>12, UploadMeetsNone
<1>6. QED
  BY <1>4, <1>5 DEF ReEncode, Ends

LEMMA ScanKeeps ==
    ASSUME UploadsInv, NEW u \in Upload, Scan(u)
    PROVE  UploadsInv'
<1>1. u \notin kept /\ u \notin media /\ (u \in quarantine => upload[u].direct)
  BY NotYetKept DEF UploadsInv, UploadIsSafe, Scan, UploadAt
<1>2. UNCHANGED <<setup, copy, viewer, views, spoilt, quarantine, kept, media>>
  BY DEF Scan, Copies, Stores
<1>3. UploadsTyped
  BY DEF UploadsInv
<1>4. PICK scan \in Answers : Known(u, [upload[u] EXCEPT !.scan = scan,
                                 !.pc = IF Refuses(upload[u], scan) THEN Ends(u) ELSE "store"])
  BY DEF Scan
<1>5. PICK r : r = upload[u]
  OBVIOUS
<1>6. PICK pc : pc = IF Refuses(r, scan) THEN Ends(u) ELSE "store"
  OBVIOUS
<1>7. PICK row : row = [r EXCEPT !.scan = scan, !.pc = pc]
  OBVIOUS
<1>8. upload' = [upload EXCEPT ![u] = row]
  BY <1>4, <1>5, <1>6, <1>7 DEF Known
<1>9. r \in UploadRow
  BY <1>3, <1>5 DEF UploadsTyped
<1>10. /\ r = [pc |-> r.pc, kind |-> r.kind, direct |-> r.direct, encoded |-> r.encoded, scan |-> r.scan]
       /\ r.direct \in BOOLEAN /\ r.encoded \in BOOLEAN
  BY <1>9, UploadFields
<1>11. row = [pc |-> pc, kind |-> r.kind, direct |-> r.direct, encoded |-> r.encoded, scan |-> scan]
  BY <1>7, <1>10
<1>12. pc \in UploadPc /\ pc \in {"clear", "answered", "store"} /\ (pc = "answered" => ~r.direct)
       /\ (pc = "store" => ~Refuses(r, scan))
  BY <1>5, <1>6 DEF UploadPc, Ends
<1>13. scan \in {"none", "clean", "infected", "unavailable", "error"}
  BY DEF Answers
<1>14. row \in UploadRow /\ row.pc = pc /\ row.direct = r.direct /\ row.encoded = r.encoded /\ row.scan = scan
  BY <1>9, <1>10, <1>11, <1>12, <1>13, UploadGoesOn
<1>15. upload'[u] = row
  BY <1>3, <1>8 DEF UploadsTyped
<1>16. pc = "store" => IF setup.clamd THEN scan = "clean" ELSE r.encoded
  BY <1>12 DEF Refuses, Answers
<1>17. UploadIsSafe(u)'
  <2>1. upload'[u].pc \in {"store", "row"} => IsChecked(upload[u])'
    BY <1>2, <1>12, <1>14, <1>15, <1>16 DEF IsChecked
  <2>2. upload'[u].pc \in {"clear", "answered", "store"} /\ upload'[u].direct = upload[u].direct
        /\ (upload'[u].pc = "answered" => ~upload[u].direct)
    BY <1>5, <1>12, <1>14, <1>15
  <2>3. QED
    BY <1>1, <1>2, <2>1, <2>2 DEF UploadIsSafe
<1>18. quarantine' \subseteq Upload /\ kept' \subseteq Upload /\ media' \subseteq Upload
  BY <1>2, <1>3 DEF UploadsTyped
<1>19. QED
  BY <1>2, <1>8, <1>14, <1>17, <1>18, UploadMeetsNone

LEMMA StoreObjectKeeps ==
    ASSUME UploadsInv, NEW u \in Upload, StoreObject(u)
    PROVE  UploadsInv'
<1>1. UploadsTyped /\ UploadIsSafe(u) /\ u \notin kept /\ u \notin media
  BY NotYetKept DEF UploadsInv, StoreObject, UploadAt
<1>2. IsChecked(upload[u]) /\ (u \in quarantine => upload[u].direct)
  BY <1>1 DEF UploadIsSafe, StoreObject, UploadAt
<1>3. UNCHANGED <<setup, copy, viewer, views, spoilt, quarantine, media>>
  BY DEF StoreObject, Copies
<1>4. CASE kept' = kept /\ Goes(u, Ends(u))
  <2>1. PICK pc \in {"clear", "answered"} : Goes(u, pc) /\ (pc = "answered" => ~upload[u].direct)
    BY <1>4 DEF Ends
  <2>2. pc \in {"finalize", "detect", "encode", "scan", "clear", "answered", "left"} /\ pc # "finalize"
    BY <2>1
  <2>3. QED
    BY <1>1, <1>2, <1>3, <1>4, <2>1, <2>2, GoesEarly
<1>5. CASE kept' = kept \cup {u} /\ Goes(u, "row")
  <2>1. "row" \in UploadPc
    BY DEF UploadPc
  <2>2. PICK row \in UploadRow :
            /\ upload' = [upload EXCEPT ![u] = row] /\ upload'[u] = row
            /\ row.pc = "row" /\ row.direct = upload[u].direct /\ row.encoded = upload[u].encoded
            /\ row.scan = upload[u].scan
    BY <1>5, <2>1, GoesFacts
  <2>3. IsChecked(upload[u])'
    BY <1>2, <1>3, <2>2 DEF IsChecked
  <2>4. UploadIsSafe(u)'
    BY <1>1, <1>2, <1>3, <1>5, <2>2, <2>3 DEF UploadIsSafe
  <2>5. /\ quarantine' \subseteq Upload /\ kept' \subseteq Upload /\ media' \subseteq Upload
        /\ \A w \in Upload : w # u => (w \in kept' <=> w \in kept)
    BY <1>1, <1>3, <1>5 DEF UploadsTyped
  <2>6. QED
    BY <1>3, <2>2, <2>4, <2>5, UploadMeetsNone
<1>6. QED
  BY <1>4, <1>5 DEF StoreObject

LEMMA CreateRowKeeps ==
    ASSUME UploadsInv, NEW u \in Upload, CreateRow(u)
    PROVE  UploadsInv'
<1>1. UploadsTyped /\ UploadIsSafe(u)
  BY DEF UploadsInv
<1>2. u \in kept /\ IsChecked(upload[u]) /\ (u \in quarantine => upload[u].direct)
  BY <1>1 DEF UploadIsSafe, CreateRow, UploadAt
<1>3. UNCHANGED <<setup, copy, viewer, views, spoilt, quarantine, kept>> /\ media' \in {media, media \cup {u}}
  BY DEF CreateRow, Copies
<1>4. PICK pc \in {"clear", "answered"} : Goes(u, pc) /\ (pc = "answered" => ~upload[u].direct)
  BY DEF CreateRow, Ends
<1>5. pc \in UploadPc
  BY <1>4 DEF UploadPc
<1>6. PICK row \in UploadRow :
          /\ upload' = [upload EXCEPT ![u] = row] /\ upload'[u] = row
          /\ row.pc = pc /\ row.direct = upload[u].direct /\ row.encoded = upload[u].encoded
          /\ row.scan = upload[u].scan
  BY <1>4, <1>5, GoesFacts
<1>7. IsChecked(upload[u])'
  BY <1>2, <1>3, <1>6 DEF IsChecked
<1>8. UploadIsSafe(u)'
  <2>1. upload'[u].pc \in {"clear", "answered"} /\ (upload'[u].pc = "answered" => ~upload[u].direct)
        /\ upload'[u].direct = upload[u].direct
    BY <1>4, <1>6
  <2>2. QED
    BY <1>2, <1>3, <1>7, <2>1 DEF UploadIsSafe
<1>9. /\ quarantine' \subseteq Upload /\ kept' \subseteq Upload /\ media' \subseteq Upload
      /\ \A w \in Upload : w # u => (w \in media' <=> w \in media)
  BY <1>1, <1>3 DEF UploadsTyped
<1>10. QED
  BY <1>3, <1>6, <1>8, <1>9, UploadMeetsNone

LEMMA ClearQuarantineKeeps ==
    ASSUME UploadsInv, NEW u \in Upload, ClearQuarantine(u)
    PROVE  UploadsInv'
<1>1. UploadsTyped /\ UploadIsSafe(u)
  BY DEF UploadsInv
<1>2. UNCHANGED <<setup, copy, viewer, views, spoilt, kept, media>>
  BY DEF ClearQuarantine, Copies
<1>3. PICK pc \in {"answered", "left"} :
          /\ Goes(u, pc) /\ quarantine' \in {quarantine, quarantine \ {u}}
          /\ pc = "answered" => u \notin quarantine'
  BY DEF ClearQuarantine
<1>4. pc \in UploadPc
  BY <1>3 DEF UploadPc
<1>5. PICK row \in UploadRow :
          /\ upload' = [upload EXCEPT ![u] = row] /\ upload'[u] = row
          /\ row.pc = pc /\ row.direct = upload[u].direct /\ row.encoded = upload[u].encoded
          /\ row.scan = upload[u].scan
  BY <1>3, <1>4, GoesFacts
<1>6. IsChecked(upload[u]) => IsChecked(upload[u])'
  BY <1>2, <1>5 DEF IsChecked
<1>7. UploadIsSafe(u)'
  <2>1. upload'[u].pc \in {"answered", "left"} /\ (upload'[u].pc = "answered" => u \notin quarantine')
        /\ upload'[u].direct = upload[u].direct
    BY <1>3, <1>5
  <2>2. u \in kept => IsChecked(upload[u])'
    BY <1>1, <1>6 DEF UploadIsSafe
  <2>3. u \in quarantine' => upload'[u].direct
    BY <1>1, <1>3, <2>1 DEF UploadIsSafe
  <2>4. u \in media => u \in kept
    BY <1>1 DEF UploadIsSafe
  <2>5. QED
    BY <1>2, <2>1, <2>2, <2>3, <2>4 DEF UploadIsSafe
<1>8. /\ quarantine' \subseteq Upload /\ kept' \subseteq Upload /\ media' \subseteq Upload
      /\ \A w \in Upload : w # u => (w \in quarantine' <=> w \in quarantine)
  BY <1>1, <1>2, <1>3 DEF UploadsTyped
<1>9. QED
  BY <1>2, <1>5, <1>7, <1>8, UploadMeetsNone

LEMMA LeaveKeeps ==
    ASSUME UploadsInv, NEW u \in Upload, Leave(u)
    PROVE  UploadsInv'
<1>1. UNCHANGED <<setup, copy, viewer, views, spoilt, quarantine, kept, media>>
  BY DEF Leave, Copies, Stores
<1>2. u \in quarantine => upload[u].direct
  BY DEF UploadsInv, UploadIsSafe
<1>3. PICK pc : pc = "left"
  OBVIOUS
<1>4. Goes(u, pc) /\ pc \in {"finalize", "detect", "encode", "scan", "clear", "answered", "left"}
      /\ pc \notin {"finalize", "detect", "encode", "scan", "answered"}
  BY <1>3 DEF Leave
<1>5. QED
  BY <1>1, <1>2, <1>4, GoesEarly

\* A request for the copy changes, and the copy with it.
LEMMA ViewerGoesOn ==
    ASSUME UploadsInv, NEW v \in Viewer, NEW row \in ViewerRow, viewer' = [viewer EXCEPT ![v] = row],
           UNCHANGED <<setup, upload, quarantine, kept, media>>,
           copy' \in {"none", "part", "whole"}, views' \in 0..ViewBound, spoilt' \in BOOLEAN, spoilt => spoilt',
           copy' = "part" => \/ spoilt' \/ row.pc = "writing"
                             \/ copy = "part" /\ viewer[v].pc # "writing",
           row.pc = "got part" => row.overlapped \/ spoilt'
    PROVE  UploadsInv'
<1>1. UploadsTyped /\ (\A u \in Upload : UploadIsSafe(u)) /\ CopyIsSafe
  BY DEF UploadsInv
<1>2. viewer' \in [Viewer -> ViewerRow] /\ viewer'[v] = row /\ \A w \in Viewer : w # v => viewer'[w] = viewer[w]
  BY <1>1 DEF UploadsTyped
<1>3. UploadsTyped'
  BY <1>1, <1>2 DEF UploadsTyped
<1>4. \A u \in Upload : UploadIsSafe(u)'
  BY <1>1 DEF UploadIsSafe, IsChecked
<1>5. copy' = "part" => spoilt' \/ \E w \in Viewer : viewer'[w].pc = "writing"
  <2>1. CASE row.pc = "writing"
    BY <1>2, <2>1
  <2>2. CASE copy = "part" /\ viewer[v].pc # "writing" /\ ~spoilt
    <3>1. PICK w \in Viewer : viewer[w].pc = "writing"
      BY <1>1, <2>2 DEF CopyIsSafe
    <3>2. QED
      BY <1>2, <2>2, <3>1
  <2>3. QED
    BY <2>1, <2>2
<1>6. \A w \in Viewer : viewer'[w].pc = "got part" => viewer'[w].overlapped \/ spoilt'
  BY <1>1, <1>2 DEF CopyIsSafe
<1>7. QED
  BY <1>3, <1>4, <1>5, <1>6 DEF UploadsInv, CopyIsSafe

\* See changes where a request stands.
LEMMA SeeFacts ==
    ASSUME UploadsInv, NEW v \in Viewer, NEW pc \in ViewerPc, See(v, pc)
    PROVE  \E row \in ViewerRow : viewer' = [viewer EXCEPT ![v] = row] /\ row.pc = pc
<1>1. viewer \in [Viewer -> ViewerRow]
  BY DEF UploadsInv, UploadsTyped
<1>2. PICK r : r = viewer[v]
  OBVIOUS
<1>3. PICK row : row = [r EXCEPT !.pc = pc]
  OBVIOUS
<1>4. viewer' = [viewer EXCEPT ![v] = row]
  BY <1>2, <1>3 DEF See
<1>5. r = [pc |-> r.pc, overlapped |-> r.overlapped] /\ r.overlapped \in BOOLEAN
  <2>1. r \in ViewerRow
    BY <1>1, <1>2
  <2>2. QED
    BY <2>1 DEF ViewerRow
<1>6. row = [pc |-> pc, overlapped |-> r.overlapped]
  BY <1>3, <1>5
<1>7. row \in ViewerRow /\ row.pc = pc
  BY <1>5, <1>6 DEF ViewerRow
<1>8. QED
  BY <1>4, <1>7

LEMMA AskForCopyKeeps ==
    ASSUME UploadsInv, NEW v \in Viewer, AskForCopy(v)
    PROVE  UploadsInv'
<1>1. UploadsTyped /\ CopyIsSafe
  BY DEF UploadsInv
<1>2. PICK over : over = Writing(v)
  OBVIOUS
<1>3. PICK pc : pc = CASE copy = "none" -> "making" [] copy = "part" -> "got part" [] OTHER -> "got whole"
  OBVIOUS
<1>4. PICK row : row = [overlapped |-> over, pc |-> pc]
  OBVIOUS
<1>5. /\ viewer' = [viewer EXCEPT ![v] = row] /\ views < ViewBound /\ views' = views + 1
      /\ UNCHANGED <<copy, spoilt, setup, upload, quarantine, kept, media>>
  BY <1>2, <1>3, <1>4 DEF AskForCopy, CopyOnly
<1>6. over \in BOOLEAN
  BY <1>2 DEF Writing
<1>7. pc \in {"making", "got part", "got whole"} /\ (pc = "got part" => copy = "part")
  BY <1>3
<1>8. row \in ViewerRow /\ row.pc = pc /\ row.overlapped = over
  BY <1>4, <1>6, <1>7 DEF ViewerRow, ViewerPc
<1>9. views' \in 0..ViewBound
  BY <1>1, <1>5, UploadsAssumption DEF UploadsTyped
<1>10. viewer[v].pc = "idle"
  BY DEF AskForCopy
<1>11. row.pc = "got part" => row.overlapped \/ spoilt'
  <2>1. SUFFICES ASSUME copy = "part", ~spoilt PROVE over
    BY <1>5, <1>7, <1>8
  <2>2. PICK w \in Viewer : viewer[w].pc = "writing"
    BY <1>1, <2>1 DEF CopyIsSafe
  <2>3. w # v
    BY <1>10, <2>2
  <2>4. QED
    BY <1>2, <2>2, <2>3 DEF Writing
<1>12. copy' \in {"none", "part", "whole"} /\ spoilt' \in BOOLEAN /\ (spoilt => spoilt')
       /\ (copy' = "part" => copy = "part" /\ viewer[v].pc # "writing")
  BY <1>1, <1>5, <1>10 DEF UploadsTyped
<1>13. QED
  BY <1>5, <1>8, <1>9, <1>11, <1>12, ViewerGoesOn

LEMMA CopyStepKeeps ==
    ASSUME UploadsInv, NEW v \in Viewer, MakeCopy(v) \/ FinishCopy(v) \/ WriterGoesDown(v) \/ Shown(v)
    PROVE  UploadsInv'
<1>1. UploadsTyped
  BY DEF UploadsInv
<1>2. UNCHANGED <<setup, upload, quarantine, kept, media>> /\ views' = views
  BY DEF MakeCopy, FinishCopy, WriterGoesDown, Shown, CopyOnly
<1>3. PICK pc \in {"idle", "writing", "got whole", "refused"} :
          /\ See(v, pc) /\ copy' \in {copy, "part", "whole"} /\ spoilt' \in {spoilt, TRUE}
          /\ copy' = "part" => \/ spoilt' \/ pc = "writing"
                               \/ copy = "part" /\ viewer[v].pc # "writing"
  <2>1. CASE MakeCopy(v)
    <3>1. viewer[v].pc # "writing" /\ spoilt' = spoilt
      BY <2>1 DEF MakeCopy
    <3>2. CASE copy' = "part" /\ See(v, "writing")
      BY <3>1, <3>2
    <3>3. CASE copy' = copy /\ See(v, "refused")
      BY <3>1, <3>3
    <3>4. QED
      BY <2>1, <3>2, <3>3 DEF MakeCopy
  <2>2. CASE FinishCopy(v)
    BY <2>2 DEF FinishCopy
  <2>3. CASE WriterGoesDown(v)
    BY <2>3 DEF WriterGoesDown
  <2>4. CASE Shown(v)
    <3>1. viewer[v].pc # "writing" /\ spoilt' = spoilt /\ copy' = copy /\ See(v, "idle")
      BY <2>4 DEF Shown
    <3>2. QED
      BY <3>1
  <2>5. QED
    BY <2>1, <2>2, <2>3, <2>4
<1>4. pc \in ViewerPc /\ pc # "got part"
  BY <1>3 DEF ViewerPc
<1>5. PICK row \in ViewerRow : viewer' = [viewer EXCEPT ![v] = row] /\ row.pc = pc
  <2>1. See(v, pc)
    BY <1>3
  <2>2. \E row \in ViewerRow : viewer' = [viewer EXCEPT ![v] = row] /\ row.pc = pc
    BY <1>4, <2>1, SeeFacts
  <2>3. QED
    BY <2>2
<1>6. copy' \in {"none", "part", "whole"} /\ views' \in 0..ViewBound
  BY <1>1, <1>2, <1>3 DEF UploadsTyped
<1>7. spoilt' \in BOOLEAN /\ (spoilt => spoilt')
  <2>1. spoilt \in BOOLEAN
    BY <1>1 DEF UploadsTyped
  <2>2. spoilt' = spoilt \/ spoilt' = TRUE
    BY <1>3
  <2>3. QED
    BY <2>1, <2>2
<1>8. /\ copy' = "part" => \/ spoilt' \/ row.pc = "writing"
                           \/ copy = "part" /\ viewer[v].pc # "writing"
      /\ row.pc = "got part" => row.overlapped \/ spoilt'
  BY <1>3, <1>4, <1>5
<1>9. QED
  BY <1>2, <1>5, <1>6, <1>7, <1>8, ViewerGoesOn

LEMMA UploadsStart == UploadsInit => UploadsInv
<1> SUFFICES ASSUME UploadsInit PROVE UploadsInv
  OBVIOUS
<1>1. UploadsTyped
  <2>1. upload \in [Upload -> UploadRow]
    BY DEF UploadsInit, UploadRow, UploadPc
  <2>2. viewer \in [Viewer -> ViewerRow]
    BY DEF UploadsInit, ViewerRow, ViewerPc
  <2>3. views \in 0..ViewBound
    BY UploadsAssumption DEF UploadsInit
  <2>4. QED
    BY <2>1, <2>2, <2>3 DEF UploadsInit, UploadsTyped
<1>2. ASSUME NEW u \in Upload PROVE UploadIsSafe(u)
  <2>1. upload[u].pc = "ticket"
    BY DEF UploadsInit
  <2>2. QED
    BY <2>1 DEF UploadsInit, UploadIsSafe
<1>3. CopyIsSafe
  <2>1. copy = "none" /\ \A v \in Viewer : viewer[v].pc = "idle"
    BY DEF UploadsInit
  <2>2. QED
    BY <2>1 DEF CopyIsSafe
<1>4. QED
  BY <1>1, <1>2, <1>3 DEF UploadsInv

LEMMA UploadsStep == UploadsInv /\ [UploadsNext]_uploadVars => UploadsInv'
<1> SUFFICES ASSUME UploadsInv, [UploadsNext]_uploadVars PROVE UploadsInv'
  OBVIOUS
<1>1. CASE UNCHANGED uploadVars
  BY <1>1 DEF uploadVars, UploadsInv, UploadsTyped, UploadIsSafe, IsChecked, CopyIsSafe
<1>2. ASSUME NEW u \in Upload,
             \/ AskForUrl(u) \/ Put(u) \/ Finalize(u) \/ SendThrough(u)
             \/ DetectType(u) \/ ReEncode(u) \/ Scan(u) \/ StoreObject(u) \/ CreateRow(u)
             \/ ClearQuarantine(u) \/ Leave(u)
      PROVE  UploadsInv'
  BY <1>2, AskForUrlKeeps, PutKeeps, FinalizeKeeps, SendThroughKeeps, DetectTypeKeeps, ReEncodeKeeps,
     ScanKeeps, StoreObjectKeeps, CreateRowKeeps, ClearQuarantineKeeps, LeaveKeeps
<1>3. ASSUME NEW v \in Viewer,
             AskForCopy(v) \/ MakeCopy(v) \/ FinishCopy(v) \/ WriterGoesDown(v) \/ Shown(v)
      PROVE  UploadsInv'
  BY <1>3, AskForCopyKeeps, CopyStepKeeps
<1>4. QED
  BY <1>1, <1>2, <1>3 DEF UploadsNext

LEMMA UploadsInvImplies == UploadsInv => UploadsTypeOK /\ UploadsAreSafe
<1> SUFFICES ASSUME UploadsInv PROVE UploadsTypeOK /\ UploadsAreSafe
  OBVIOUS
<1>1. UploadsTyped /\ (\A u \in Upload : UploadIsSafe(u)) /\ CopyIsSafe
  BY DEF UploadsInv
<1>2. UploadsTypeOK
  BY <1>1 DEF UploadsTyped, UploadsTypeOK
<1>3. ServedIsChecked
  <2>1. \A u \in kept : IF setup.clamd THEN upload[u].scan = "clean" ELSE upload[u].encoded
    BY <1>1 DEF UploadsTyped, UploadIsSafe, IsChecked
  <2>2. media \subseteq kept
    BY <1>1 DEF UploadsTyped, UploadIsSafe
  <2>3. \A u \in quarantine : ~UploadAt(u, "answered")
    BY <1>1 DEF UploadsTyped, UploadIsSafe, UploadAt
  <2>4. QED
    BY <2>1, <2>2, <2>3 DEF ServedIsChecked
<1>4. PicturesAreWhole
  BY <1>1 DEF CopyIsSafe, PicturesAreWhole
<1>5. QED
  BY <1>2, <1>3, <1>4 DEF UploadsAreSafe

\* A file reaches the media store when it is checked, gets its row when it is
\* stored, and readers are given whole copies.
THEOREM UploadsStaySafe == UploadsSpec => []UploadsInv
<1>1. UploadsInit => UploadsInv
  BY UploadsStart
<1>2. UploadsInv /\ [UploadsNext]_uploadVars => UploadsInv'
  BY UploadsStep
<1>3. QED
  BY <1>1, <1>2, PTL DEF UploadsSpec

---------------------------------------------------------------------------
(* Surfaces: the pages that show stories                                 *)

\* While a section is being deleted that had no story, none is given to it
\* unless its save was written meanwhile.
SurfacesInv ==
    /\ SurfacesTypeOK
    /\ \A p \in Piece : shelf[p].section => section
    /\ ~midClear => \A p \in given : shelf[p].section
    /\ clearing /\ ~midClear => given = {}

TaleRow == [there : BOOLEAN, public : BOOLEAN, lang : Lang, of : Tale \cup {0}]

\* No version is of itself, and what is public is there.
TranslationsInv ==
    /\ tale \in [Tale -> TaleRow]
    /\ \A a \in Tale : tale[a].of # a /\ (tale[a].public => tale[a].there)

\* The readable versions one or two links away.
Kin(a) == {b \in Readable(Tale) : b # a /\ Akin(a, b)}
\* OtherVersions, taken apart.
Found(a) == [i \in DOMAIN Candidates(a) |-> Readable(Candidates(a)[i]) \ {a}]
FoundFor(a, l) == {i \in DOMAIN Found(a) : \E b \in Found(a)[i] : tale[b].lang = l}
FirstFor(a, l) == CHOOSE i \in FoundFor(a, l) : \A j \in FoundFor(a, l) : i <= j
Told(a, l) == CHOOSE b \in Found(a)[FirstFor(a, l)] : tale[b].lang = l

LEMMA PieceFields ==
    ASSUME NEW r \in PieceRow
    PROVE  /\ r = [by |-> r.by, public |-> r.public, anonymous |-> r.anonymous, section |-> r.section]
           /\ r.by \in Writer /\ r.public \in BOOLEAN /\ r.anonymous \in BOOLEAN /\ r.section \in BOOLEAN
BY DEF PieceRow

LEMMA PieceIsMade ==
    ASSUME NEW b \in Writer, NEW p \in BOOLEAN, NEW a \in BOOLEAN, NEW s \in BOOLEAN, NEW r,
           r = [by |-> b, public |-> p, anonymous |-> a, section |-> s]
    PROVE  r \in PieceRow /\ r.by = b /\ r.public = p /\ r.anonymous = a /\ r.section = s
BY DEF PieceRow

\* The section of one row is set.
LEMMA SectionIsSet ==
    ASSUME shelf \in [Piece -> PieceRow], NEW p \in Piece, NEW v \in BOOLEAN,
           shelf' = [shelf EXCEPT ![p].section = v]
    PROVE  /\ shelf' \in [Piece -> PieceRow] /\ shelf'[p].section = v
           /\ \A q \in Piece : q # p => shelf'[q] = shelf[q]
<1>1. PICK r : r = shelf[p]
  OBVIOUS
<1>2. PICK row : row = [r EXCEPT !.section = v]
  OBVIOUS
<1>3. r \in PieceRow
  BY <1>1
<1>4. /\ r = [by |-> r.by, public |-> r.public, anonymous |-> r.anonymous, section |-> r.section]
      /\ r.by \in Writer /\ r.public \in BOOLEAN /\ r.anonymous \in BOOLEAN /\ r.section \in BOOLEAN
  BY <1>3, PieceFields
<1>5. row = [by |-> r.by, public |-> r.public, anonymous |-> r.anonymous, section |-> v]
  BY <1>2, <1>4
<1>6. row \in PieceRow /\ row.section = v
  BY <1>4, <1>5, PieceIsMade
<1>7. shelf' = [shelf EXCEPT ![p] = row]
  BY <1>1, <1>2
<1>8. QED
  BY <1>6, <1>7

LEMMA WriteInSectionKeeps ==
    ASSUME SurfacesInv, NEW p \in Piece, WriteInSection(p)
    PROVE  SurfacesInv'
<1>1. SurfacesTypeOK /\ UNCHANGED <<writer, section, clearing>> /\ filing' = filing \ {p}
  BY DEF SurfacesInv, WriteInSection
<1>2. CASE section
  <2>1. PICK v : v = TRUE
    OBVIOUS
  <2>2. shelf' = [shelf EXCEPT ![p].section = v] /\ given' = given \cup {p} /\ midClear' = (midClear \/ clearing)
    BY <1>2, <2>1 DEF WriteInSection
  <2>3. /\ shelf' \in [Piece -> PieceRow] /\ shelf'[p].section = v
        /\ \A q \in Piece : q # p => shelf'[q] = shelf[q]
    BY <1>1, <2>1, <2>2, SectionIsSet DEF SurfacesTypeOK
  <2>4. SurfacesTypeOK'
    BY <1>1, <2>2, <2>3 DEF SurfacesTypeOK
  <2>5. ~midClear' => \A q \in given' : shelf'[q].section
    BY <1>1, <2>1, <2>2, <2>3 DEF SurfacesInv, SurfacesTypeOK
  <2>6. QED
    BY <1>1, <1>2, <2>2, <2>4, <2>5 DEF SurfacesInv
<1>3. CASE ~section
  <2>1. UNCHANGED <<shelf, given, midClear>>
    BY <1>3 DEF WriteInSection
  <2>2. QED
    BY <1>1, <2>1 DEF SurfacesInv, SurfacesTypeOK
<1>4. QED
  BY <1>2, <1>3

LEMMA SaveOutsideKeeps ==
    ASSUME SurfacesInv, NEW p \in Piece, SaveOutside(p)
    PROVE  SurfacesInv'
<1>1. SurfacesTypeOK /\ UNCHANGED <<writer, section, clearing, filing, midClear>> /\ given' = given \ {p}
  BY DEF SurfacesInv, SaveOutside
<1>2. PICK v : v = FALSE
  OBVIOUS
<1>3. /\ shelf' \in [Piece -> PieceRow] /\ shelf'[p].section = v
      /\ \A q \in Piece : q # p => shelf'[q] = shelf[q]
  BY <1>1, <1>2, SectionIsSet DEF SurfacesTypeOK, SaveOutside
<1>4. SurfacesTypeOK'
  BY <1>1, <1>3 DEF SurfacesTypeOK
<1>5. \A q \in Piece : shelf'[q].section => section'
  BY <1>1, <1>2, <1>3 DEF SurfacesInv
<1>6. ~midClear' => \A q \in given' : shelf'[q].section
  BY <1>1, <1>3 DEF SurfacesInv, SurfacesTypeOK
<1>7. QED
  BY <1>1, <1>4, <1>5, <1>6 DEF SurfacesInv

LEMMA EditKeeps ==
    ASSUME SurfacesInv, NEW p \in Piece, Edit(p)
    PROVE  SurfacesInv'
<1>1. SurfacesTypeOK /\ UNCHANGED <<writer, section, clearing, filing, given, midClear>>
  BY DEF SurfacesInv, Edit
<1>2. PICK r : r = shelf[p]
  OBVIOUS
<1>3. r \in PieceRow
  BY <1>1, <1>2 DEF SurfacesTypeOK
<1>4. PICK v \in BOOLEAN : shelf' \in {[shelf EXCEPT ![p].anonymous = v], [shelf EXCEPT ![p].public = v]}
  BY <1>2, <1>3, PieceFields DEF Edit
<1>5. /\ r = [by |-> r.by, public |-> r.public, anonymous |-> r.anonymous, section |-> r.section]
      /\ r.by \in Writer /\ r.public \in BOOLEAN /\ r.anonymous \in BOOLEAN /\ r.section \in BOOLEAN
  BY <1>3, PieceFields
<1>6. PICK one : one = [r EXCEPT !.anonymous = v]
  OBVIOUS
<1>7. PICK two : two = [r EXCEPT !.public = v]
  OBVIOUS
<1>8. one = [by |-> r.by, public |-> r.public, anonymous |-> v, section |-> r.section]
  BY <1>5, <1>6
<1>9. two = [by |-> r.by, public |-> v, anonymous |-> r.anonymous, section |-> r.section]
  BY <1>5, <1>7
<1>10. one \in PieceRow /\ one.section = r.section
  BY <1>5, <1>8, PieceIsMade
<1>11. two \in PieceRow /\ two.section = r.section
  BY <1>5, <1>9, PieceIsMade
<1>12. shelf' = [shelf EXCEPT ![p] = one] \/ shelf' = [shelf EXCEPT ![p] = two]
  BY <1>2, <1>4, <1>6, <1>7
<1>13. PICK row \in PieceRow : shelf' = [shelf EXCEPT ![p] = row] /\ row.section = r.section
  BY <1>10, <1>11, <1>12
<1>14. shelf' \in [Piece -> PieceRow] /\ \A q \in Piece : shelf'[q].section = shelf[q].section
  BY <1>1, <1>2, <1>13 DEF SurfacesTypeOK
<1>15. SurfacesTypeOK'
  BY <1>1, <1>14 DEF SurfacesTypeOK
<1>16. QED
  BY <1>1, <1>14, <1>15 DEF SurfacesInv, SurfacesTypeOK

LEMMA DeleteSectionKeeps ==
    ASSUME SurfacesInv, DeleteSection
    PROVE  SurfacesInv'
<1>1. /\ SurfacesTypeOK /\ clearing /\ clearing' = FALSE /\ section' = FALSE
      /\ UNCHANGED <<writer, filing, given, midClear>>
  BY DEF SurfacesInv, DeleteSection
<1>2. PICK v : v = FALSE
  OBVIOUS
<1>3. shelf' = [p \in Piece |-> [shelf[p] EXCEPT !.section = v]]
  BY <1>2 DEF DeleteSection
<1>4. ASSUME NEW p \in Piece PROVE shelf'[p] \in PieceRow /\ shelf'[p].section = v
  <2>1. PICK r : r = shelf[p]
    OBVIOUS
  <2>2. PICK row : row = [r EXCEPT !.section = v]
    OBVIOUS
  <2>3. r \in PieceRow
    BY <1>1, <2>1 DEF SurfacesTypeOK
  <2>4. /\ r = [by |-> r.by, public |-> r.public, anonymous |-> r.anonymous, section |-> r.section]
        /\ r.by \in Writer /\ r.public \in BOOLEAN /\ r.anonymous \in BOOLEAN
    BY <2>3, PieceFields
  <2>5. row = [by |-> r.by, public |-> r.public, anonymous |-> r.anonymous, section |-> v]
    BY <2>2, <2>4
  <2>6. v \in BOOLEAN
    BY <1>2
  <2>7. row \in PieceRow /\ row.section = v
    BY <2>4, <2>5, <2>6, PieceIsMade
  <2>8. shelf'[p] = row
    BY <1>3, <2>1, <2>2
  <2>9. QED
    BY <2>7, <2>8
<1>5. SurfacesTypeOK'
  <2>1. shelf' \in [Piece -> PieceRow]
    BY <1>3, <1>4
  <2>2. QED
    BY <1>1, <2>1 DEF SurfacesTypeOK
<1>6. ~midClear => given = {}
  BY <1>1 DEF SurfacesInv
<1>7. QED
  BY <1>1, <1>2, <1>4, <1>5, <1>6 DEF SurfacesInv

LEMMA CountKeeps ==
    ASSUME SurfacesInv, CountForDeletion
    PROVE  SurfacesInv'
<1>1. SurfacesTypeOK /\ clearing' = TRUE /\ UNCHANGED <<shelf, writer, section, filing, given, midClear>>
  BY DEF SurfacesInv, CountForDeletion
<1>2. ~midClear => given = {}
  BY <1>1 DEF SurfacesInv, SurfacesTypeOK, CountForDeletion, MayClear
<1>3. QED
  BY <1>1, <1>2 DEF SurfacesInv, SurfacesTypeOK

LEMMA SurfacesStart == SurfacesInit => SurfacesInv
<1> SUFFICES ASSUME SurfacesInit PROVE SurfacesInv
  OBVIOUS
<1>1. shelf \in [Piece -> PieceRow] /\ \A p \in Piece : shelf[p].section = FALSE
  BY DEF SurfacesInit, PieceRow
<1>2. writer \in [Writer -> Standing]
  BY DEF SurfacesInit, Standing
<1>3. QED
  BY <1>1, <1>2 DEF SurfacesInit, SurfacesInv, SurfacesTypeOK

LEMMA SurfacesStep == SurfacesInv /\ [SurfacesNext]_surfaceVars => SurfacesInv'
<1> SUFFICES ASSUME SurfacesInv, [SurfacesNext]_surfaceVars PROVE SurfacesInv'
  OBVIOUS
<1>1. CASE UNCHANGED surfaceVars
  BY <1>1 DEF surfaceVars, SurfacesInv, SurfacesTypeOK
<1>2. ASSUME NEW p \in Piece, FileInSection(p) PROVE SurfacesInv'
  BY <1>2 DEF FileInSection, SurfacesInv, SurfacesTypeOK
<1>3. ASSUME NEW w \in Writer, ChangeStanding(w) PROVE SurfacesInv'
  BY <1>3 DEF ChangeStanding, SurfacesInv, SurfacesTypeOK
<1>4. QED
  BY <1>1, <1>2, <1>3, CountKeeps, DeleteSectionKeeps, WriteInSectionKeeps, SaveOutsideKeeps, EditKeeps
  DEF SurfacesNext

\* Who wrote a public story without a byline makes no difference to any page.
LEMMA BylineIsHidden ==
    ASSUME shelf \in [Piece -> PieceRow], NEW p \in Public(shelf), shelf[p].anonymous, NEW w \in Writer
    PROVE  Surfaces(shelf) = Surfaces([shelf EXCEPT ![p].by = w])
<1>1. PICK r : r = shelf[p]
  OBVIOUS
<1>2. PICK row : row = [r EXCEPT !.by = w]
  OBVIOUS
<1>3. PICK r2 : r2 = [shelf EXCEPT ![p].by = w]
  OBVIOUS
<1>4. p \in Piece /\ r \in PieceRow
  BY <1>1 DEF Public
<1>5. /\ r = [by |-> r.by, public |-> r.public, anonymous |-> r.anonymous, section |-> r.section]
      /\ r.public \in BOOLEAN /\ r.anonymous \in BOOLEAN /\ r.section \in BOOLEAN
  BY <1>4, PieceFields
<1>6. row = [by |-> w, public |-> r.public, anonymous |-> r.anonymous, section |-> r.section]
  BY <1>2, <1>5
<1>7. row.public = r.public /\ row.anonymous = r.anonymous /\ row.section = r.section
  BY <1>5, <1>6, PieceIsMade
<1>8. r2[p] = row /\ \A q \in Piece : q # p => r2[q] = shelf[q]
  BY <1>1, <1>2, <1>3, <1>4
<1>9. \A q \in Piece : /\ r2[q].public = shelf[q].public /\ r2[q].anonymous = shelf[q].anonymous
                       /\ r2[q].section = shelf[q].section
                       /\ ~shelf[q].anonymous => r2[q].by = shelf[q].by
  BY <1>1, <1>7, <1>8
<1>10. Public(r2) = Public(shelf)
  BY <1>9 DEF Public
<1>11. InSection(r2) = InSection(shelf)
  BY <1>9, <1>10 DEF InSection, Public
<1>12. \A q \in Piece : Card(r2, q) = Card(shelf, q)
  BY <1>9 DEF Card
<1>13. ASSUME NEW S, S \subseteq Piece PROVE Cards(r2, S) = Cards(shelf, S)
  BY <1>12, <1>13 DEF Cards
<1>14. ASSUME NEW x PROVE SignedBy(r2, x) = SignedBy(shelf, x) /\ SignedBy(shelf, x) \subseteq Piece
  BY <1>9, <1>10 DEF SignedBy, Public
<1>15. Public(shelf) \subseteq Piece /\ InSection(shelf) \subseteq Piece
  BY DEF Public, InSection
<1>16. Top(r2) = Top(shelf) /\ Top(shelf) \subseteq Piece
  BY <1>10, <1>15 DEF Top
<1>17. Cards(r2, Top(r2)) = Cards(shelf, Top(shelf))
       /\ Cards(r2, Public(r2) \ Top(r2)) = Cards(shelf, Public(shelf) \ Top(shelf))
  <2>1. Public(shelf) \ Top(shelf) \subseteq Piece
    BY <1>15
  <2>2. QED
    BY <1>10, <1>13, <1>16, <2>1
<1>18. Cards(r2, Public(r2)) = Cards(shelf, Public(shelf))
       /\ Cards(r2, InSection(r2)) = Cards(shelf, InSection(shelf))
  BY <1>10, <1>11, <1>13, <1>15
<1>19. SearchSection(r2) = SearchSection(shelf)
  BY <1>18 DEF SearchSection
<1>20. [x \in Writer |-> SearchAuthor(r2, x)] = [x \in Writer |-> SearchAuthor(shelf, x)]
  <2>1. ASSUME NEW x \in Writer PROVE SearchAuthor(r2, x) = SearchAuthor(shelf, x)
    BY <1>13, <1>14 DEF SearchAuthor
  <2>2. QED
    BY <2>1
<1>21. [x \in Writer |-> AuthorPage(r2, x)] = [x \in Writer |-> AuthorPage(shelf, x)]
  <2>1. ASSUME NEW x \in Writer PROVE AuthorPage(r2, x) = AuthorPage(shelf, x)
    BY <1>13, <1>14 DEF AuthorPage
  <2>2. QED
    BY <2>1
<1>22. ASSUME NEW W \in SUBSET Writer, NEW also \in BOOLEAN
       PROVE  FollowedFeed(r2, W, also) = FollowedFeed(shelf, W, also)
  <2>1. PICK U : U = {x \in W : writer[x] # "suspended"}
    OBVIOUS
  <2>2. PICK F : F = {SignedBy(shelf, v) : v \in U}
    OBVIOUS
  <2>3. F = {SignedBy(r2, v) : v \in U}
    BY <1>14, <2>2
  <2>4. PICK I : I = IF also THEN InSection(shelf) ELSE {}
    OBVIOUS
  <2>5. FollowedFeed(shelf, W, also) = Cards(shelf, (UNION F) \cup I)
    BY <2>1, <2>2, <2>4 DEF FollowedFeed
  <2>6. FollowedFeed(r2, W, also) = Cards(r2, (UNION F) \cup I)
    BY <1>11, <2>1, <2>3, <2>4 DEF FollowedFeed
  <2>7. (UNION F) \cup I \subseteq Piece
    <3>1. \A S \in F : S \subseteq Piece
      BY <1>14, <2>2
    <3>2. I \subseteq Piece
      BY <1>15, <2>4
    <3>3. (UNION F) \subseteq Piece
      BY <3>1, Zenon
    <3>4. QED
      BY <3>2, <3>3
  <2>8. QED
    BY <1>13, <2>5, <2>6, <2>7
<1>23. [W \in SUBSET Writer |-> <<FollowedFeed(r2, W, FALSE), Strip(r2, W)>>]
       = [W \in SUBSET Writer |-> <<FollowedFeed(shelf, W, FALSE), Strip(shelf, W)>>]
  <2>1. ASSUME NEW W \in SUBSET Writer
        PROVE  FollowedFeed(r2, W, FALSE) = FollowedFeed(shelf, W, FALSE) /\ Strip(r2, W) = Strip(shelf, W)
    <3>1. FollowedFeed(r2, W, FALSE) = FollowedFeed(shelf, W, FALSE)
          /\ FollowedFeed(r2, W, TRUE) = FollowedFeed(shelf, W, TRUE)
      BY <1>22
    <3>2. QED
      BY <1>16, <3>1 DEF Strip
  <2>2. QED
    BY <2>1
<1>24. [q \in Public(r2) |-> AlertedBy(r2, q)] = [q \in Public(shelf) |-> AlertedBy(shelf, q)]
  <2>1. ASSUME NEW q \in Piece PROVE AlertedBy(r2, q) = AlertedBy(shelf, q)
    BY <1>9 DEF AlertedBy
  <2>2. QED
    BY <1>10, <1>15, <2>1
<1>25. [q \in Public(r2) |-> MoreFrom(r2, q)] = [q \in Public(shelf) |-> MoreFrom(shelf, q)]
  <2>1. ASSUME NEW q \in Piece PROVE MoreFrom(r2, q) = MoreFrom(shelf, q)
    <3>1. PICK S : S = (IF shelf[q].section THEN InSection(shelf) ELSE Public(shelf)) \ {q}
      OBVIOUS
    <3>2. S = (IF r2[q].section THEN InSection(r2) ELSE Public(r2)) \ {q}
      BY <1>9, <1>10, <1>11, <3>1
    <3>3. S \subseteq Piece
      BY <1>15, <3>1
    <3>4. Cards(r2, S) = Cards(shelf, S)
      BY <1>13, <3>3
    <3>5. QED
      BY <3>1, <3>2, <3>4 DEF MoreFrom
  <2>2. QED
    BY <1>10, <1>15, <2>1
<1>26. Surfaces(r2) = Surfaces(shelf)
  BY <1>17, <1>18, <1>19, <1>20, <1>21, <1>23, <1>24, <1>25 DEF Surfaces
<1>27. QED
  BY <1>3, <1>26

\* What is offered leads somewhere.
LEMMA OffersLead ==
    ASSUME SurfacesInv
    PROVE  OffersLeadSomewhere
<1>1. shelf \in [Piece -> PieceRow] /\ writer \in [Writer -> Standing]
  BY DEF SurfacesInv, SurfacesTypeOK
<1>2. ASSUME NEW S PROVE Cards(shelf, S) = {} <=> S = {}
  BY DEF Cards
<1>3. OfferedSection(shelf) => section /\ SearchSection(shelf) # {}
  <2>1. SUFFICES ASSUME InSection(shelf) # {} PROVE section /\ SearchSection(shelf) # {}
    BY DEF OfferedSection
  <2>2. SearchSection(shelf) # {}
    BY <1>2, <2>1 DEF SearchSection
  <2>3. section
    BY <2>1 DEF InSection, Public, SurfacesInv
  <2>4. QED
    BY <2>2, <2>3
<1>4. ASSUME NEW w \in Writer
      PROVE  /\ AuthorPage(shelf, w) # {} => w \in MappedAuthors(shelf)
             /\ w \in WithStories(shelf) =>
                    \/ SearchAuthor(shelf, w) # {}
                    \/ \A p \in Public(shelf) : shelf[p].by = w => shelf[p].anonymous
             /\ w \in MappedAuthors(shelf) /\ SearchAuthor(shelf, w) # {} =>
                    AuthorPage(shelf, w) # {} \/ writer[w] = "suspended"
  <2>1. SearchAuthor(shelf, w) # {} <=> SignedBy(shelf, w) # {}
    BY <1>2 DEF SearchAuthor
  <2>2. AuthorPage(shelf, w) # {} <=> HasPage(w) /\ SignedBy(shelf, w) # {}
    BY <1>2 DEF AuthorPage
  <2>3. SignedBy(shelf, w) # {} <=> \E p \in Public(shelf) : shelf[p].by = w /\ ~shelf[p].anonymous
    BY DEF SignedBy
  <2>4. writer[w] \in {"staff", "suspended", "reader"}
    BY <1>1 DEF Standing
  <2>5. AuthorPage(shelf, w) # {} => w \in MappedAuthors(shelf)
    BY <2>2, <2>3 DEF MappedAuthors, WithStories, HasPage
  <2>6. w \in MappedAuthors(shelf) /\ SearchAuthor(shelf, w) # {} =>
            AuthorPage(shelf, w) # {} \/ writer[w] = "suspended"
    BY <2>1, <2>2, <2>4 DEF MappedAuthors, HasPage
  <2>7. QED
    BY <2>1, <2>3, <2>5, <2>6
<1>5. QED
  BY <1>3, <1>4 DEF OffersLeadSomewhere

LEMMA SurfacesInvImplies == SurfacesInv => SurfacesTypeOK /\ SurfacesHold
<1> SUFFICES ASSUME SurfacesInv PROVE SurfacesTypeOK /\ SurfacesHold
  OBVIOUS
<1>1. SurfacesTypeOK
  BY DEF SurfacesInv
<1>2. AnonymousStaysAnonymous
  BY <1>1, BylineIsHidden DEF AnonymousStaysAnonymous, SurfacesTypeOK
<1>3. SectionsHold
  BY <1>1 DEF SurfacesInv, SurfacesTypeOK, SectionsHold
<1>4. QED
  BY <1>1, <1>2, <1>3, OffersLead DEF SurfacesHold

\* The section of a story is there while it has stories, whoever deletes it.
THEOREM SurfacesAreRight == SurfacesSpec => []SurfacesInv
<1>1. SurfacesInit => SurfacesInv
  BY SurfacesStart
<1>2. SurfacesInv /\ [SurfacesNext]_surfaceVars => SurfacesInv'
  BY SurfacesStep
<1>3. QED
  BY <1>1, <1>2, PTL DEF SurfacesSpec

---------------------------------------------------------------------------
(* Translations: the versions of a story                                 *)

LEMMA TaleFields ==
    ASSUME NEW r \in TaleRow
    PROVE  /\ r = [there |-> r.there, public |-> r.public, lang |-> r.lang, of |-> r.of]
           /\ r.there \in BOOLEAN /\ r.public \in BOOLEAN /\ r.lang \in Lang /\ r.of \in Tale \cup {0}
BY DEF TaleRow

LEMMA TaleIsMade ==
    ASSUME NEW t \in BOOLEAN, NEW p \in BOOLEAN, NEW l \in Lang, NEW o \in Tale \cup {0}, NEW r,
           r = [there |-> t, public |-> p, lang |-> l, of |-> o]
    PROVE  r \in TaleRow /\ r.there = t /\ r.public = p /\ r.lang = l /\ r.of = o
BY DEF TaleRow

LEMMA TaleChanges ==
    ASSUME TranslationsInv, NEW a \in Tale, NEW row \in TaleRow, tale' = [tale EXCEPT ![a] = row],
           row.of # a, row.public => row.there
    PROVE  TranslationsInv'
BY DEF TranslationsInv

LEMMA SaveTranslationKeeps ==
    ASSUME TranslationsInv, NEW a \in Tale, SaveTranslation(a)
    PROVE  TranslationsInv'
<1>1. PICK o \in Resolves(a), l \in Lang :
          tale' = [tale EXCEPT ![a] = [@ EXCEPT !.there = TRUE, !.lang = l, !.of = o]]
  BY DEF SaveTranslation
<1>2. PICK r : r = tale[a]
  OBVIOUS
<1>3. PICK t : t = TRUE
  OBVIOUS
<1>4. PICK row : row = [r EXCEPT !.there = t, !.lang = l, !.of = o]
  OBVIOUS
<1>5. tale' = [tale EXCEPT ![a] = row]
  BY <1>1, <1>2, <1>3, <1>4
<1>6. r \in TaleRow
  BY <1>2 DEF TranslationsInv
<1>7. r = [there |-> r.there, public |-> r.public, lang |-> r.lang, of |-> r.of] /\ r.public \in BOOLEAN
  BY <1>6, TaleFields
<1>8. row = [there |-> t, public |-> r.public, lang |-> l, of |-> o]
  BY <1>4, <1>7
<1>9. o \in Tale \cup {0} /\ o # a /\ t \in BOOLEAN
  BY <1>1, <1>3, SurfacesAssumption DEF Resolves, There
<1>10. row \in TaleRow /\ row.there = t /\ row.public = r.public /\ row.of = o
  BY <1>7, <1>8, <1>9, TaleIsMade
<1>11. QED
  BY <1>3, <1>5, <1>9, <1>10, TaleChanges

LEMMA TurnPublicKeeps ==
    ASSUME TranslationsInv, NEW a \in Tale, TurnPublic(a)
    PROVE  TranslationsInv'
<1>1. PICK r : r = tale[a]
  OBVIOUS
<1>2. PICK p : p = ~r.public
  OBVIOUS
<1>3. PICK row : row = [r EXCEPT !.public = p]
  OBVIOUS
<1>4. tale' = [tale EXCEPT ![a] = row] /\ r.there
  BY <1>1, <1>2, <1>3 DEF TurnPublic
<1>5. r \in TaleRow /\ r.of # a
  BY <1>1 DEF TranslationsInv
<1>6. /\ r = [there |-> r.there, public |-> r.public, lang |-> r.lang, of |-> r.of]
      /\ r.there \in BOOLEAN /\ r.lang \in Lang /\ r.of \in Tale \cup {0}
  BY <1>5, TaleFields
<1>7. row = [there |-> r.there, public |-> p, lang |-> r.lang, of |-> r.of]
  BY <1>3, <1>6
<1>8. p \in BOOLEAN
  BY <1>2
<1>9. row \in TaleRow /\ row.there = r.there /\ row.of = r.of
  BY <1>6, <1>7, <1>8, TaleIsMade
<1>10. QED
  BY <1>4, <1>5, <1>9, TaleChanges

LEMMA TranslationsStart == TranslationsInit => TranslationsInv
<1> SUFFICES ASSUME TranslationsInit PROVE TranslationsInv
  OBVIOUS
<1>1. PICK l \in Lang : l = CHOOSE x \in Lang : TRUE
  BY SurfacesAssumption
<1>2. PICK row : row = [there |-> FALSE, public |-> FALSE, lang |-> l, of |-> 0]
  OBVIOUS
<1>3. tale = [a \in Tale |-> row]
  BY <1>1, <1>2 DEF TranslationsInit, NoTale
<1>4. row \in TaleRow /\ row.public = FALSE /\ row.of = 0
  BY <1>2 DEF TaleRow
<1>5. QED
  BY <1>3, <1>4, SurfacesAssumption DEF TranslationsInv

LEMMA TranslationsStep == TranslationsInv /\ [TranslationsNext]_taleVars => TranslationsInv'
<1> SUFFICES ASSUME TranslationsInv, [TranslationsNext]_taleVars PROVE TranslationsInv'
  OBVIOUS
<1>1. CASE UNCHANGED taleVars
  BY <1>1 DEF taleVars, TranslationsInv
<1>2. QED
  BY <1>1, SaveTranslationKeeps, TurnPublicKeeps DEF TranslationsNext

\* What the page of an article looks at, all three places together, is what is
\* one or two links away.
LEMMA FoundAreKin ==
    ASSUME TranslationsInv, NEW a \in Tale
    PROVE  /\ DOMAIN Found(a) = 1..3
           /\ \A i \in 1..3 : Found(a)[i] \subseteq Kin(a)
           /\ \A b \in Kin(a) : \E i \in 1..3 : b \in Found(a)[i]
<1>1. PICK c1 : c1 = Of(a)
  OBVIOUS
<1>2. PICK c2 : c2 = UNION {TranslationsOf(b) : b \in Of(a)}
  OBVIOUS
<1>3. PICK c3 : c3 = TranslationsOf(a)
  OBVIOUS
<1>4. Candidates(a) = <<c1, c2, c3>>
  BY <1>1, <1>2, <1>3 DEF Candidates
<1>5. /\ DOMAIN Candidates(a) = 1..3 /\ Candidates(a)[1] = c1 /\ Candidates(a)[2] = c2
      /\ Candidates(a)[3] = c3
  BY <1>4
<1>6. /\ DOMAIN Found(a) = 1..3 /\ Found(a)[1] = Readable(c1) \ {a} /\ Found(a)[2] = Readable(c2) \ {a}
      /\ Found(a)[3] = Readable(c3) \ {a}
  BY <1>5 DEF Found
<1>7. tale[a].of \in Tale \cup {0} /\ \A b \in Tale : tale[b].public => tale[b].there
  <2>1. tale[a] \in TaleRow
    BY DEF TranslationsInv
  <2>2. QED
    BY <2>1, TaleFields DEF TranslationsInv
<1>8. \A b : b \in c1 <=> b \in Tale /\ b = tale[a].of
  BY <1>1 DEF Of
<1>9. \A b : b \in c3 <=> b \in Tale /\ tale[b].there /\ tale[b].of = a
  BY <1>3 DEF TranslationsOf
<1>10. \A b : b \in c2 <=> b \in Tale /\ tale[b].there /\ tale[b].of = tale[a].of /\ tale[a].of \in Tale
  <2>1. \A b : b \in c2 <=> \E c \in Of(a) : b \in TranslationsOf(c)
    BY <1>2
  <2>2. QED
    BY <2>1 DEF Of, TranslationsOf
<1>11. \A b : b \in Kin(a) <=> /\ b \in Tale /\ tale[b].public /\ b # a
                               /\ \/ tale[a].of = b
                                  \/ tale[b].of = a
                                  \/ tale[a].of # 0 /\ tale[a].of = tale[b].of
  BY DEF Kin, Readable, Akin, Linked
<1>12. tale[a].of # 0 <=> tale[a].of \in Tale
  BY <1>7, SurfacesAssumption
<1>13. \A b : b \in Kin(a) <=> b \in Found(a)[1] \/ b \in Found(a)[2] \/ b \in Found(a)[3]
  BY <1>6, <1>7, <1>8, <1>9, <1>10, <1>11, <1>12 DEF Readable
<1>14. \A i \in 1..3 : i = 1 \/ i = 2 \/ i = 3
  OBVIOUS
<1>15. \A i \in 1..3 : Found(a)[i] \subseteq Kin(a)
  BY <1>13, <1>14
<1>16. \A b \in Kin(a) : \E i \in 1..3 : b \in Found(a)[i]
  BY <1>13
<1>17. QED
  BY <1>6, <1>15, <1>16

\* What the page tells of a language is one that was found in it.
LEMMA ToldIsFound ==
    ASSUME TranslationsInv, NEW a \in Tale, NEW l, FoundFor(a, l) # {}
    PROVE  Told(a, l) \in Kin(a) /\ tale[Told(a, l)].lang = l
<1>1. DOMAIN Found(a) = 1..3 /\ \A i \in 1..3 : Found(a)[i] \subseteq Kin(a)
  BY FoundAreKin
<1>2. FoundFor(a, l) \subseteq 1..3 /\ FoundFor(a, l) \subseteq Nat
  BY <1>1 DEF FoundFor
<1>3. \E i \in FoundFor(a, l) : \A j \in FoundFor(a, l) : i <= j
  BY <1>2, Least
<1>4. FirstFor(a, l) \in FoundFor(a, l)
  BY <1>3 DEF FirstFor
<1>5. \E b \in Found(a)[FirstFor(a, l)] : tale[b].lang = l
  BY <1>4 DEF FoundFor
<1>6. Told(a, l) \in Found(a)[FirstFor(a, l)] /\ tale[Told(a, l)].lang = l
  BY <1>5 DEF Told
<1>7. QED
  BY <1>1, <1>2, <1>4, <1>6

LEMMA OtherVersionsAre ==
    ASSUME NEW a
    PROVE  OtherVersions(a) = {Told(a, l) : l \in {x \in Lang \ {tale[a].lang} : FoundFor(a, x) # {}}}
BY DEF OtherVersions, Told, FirstFor, FoundFor, Found

LEMMA OthersAreKin ==
    ASSUME TranslationsInv, NEW a \in Tale
    PROVE  OtherVersions(a) \subseteq Kin(a)
BY OtherVersionsAre, ToldIsFound

\* Where no two are in one language, the page tells of all of them.
LEMMA AllAreTold ==
    ASSUME TranslationsInv, OneOfEachLanguage, NEW a \in Readable(Tale)
    PROVE  OtherVersions(a) = Kin(a)
<1>1. a \in Tale
  BY DEF Readable
<1>2. ASSUME NEW b \in Kin(a) PROVE b \in OtherVersions(a)
  <2>1. b \in Readable(Tale) /\ b \in Tale /\ b # a /\ Akin(a, b)
    BY DEF Kin, Readable
  <2>2. PICK l : l = tale[b].lang
    OBVIOUS
  <2>3. l \in Lang
    <3>1. tale[b] \in TaleRow
      BY <2>1 DEF TranslationsInv
    <3>2. QED
      BY <2>2, <3>1, TaleFields
  <2>4. l # tale[a].lang
    BY <2>1, <2>2 DEF OneOfEachLanguage
  <2>5. FoundFor(a, l) # {}
    <3>1. PICK i \in 1..3 : b \in Found(a)[i]
      BY <1>1, FoundAreKin
    <3>2. i \in FoundFor(a, l)
      BY <1>1, <2>2, <3>1, FoundAreKin DEF FoundFor
    <3>3. QED
      BY <3>2
  <2>6. PICK c : c = Told(a, l)
    OBVIOUS
  <2>7. c \in Kin(a) /\ tale[c].lang = l
    BY <1>1, <2>5, <2>6, ToldIsFound
  <2>8. c = b
    <3>1. SUFFICES ASSUME c # b PROVE FALSE
      OBVIOUS
    <3>2. c \in Readable(Tale) /\ Akin(a, c)
      BY <2>7 DEF Kin
    <3>3. Akin(c, a)
      BY <3>2 DEF Akin, Linked
    <3>4. ~(Akin(c, a) /\ Akin(a, b))
      BY <1>1, <2>1, <2>2, <2>7, <3>1, <3>2 DEF OneOfEachLanguage
    <3>5. QED
      BY <2>1, <3>3, <3>4
  <2>9. c \in OtherVersions(a)
    BY <2>3, <2>4, <2>5, <2>6, OtherVersionsAre
  <2>10. QED
    BY <2>8, <2>9
<1>3. QED
  BY <1>1, <1>2, OthersAreKin

\* The sitemap tells of the same.
LEMMA MapIsKin ==
    ASSUME TranslationsInv, NEW a \in Tale
    PROVE  MapVersions(a) = Kin(a)
<1>1. tale[a].of \in Tale \cup {0} /\ tale[a].of # a /\ \A b \in Tale : tale[b].public => tale[b].there
  <2>1. tale[a] \in TaleRow
    BY DEF TranslationsInv
  <2>2. QED
    BY <2>1, TaleFields DEF TranslationsInv
<1>2. \A b \in Tale : tale[b].of # b
  BY DEF TranslationsInv
<1>3. \A b : b \in Kin(a) <=> /\ b \in Tale /\ tale[b].public /\ b # a
                              /\ \/ tale[a].of = b
                                 \/ tale[b].of = a
                                 \/ tale[a].of # 0 /\ tale[a].of = tale[b].of
  BY DEF Kin, Readable, Akin, Linked
<1>4. PICK near : near = Readable(Of(a) \cup TranslationsOf(a))
  OBVIOUS
<1>5. PICK far : far = IF tale[a].of = 0 THEN {} ELSE Readable(TranslationsOf(tale[a].of)) \ {a}
  OBVIOUS
<1>6. MapVersions(a) = near \cup far
  BY <1>4, <1>5 DEF MapVersions
<1>7. \A b : b \in near <=> b \in Tale /\ tale[b].public /\ (tale[a].of = b \/ tale[b].of = a)
  BY <1>1, <1>4 DEF Readable, Of, TranslationsOf
<1>8. \A b : b \in far <=> b \in Tale /\ tale[b].public /\ b # a /\ tale[a].of # 0 /\ tale[a].of = tale[b].of
  BY <1>1, <1>5 DEF Readable, TranslationsOf
<1>9. \A b : b \in near => b # a
  BY <1>1, <1>7
<1>10. \A b : b \in near \cup far <=> b \in Kin(a)
  BY <1>3, <1>7, <1>8, <1>9
<1>11. QED
  BY <1>6, <1>10

LEMMA TranslationsInvImplies == TranslationsInv => TranslationsTypeOK /\ VersionsNameEachOther
<1> SUFFICES ASSUME TranslationsInv PROVE TranslationsTypeOK /\ VersionsNameEachOther
  OBVIOUS
<1>1. TranslationsTypeOK
  <2>1. \A a \in Tale : tale[a] \in TaleRow
    BY DEF TranslationsInv
  <2>2. QED
    BY <2>1, TaleFields DEF TranslationsTypeOK
<1>2. \A a \in Tale : tale[a].of # a
  BY DEF TranslationsInv
<1>3. \A a \in Readable(Tale) : OtherVersions(a) \subseteq Readable(Tale) \ {a}
  <2>1. ASSUME NEW a \in Readable(Tale) PROVE OtherVersions(a) \subseteq Readable(Tale) \ {a}
    <3>1. OtherVersions(a) \subseteq Kin(a)
      BY OthersAreKin DEF Readable
    <3>2. Kin(a) \subseteq Readable(Tale) \ {a}
      BY DEF Kin
    <3>3. QED
      BY <3>1, <3>2
  <2>2. QED
    BY <2>1
<1>4. ASSUME OneOfEachLanguage, NEW a \in Readable(Tale)
      PROVE  (\A b \in OtherVersions(a) : a \in OtherVersions(b)) /\ MapVersions(a) = OtherVersions(a)
  <2>1. OtherVersions(a) = Kin(a)
    BY <1>4, AllAreTold
  <2>2. MapVersions(a) = Kin(a)
    BY MapIsKin DEF Readable
  <2>3. ASSUME NEW b \in Kin(a) PROVE a \in OtherVersions(b)
    <3>1. b \in Readable(Tale) /\ Akin(a, b) /\ b # a
      BY DEF Kin
    <3>2. a \in Kin(b)
      BY <3>1 DEF Kin, Akin, Linked
    <3>3. OtherVersions(b) = Kin(b)
      BY <1>4, <3>1, AllAreTold
    <3>4. QED
      BY <3>2, <3>3
  <2>4. QED
    BY <2>1, <2>2, <2>3
<1>5. QED
  BY <1>1, <1>2, <1>3, <1>4 DEF VersionsNameEachOther

\* Versions of one story name each other, and a reader is led to public ones.
THEOREM TranslationsAreRight == TranslationsSpec => []TranslationsInv
<1>1. TranslationsInit => TranslationsInv
  BY TranslationsStart
<1>2. TranslationsInv /\ [TranslationsNext]_taleVars => TranslationsInv'
  BY TranslationsStep
<1>3. QED
  BY <1>1, <1>2, PTL DEF TranslationsSpec

---------------------------------------------------------------------------
(* Credits: dialogs, saves and lines                                     *)

DialogRow == [mode : {"insert", "edit"}, file : Clip, loading : BOOLEAN, pending : 0..TermsBound, boxes : Terms]
SavingRow == [mode : {"insert", "edit"}, file : Clip, terms : Terms, no : 0..TermsBound,
              at : {"asked", "kept", "refused"}]
Lines == {CreditLine(t) : t \in Terms}

CreditsTyped ==
    /\ mediaRow \in [Clip -> Terms \cup {Nothing}] /\ terms \in [Clip -> SUBSET Terms]
    /\ figure \in [Clip -> Lines \cup {Nothing}] /\ saving \in Seq(SavingRow)
    /\ uploading \in Clip \cup {Nothing} /\ granted \in 0..TermsBound /\ astray \subseteq Clip

\* Only a file that has its row is asked about, or has a figure.
FilesAreThere ==
    /\ dialog = Nothing \/ (dialog \in DialogRow /\ mediaRow[dialog.file] # Nothing)
    /\ uploading # Nothing => mediaRow[uploading] = Nothing
    /\ \A i \in DOMAIN saving : mediaRow[saving[i].file] # Nothing
    /\ \A f \in Clip : figure[f] # Nothing => mediaRow[f] # Nothing

\* What is asked for is complete, and the first save alone has its answer.
SavesAreSound ==
    /\ \A i \in DOMAIN saving : Complete(saving[i].terms) /\ (i # 1 => saving[i].at = "asked")
    /\ \A i \in DOMAIN saving : saving[i].at = "kept" =>
           /\ saving[i].terms \in terms[saving[i].file]
           /\ saving[i].file \notin astray => mediaRow[saving[i].file] = saving[i].terms
    /\ \A f \in Clip : \A t \in terms[f] : Complete(t)

\* A line is behind its row only while the answer to a save is on its way.
LinesAreSound ==
    /\ LineIsOfItsFile
    /\ \A f \in Clip \ astray :
           figure[f] # Nothing /\ (\A i \in DOMAIN saving : ~(saving[i].at = "kept" /\ saving[i].file = f)) =>
               figure[f] = CreditLine(mediaRow[f])

\* What holds of the files, the saves of their terms and the lines of the figures.
CreditsInv == CreditsTyped /\ FilesAreThere /\ SavesAreSound /\ LinesAreSound

LEMMA DialogFields ==
    ASSUME NEW r \in DialogRow
    PROVE  /\ r = [mode |-> r.mode, file |-> r.file, loading |-> r.loading, pending |-> r.pending, boxes |-> r.boxes]
           /\ r.mode \in {"insert", "edit"} /\ r.file \in Clip /\ r.loading \in BOOLEAN
           /\ r.pending \in 0..TermsBound /\ r.boxes \in Terms
BY DEF DialogRow

LEMMA DialogIsMade ==
    ASSUME NEW r,
           r = [mode |-> r.mode, file |-> r.file, loading |-> r.loading, pending |-> r.pending, boxes |-> r.boxes],
           r.mode \in {"insert", "edit"}, r.file \in Clip, r.loading \in BOOLEAN,
           r.pending \in 0..TermsBound, r.boxes \in Terms
    PROVE  r \in DialogRow
BY DEF DialogRow

\* The dialog goes on for the same file.
LEMMA DialogGoesOn ==
    ASSUME NEW r \in DialogRow, NEW l \in BOOLEAN, NEW p \in 0..TermsBound, NEW b \in Terms, NEW new,
           new = [mode |-> r.mode, file |-> r.file, loading |-> l, pending |-> p, boxes |-> b]
    PROVE  new \in DialogRow /\ new.file = r.file /\ new.boxes = b
<1>1. /\ new = [mode |-> new.mode, file |-> new.file, loading |-> new.loading, pending |-> new.pending,
                boxes |-> new.boxes]
      /\ new.mode = r.mode /\ new.file = r.file /\ new.loading = l /\ new.pending = p /\ new.boxes = b
  OBVIOUS
<1>2. r.mode \in {"insert", "edit"} /\ r.file \in Clip
  BY DialogFields
<1>3. QED
  BY <1>1, <1>2, DialogIsMade

LEMMA SavingFields ==
    ASSUME NEW r \in SavingRow
    PROVE  /\ r = [mode |-> r.mode, file |-> r.file, terms |-> r.terms, no |-> r.no, at |-> r.at]
           /\ r.mode \in {"insert", "edit"} /\ r.file \in Clip /\ r.terms \in Terms
           /\ r.no \in 0..TermsBound /\ r.at \in {"asked", "kept", "refused"}
BY DEF SavingRow

LEMMA SavingIsMade ==
    ASSUME NEW r,
           r = [mode |-> r.mode, file |-> r.file, terms |-> r.terms, no |-> r.no, at |-> r.at],
           r.mode \in {"insert", "edit"}, r.file \in Clip, r.terms \in Terms,
           r.no \in 0..TermsBound, r.at \in {"asked", "kept", "refused"}
    PROVE  r \in SavingRow
BY DEF SavingRow

LEMMA SavingGoesOn ==
    ASSUME NEW r \in SavingRow, NEW at \in {"asked", "kept", "refused"}, NEW new,
           new = [mode |-> r.mode, file |-> r.file, terms |-> r.terms, no |-> r.no, at |-> at]
    PROVE  new \in SavingRow /\ new.file = r.file /\ new.terms = r.terms /\ new.at = at
<1>1. /\ new = [mode |-> new.mode, file |-> new.file, terms |-> new.terms, no |-> new.no, at |-> new.at]
      /\ new.mode = r.mode /\ new.file = r.file /\ new.terms = r.terms /\ new.no = r.no /\ new.at = at
  OBVIOUS
<1>2. r.mode \in {"insert", "edit"} /\ r.file \in Clip /\ r.terms \in Terms /\ r.no \in 0..TermsBound
  BY SavingFields
<1>3. QED
  BY <1>1, <1>2, SavingIsMade

LEMMA NothingIsApart == Nothing \notin Clip /\ Nothing \notin Terms /\ TermsBound \in Nat /\ NoTerms \in Terms
BY CreditsAssumption DEF NoTerms, Terms

LEMMA CompleteIsPublishable ==
    ASSUME NEW t, Complete(t)
    PROVE  ~HasRightsProblem(t)
BY DEF Complete, HasRightsProblem

\* The first save is under way, and is for a file that is there.
LEMMA FirstSave ==
    ASSUME CreditsInv, saving # <<>>
    PROVE  /\ 1 \in DOMAIN saving /\ Head(saving) = saving[1] /\ Head(saving) \in SavingRow
           /\ Head(saving).file \in Clip /\ Head(saving).terms \in Terms /\ Complete(Head(saving).terms)
           /\ mediaRow[Head(saving).file] # Nothing
<1>1. saving \in Seq(SavingRow)
  BY DEF CreditsInv, CreditsTyped
<1>2. 1 \in DOMAIN saving /\ Head(saving) = saving[1] /\ Head(saving) \in SavingRow
  BY <1>1
<1>3. Head(saving).file \in Clip /\ Head(saving).terms \in Terms
  BY <1>2, SavingFields
<1>4. Complete(Head(saving).terms) /\ mediaRow[Head(saving).file] # Nothing
  BY <1>2 DEF CreditsInv, SavesAreSound, FilesAreThere
<1>5. QED
  BY <1>2, <1>3, <1>4

\* Only the dialog changes, and what it counts.
LEMMA DialogOnly ==
    ASSUME CreditsInv, UNCHANGED <<mediaRow, figure, saving, terms, astray>>,
           uploading' \in Clip \cup {Nothing}, uploading' # Nothing => mediaRow[uploading'] = Nothing,
           granted' \in 0..TermsBound,
           dialog' = Nothing \/ (dialog' \in DialogRow /\ mediaRow[dialog'.file] # Nothing)
    PROVE  CreditsInv'
<1>1. CreditsTyped'
  BY DEF CreditsInv, CreditsTyped
<1>2. FilesAreThere'
  BY DEF CreditsInv, FilesAreThere
<1>3. SavesAreSound'
  BY DEF CreditsInv, SavesAreSound
<1>4. LinesAreSound'
  BY DEF CreditsInv, LinesAreSound, LineIsOfItsFile
<1>5. QED
  BY <1>1, <1>2, <1>3, <1>4 DEF CreditsInv

LEMMA OpensDialog ==
    ASSUME NEW mode \in {"insert", "edit"}, NEW f \in Clip
    PROVE  Dialog(mode, f) \in DialogRow /\ Dialog(mode, f).file = f
<1>1. PICK r : r = Dialog(mode, f)
  OBVIOUS
<1>2. r = [mode |-> mode, file |-> f, loading |-> TRUE, pending |-> 0, boxes |-> NoTerms]
  BY <1>1 DEF Dialog
<1>3. /\ r = [mode |-> r.mode, file |-> r.file, loading |-> r.loading, pending |-> r.pending, boxes |-> r.boxes]
      /\ r.mode = mode /\ r.file = f /\ r.loading = TRUE /\ r.pending = 0 /\ r.boxes = NoTerms
  BY <1>2
<1>4. 0 \in 0..TermsBound /\ NoTerms \in Terms
  BY NothingIsApart
<1>5. QED
  BY <1>1, <1>3, <1>4, DialogIsMade

LEMMA StartUploadKeeps ==
    ASSUME CreditsInv, NEW f \in Clip, StartUpload(f)
    PROVE  CreditsInv'
<1>1. UNCHANGED <<mediaRow, figure, dialog, saving, terms, granted, astray>> /\ uploading' = f /\ mediaRow[f] = Nothing
  BY DEF StartUpload
<1>2. granted' \in 0..TermsBound /\ dialog' = Nothing
  BY <1>1 DEF StartUpload, CreditsInv, CreditsTyped
<1>3. QED
  BY <1>1, <1>2, DialogOnly

LEMMA EditFigureKeeps ==
    ASSUME CreditsInv, NEW f \in Clip, EditFigure(f)
    PROVE  CreditsInv'
<1>1. UNCHANGED <<mediaRow, figure, uploading, saving, terms, granted, astray>>
  BY DEF EditFigure
<1>2. mediaRow[f] # Nothing
  BY DEF EditFigure, CreditsInv, FilesAreThere
<1>3. dialog' \in DialogRow /\ dialog'.file = f
  BY OpensDialog DEF EditFigure
<1>4. /\ granted' \in 0..TermsBound /\ uploading' \in Clip \cup {Nothing}
      /\ uploading' # Nothing => mediaRow[uploading'] = Nothing
  BY <1>1 DEF CreditsInv, CreditsTyped, FilesAreThere
<1>5. QED
  BY <1>1, <1>2, <1>3, <1>4, DialogOnly

\* What is known of the open dialog.
LEMMA OpenDialog ==
    ASSUME CreditsInv, dialog # Nothing
    PROVE  /\ dialog \in DialogRow /\ mediaRow[dialog.file] # Nothing /\ mediaRow[dialog.file] \in Terms
           /\ dialog.file \in Clip /\ dialog.boxes \in Terms /\ dialog.loading \in BOOLEAN
           /\ dialog.pending \in 0..TermsBound /\ dialog.mode \in {"insert", "edit"}
           /\ dialog = [mode |-> dialog.mode, file |-> dialog.file, loading |-> dialog.loading,
                        pending |-> dialog.pending, boxes |-> dialog.boxes]
<1>1. dialog \in DialogRow /\ mediaRow[dialog.file] # Nothing
  BY DEF CreditsInv, FilesAreThere
<1>2. dialog.file \in Clip
  BY <1>1, DialogFields
<1>3. mediaRow[dialog.file] \in Terms
  BY <1>1, <1>2 DEF CreditsInv, CreditsTyped
<1>4. QED
  BY <1>1, <1>2, <1>3, DialogFields

\* The dialog goes on, and nothing else does.
LEMMA DialogTurns ==
    ASSUME CreditsInv, dialog # Nothing, UNCHANGED <<mediaRow, figure, uploading, saving, terms, granted, astray>>,
           NEW l \in BOOLEAN, NEW p \in 0..TermsBound, NEW b \in Terms,
           dialog' = [mode |-> dialog.mode, file |-> dialog.file, loading |-> l, pending |-> p, boxes |-> b]
    PROVE  CreditsInv'
<1>1. dialog \in DialogRow /\ mediaRow[dialog.file] # Nothing
  BY OpenDialog
<1>2. dialog' \in DialogRow /\ dialog'.file = dialog.file
  BY <1>1, DialogGoesOn
<1>3. /\ granted' \in 0..TermsBound /\ uploading' \in Clip \cup {Nothing}
      /\ uploading' # Nothing => mediaRow[uploading'] = Nothing
  BY DEF CreditsInv, CreditsTyped, FilesAreThere
<1>4. QED
  BY <1>1, <1>2, <1>3, DialogOnly

LEMMA PrefillKeeps ==
    ASSUME CreditsInv, Prefill
    PROVE  CreditsInv'
<1>1. dialog # Nothing /\ UNCHANGED <<mediaRow, figure, uploading, saving, terms, granted, astray>>
  BY DEF Prefill
<1>2. PICK l : l = FALSE
  OBVIOUS
<1>3. PICK b : b = mediaRow[dialog.file]
  OBVIOUS
<1>4. dialog' = [dialog EXCEPT !.loading = l, !.boxes = b]
  BY <1>2, <1>3 DEF Prefill
<1>5. dialog' = [mode |-> dialog.mode, file |-> dialog.file, loading |-> l, pending |-> dialog.pending, boxes |-> b]
  BY <1>1, <1>4, OpenDialog
<1>6. l \in BOOLEAN /\ b \in Terms /\ dialog.pending \in 0..TermsBound
  BY <1>1, <1>2, <1>3, OpenDialog
<1>7. QED
  BY <1>1, <1>5, <1>6, DialogTurns

LEMMA FillInKeeps ==
    ASSUME CreditsInv, NEW t \in Terms, FillIn(t)
    PROVE  CreditsInv'
<1>1. dialog # Nothing /\ UNCHANGED <<mediaRow, figure, uploading, saving, terms, granted, astray>>
  BY DEF FillIn
<1>2. dialog' = [mode |-> dialog.mode, file |-> dialog.file, loading |-> dialog.loading, pending |-> dialog.pending,
                 boxes |-> t]
  BY <1>1, OpenDialog DEF FillIn
<1>3. dialog.loading \in BOOLEAN /\ dialog.pending \in 0..TermsBound
  BY <1>1, OpenDialog
<1>4. QED
  BY <1>1, <1>2, <1>3, DialogTurns

LEMMA CloseDialogKeeps ==
    ASSUME CreditsInv, CloseDialog
    PROVE  CreditsInv'
<1>1. UNCHANGED <<mediaRow, figure, uploading, saving, terms, granted, astray>> /\ dialog' = Nothing
  BY DEF CloseDialog
<1>2. /\ granted' \in 0..TermsBound /\ uploading' \in Clip \cup {Nothing}
      /\ uploading' # Nothing => mediaRow[uploading'] = Nothing
  BY <1>1 DEF CreditsInv, CreditsTyped, FilesAreThere
<1>3. QED
  BY <1>1, <1>2, DialogOnly

LEMMA UploadDoneKeeps ==
    ASSUME CreditsInv, UploadDone
    PROVE  CreditsInv'
<1>1. UNCHANGED <<figure, saving, terms, granted, astray>> /\ uploading # Nothing /\ uploading' = Nothing
  BY DEF UploadDone
<1>2. uploading \in Clip /\ mediaRow[uploading] = Nothing
  BY <1>1 DEF CreditsInv, CreditsTyped, FilesAreThere
<1>3. CASE UNCHANGED <<mediaRow, dialog>>
  <2>1. granted' \in 0..TermsBound /\ (dialog' = Nothing \/ (dialog' \in DialogRow /\ mediaRow[dialog'.file] # Nothing))
    BY <1>1, <1>3 DEF CreditsInv, CreditsTyped, FilesAreThere
  <2>2. QED
    BY <1>1, <1>3, <2>1, DialogOnly
<1>4. CASE mediaRow' = [mediaRow EXCEPT ![uploading] = NoTerms] /\ dialog' = Dialog("insert", uploading)
  <2>1. mediaRow \in [Clip -> Terms \cup {Nothing}] /\ NoTerms \in Terms /\ NoTerms # Nothing
    BY NothingIsApart DEF CreditsInv, CreditsTyped
  <2>2. /\ mediaRow' \in [Clip -> Terms \cup {Nothing}] /\ mediaRow'[uploading] # Nothing
        /\ \A f \in Clip : f # uploading => mediaRow'[f] = mediaRow[f]
    BY <1>2, <1>4, <2>1
  <2>3. CreditsTyped'
    BY <1>1, <2>2 DEF CreditsInv, CreditsTyped
  <2>4. \A i \in DOMAIN saving : saving[i].file \in Clip /\ saving[i].file # uploading
    <3>1. ASSUME NEW i \in DOMAIN saving PROVE saving[i].file \in Clip
      <4>1. saving[i] \in SavingRow
        BY DEF CreditsInv, CreditsTyped
      <4>2. QED
        BY <4>1, SavingFields
    <3>2. QED
      BY <1>2, <3>1 DEF CreditsInv, FilesAreThere
  <2>5. \A f \in Clip : figure[f] # Nothing => f # uploading
    BY <1>2 DEF CreditsInv, FilesAreThere
  <2>6. dialog' \in DialogRow /\ dialog'.file = uploading
    BY <1>2, <1>4, OpensDialog
  <2>7. FilesAreThere'
    <3>1. \A i \in DOMAIN saving' : mediaRow'[saving'[i].file] # Nothing
      BY <1>1, <2>2, <2>4 DEF CreditsInv, FilesAreThere
    <3>2. \A f \in Clip : figure'[f] # Nothing => mediaRow'[f] # Nothing
      BY <1>1, <2>2, <2>5 DEF CreditsInv, FilesAreThere
    <3>3. QED
      BY <1>1, <2>2, <2>6, <3>1, <3>2 DEF FilesAreThere
  <2>8. SavesAreSound'
    <3>1. \A i \in DOMAIN saving : saving[i].at = "kept" =>
              /\ saving[i].terms \in terms[saving[i].file]
              /\ saving[i].file \notin astray => mediaRow'[saving[i].file] = saving[i].terms
      BY <2>2, <2>4 DEF CreditsInv, SavesAreSound
    <3>2. QED
      BY <1>1, <3>1 DEF CreditsInv, SavesAreSound
  <2>9. LinesAreSound'
    <3>1. LineIsOfItsFile'
      BY <1>1 DEF CreditsInv, LinesAreSound, LineIsOfItsFile
    <3>2. \A f \in Clip : figure[f] # Nothing => mediaRow'[f] = mediaRow[f]
      BY <2>2, <2>5
    <3>3. QED
      BY <1>1, <3>1, <3>2 DEF CreditsInv, LinesAreSound
  <2>10. QED
    BY <2>3, <2>7, <2>8, <2>9 DEF CreditsInv
<1>5. QED
  BY <1>3, <1>4 DEF UploadDone

LEMMA SaveDetailsKeeps ==
    ASSUME CreditsInv, SaveDetails
    PROVE  CreditsInv'
<1>1. /\ UNCHANGED <<mediaRow, figure, uploading, terms, astray>> /\ dialog # Nothing /\ Complete(dialog.boxes)
      /\ granted < TermsBound /\ granted' = granted + 1
  BY DEF SaveDetails
<1>2. PICK new : new = [mode |-> dialog.mode, file |-> dialog.file, terms |-> dialog.boxes, no |-> granted', at |-> "asked"]
  OBVIOUS
<1>3. saving' = Append(saving, new)
  BY <1>2 DEF SaveDetails
<1>4. granted' \in 0..TermsBound
  BY <1>1, NothingIsApart DEF CreditsInv, CreditsTyped
<1>5. new \in SavingRow
  <2>1. /\ new = [mode |-> new.mode, file |-> new.file, terms |-> new.terms, no |-> new.no, at |-> new.at]
        /\ new.mode = dialog.mode /\ new.file = dialog.file /\ new.terms = dialog.boxes /\ new.no = granted'
        /\ new.at \in {"asked", "kept", "refused"}
    BY <1>2
  <2>2. QED
    BY <1>1, <1>4, <2>1, OpenDialog, SavingIsMade
<1>6. new.file = dialog.file /\ new.terms = dialog.boxes /\ new.at = "asked"
  BY <1>2
<1>7. saving \in Seq(SavingRow)
  BY DEF CreditsInv, CreditsTyped
<1>8. saving' \in Seq(SavingRow)
  BY <1>3, <1>5, <1>7
<1>9. \A i \in DOMAIN saving' : (i \in DOMAIN saving /\ saving'[i] = saving[i]) \/ saving'[i] = new
  BY <1>3, <1>7
<1>10. \A i \in DOMAIN saving : i \in DOMAIN saving' /\ saving'[i] = saving[i]
  BY <1>3, <1>7
<1>11. dialog' \in DialogRow /\ dialog'.file = dialog.file
  <2>1. dialog' = [dialog EXCEPT !.pending = granted']
    BY DEF SaveDetails
  <2>2. dialog' = [mode |-> dialog.mode, file |-> dialog.file, loading |-> dialog.loading, pending |-> granted',
                   boxes |-> dialog.boxes]
    BY <1>1, <2>1, OpenDialog
  <2>3. dialog \in DialogRow /\ dialog.loading \in BOOLEAN /\ dialog.boxes \in Terms
    BY <1>1, OpenDialog
  <2>4. QED
    BY <1>4, <2>2, <2>3, DialogGoesOn
<1>12. CreditsTyped'
  BY <1>1, <1>4, <1>8 DEF CreditsInv, CreditsTyped
<1>13. FilesAreThere'
  <2>1. \A i \in DOMAIN saving' : mediaRow[saving'[i].file] # Nothing
    BY <1>1, <1>6, <1>9, OpenDialog DEF CreditsInv, FilesAreThere
  <2>2. mediaRow[dialog'.file] # Nothing
    BY <1>1, <1>11, OpenDialog
  <2>3. QED
    BY <1>1, <1>11, <2>1, <2>2 DEF CreditsInv, FilesAreThere
<1>14. SavesAreSound'
  <2>1. \A i \in DOMAIN saving' : saving'[i] = new \/ (i \in DOMAIN saving /\ saving'[i] = saving[i])
    BY <1>9
  <2>2. \A i \in DOMAIN saving' : Complete(saving'[i].terms)
    BY <1>1, <1>6, <2>1 DEF CreditsInv, SavesAreSound
  <2>3. \A i \in DOMAIN saving' : i # 1 => saving'[i].at = "asked"
    BY <1>6, <2>1 DEF CreditsInv, SavesAreSound
  <2>4. \A i \in DOMAIN saving' : saving'[i].at = "kept" =>
            /\ saving'[i].terms \in terms[saving'[i].file]
            /\ saving'[i].file \notin astray => mediaRow[saving'[i].file] = saving'[i].terms
    BY <1>6, <2>1 DEF CreditsInv, SavesAreSound
  <2>5. \A f \in Clip : \A t \in terms[f] : Complete(t)
    BY DEF CreditsInv, SavesAreSound
  <2>6. QED
    BY <1>1, <2>2, <2>3, <2>4, <2>5 DEF SavesAreSound
<1>15. LinesAreSound'
  <2>1. LineIsOfItsFile'
    BY <1>1 DEF CreditsInv, LinesAreSound, LineIsOfItsFile
  <2>2. \A f \in Clip \ astray :
           figure[f] # Nothing /\ (\A i \in DOMAIN saving' : ~(saving'[i].at = "kept" /\ saving'[i].file = f)) =>
               figure[f] = CreditLine(mediaRow[f])
    BY <1>10 DEF CreditsInv, LinesAreSound
  <2>3. QED
    BY <1>1, <2>1, <2>2 DEF LinesAreSound
<1>16. QED
  BY <1>12, <1>13, <1>14, <1>15 DEF CreditsInv

\* The answer to the first save is found, whatever it is.
LEMMA FirstIsAnswered ==
    ASSUME CreditsInv, saving # <<>>, NEW at \in {"asked", "kept", "refused"}, saving' = [saving EXCEPT ![1].at = at]
    PROVE  /\ saving' \in Seq(SavingRow) /\ DOMAIN saving' = DOMAIN saving
           /\ \A i \in DOMAIN saving : i # 1 => saving'[i] = saving[i]
           /\ saving'[1].file = saving[1].file /\ saving'[1].terms = saving[1].terms /\ saving'[1].at = at
<1>1. PICK r : r = saving[1]
  OBVIOUS
<1>2. PICK new : new = [r EXCEPT !.at = at]
  OBVIOUS
<1>3. saving' = [saving EXCEPT ![1] = new]
  BY <1>1, <1>2
<1>4. r \in SavingRow /\ 1 \in DOMAIN saving
  BY <1>1, FirstSave
<1>5. r = [mode |-> r.mode, file |-> r.file, terms |-> r.terms, no |-> r.no, at |-> r.at]
  BY <1>4, SavingFields
<1>6. new = [mode |-> r.mode, file |-> r.file, terms |-> r.terms, no |-> r.no, at |-> at]
  BY <1>2, <1>5
<1>7. new \in SavingRow /\ new.file = r.file /\ new.terms = r.terms /\ new.at = at
  BY <1>4, <1>6, SavingGoesOn
<1>8. saving \in Seq(SavingRow)
  BY DEF CreditsInv, CreditsTyped
<1>9. /\ saving' \in Seq(SavingRow) /\ DOMAIN saving' = DOMAIN saving /\ saving'[1] = new
      /\ \A i \in DOMAIN saving : i # 1 => saving'[i] = saving[i]
  BY <1>3, <1>4, <1>7, <1>8
<1>10. QED
  BY <1>1, <1>7, <1>9

LEMMA RightsKept ==
    ASSUME CreditsInv, saving # <<>>, Head(saving).at = "asked", Kept(Head(saving).file, Head(saving).terms),
           saving' = [saving EXCEPT ![1].at = "kept"], UNCHANGED <<figure, dialog, uploading, granted, astray>>
    PROVE  CreditsInv'
<1>1. PICK f : f = Head(saving).file
  OBVIOUS
<1>2. PICK t : t = Head(saving).terms
  OBVIOUS
<1>3. /\ f \in Clip /\ t \in Terms /\ Complete(t) /\ mediaRow[f] # Nothing /\ t # Nothing
      /\ 1 \in DOMAIN saving /\ saving[1].file = f /\ saving[1].terms = t
  BY <1>1, <1>2, FirstSave, NothingIsApart
<1>4. mediaRow' = [mediaRow EXCEPT ![f] = t] /\ terms' = [terms EXCEPT ![f] = @ \cup {t}]
  BY <1>1, <1>2 DEF Kept
<1>5. mediaRow \in [Clip -> Terms \cup {Nothing}] /\ terms \in [Clip -> SUBSET Terms]
  BY DEF CreditsInv, CreditsTyped
<1>6. /\ mediaRow' \in [Clip -> Terms \cup {Nothing}] /\ mediaRow'[f] = t
      /\ \A g \in Clip : g # f => mediaRow'[g] = mediaRow[g]
  BY <1>3, <1>4, <1>5
<1>7. /\ terms' \in [Clip -> SUBSET Terms] /\ terms'[f] = terms[f] \cup {t}
      /\ \A g \in Clip : g # f => terms'[g] = terms[g]
  BY <1>3, <1>4, <1>5
<1>8. PICK at \in {"asked", "kept", "refused"} : at = "kept"
  OBVIOUS
<1>9. /\ saving' \in Seq(SavingRow) /\ DOMAIN saving' = DOMAIN saving
      /\ \A i \in DOMAIN saving : i # 1 => saving'[i] = saving[i]
      /\ saving'[1].file = f /\ saving'[1].terms = t /\ saving'[1].at = "kept"
  <2>1. saving' = [saving EXCEPT ![1].at = at]
    BY <1>8
  <2>2. QED
    BY <1>3, <1>8, <2>1, FirstIsAnswered
<1>10. CreditsTyped'
  BY <1>6, <1>7, <1>9 DEF CreditsInv, CreditsTyped
<1>11. \A i \in DOMAIN saving : i # 1 => saving[i].at = "asked"
  BY DEF CreditsInv, SavesAreSound
<1>12. \A i \in DOMAIN saving' : saving'[i].file \in Clip
  <2>1. ASSUME NEW i \in DOMAIN saving' PROVE saving'[i].file \in Clip
    <3>1. saving'[i] \in SavingRow
      BY <1>9
    <3>2. QED
      BY <3>1, SavingFields
  <2>2. QED
    BY <2>1
<1>13. \A g \in Clip : mediaRow[g] # Nothing => mediaRow'[g] # Nothing
  BY <1>3, <1>6
<1>14. FilesAreThere'
  <2>1. \A i \in DOMAIN saving' : mediaRow'[saving'[i].file] # Nothing
    <3>1. ASSUME NEW i \in DOMAIN saving' PROVE mediaRow'[saving'[i].file] # Nothing
      <4>1. CASE i = 1
        BY <1>3, <1>6, <1>9, <4>1
      <4>2. CASE i # 1
        BY <1>9, <1>12, <1>13, <4>2 DEF CreditsInv, FilesAreThere
      <4>3. QED
        BY <4>1, <4>2
    <3>2. QED
      BY <3>1
  <2>2. \A g \in Clip : figure'[g] # Nothing => mediaRow'[g] # Nothing
    BY <1>13 DEF CreditsInv, FilesAreThere
  <2>3. uploading' # Nothing => mediaRow'[uploading'] = Nothing
    BY <1>3, <1>6 DEF CreditsInv, CreditsTyped, FilesAreThere
  <2>4. dialog' = Nothing \/ (dialog' \in DialogRow /\ mediaRow'[dialog'.file] # Nothing)
    BY <1>13, OpenDialog
  <2>5. QED
    BY <2>1, <2>2, <2>3, <2>4 DEF FilesAreThere
<1>15. SavesAreSound'
  <2>1. \A i \in DOMAIN saving' : Complete(saving'[i].terms) /\ (i # 1 => saving'[i].at = "asked")
    <3>1. ASSUME NEW i \in DOMAIN saving' PROVE Complete(saving'[i].terms)
      <4>1. CASE i = 1
        BY <1>3, <1>9, <4>1
      <4>2. CASE i # 1
        BY <1>9, <4>2 DEF CreditsInv, SavesAreSound
      <4>3. QED
        BY <4>1, <4>2
    <3>2. QED
      BY <1>9, <1>11, <3>1
  <2>2. \A i \in DOMAIN saving' : saving'[i].at = "kept" =>
            /\ saving'[i].terms \in terms'[saving'[i].file]
            /\ saving'[i].file \notin astray' => mediaRow'[saving'[i].file] = saving'[i].terms
    <3>1. ASSUME NEW i \in DOMAIN saving', saving'[i].at = "kept" PROVE i = 1
      BY <1>9, <1>11, <3>1
    <3>2. QED
      BY <1>6, <1>7, <1>9, <3>1
  <2>3. \A g \in Clip : \A s \in terms'[g] : Complete(s)
    <3>1. ASSUME NEW g \in Clip, NEW s \in terms'[g] PROVE Complete(s)
      <4>1. s \in terms[g] \/ s = t
        BY <1>7
      <4>2. QED
        BY <1>3, <4>1 DEF CreditsInv, SavesAreSound
    <3>2. QED
      BY <3>1
  <2>4. QED
    BY <2>1, <2>2, <2>3 DEF SavesAreSound
<1>16. LinesAreSound'
  <2>1. LineIsOfItsFile'
    <3>1. \A g \in Clip : terms[g] \subseteq terms'[g]
      BY <1>7
    <3>2. QED
      BY <3>1 DEF CreditsInv, LinesAreSound, LineIsOfItsFile
  <2>2. ASSUME NEW g \in Clip \ astray, figure[g] # Nothing,
               \A i \in DOMAIN saving' : ~(saving'[i].at = "kept" /\ saving'[i].file = g)
        PROVE  figure[g] = CreditLine(mediaRow'[g])
    <3>1. g # f
      BY <1>3, <1>9, <2>2
    <3>2. \A i \in DOMAIN saving : ~(saving[i].at = "kept" /\ saving[i].file = g)
      BY <1>3, <1>9, <1>11, <2>2, <3>1
    <3>3. QED
      BY <1>6, <2>2, <3>1, <3>2 DEF CreditsInv, LinesAreSound
  <2>3. QED
    BY <2>1, <2>2 DEF LinesAreSound
<1>17. QED
  BY <1>10, <1>14, <1>15, <1>16 DEF CreditsInv

\* The saves and the dialog change, and of the answers kept, only those of files that are astray are gone.
LEMMA SavesChange ==
    ASSUME CreditsInv, UNCHANGED <<mediaRow, terms, granted>>, NEW lines,
           figure' = lines, figure' \in [Clip -> Lines \cup {Nothing}], astray' \subseteq Clip, astray \subseteq astray',
           saving' \in Seq(SavingRow), uploading' \in {uploading, Nothing},
           dialog' = Nothing \/ (dialog' \in DialogRow /\ mediaRow[dialog'.file] # Nothing),
           \A i \in DOMAIN saving' : /\ \E j \in DOMAIN saving : saving'[i].file = saving[j].file /\ saving'[i].terms = saving[j].terms
                                     /\ saving'[i].at # "kept" /\ (i # 1 => saving'[i].at = "asked"),
           \A f \in Clip : figure'[f] # Nothing =>
               /\ mediaRow[f] # Nothing /\ \E t \in terms[f] : CreditLine(t) = figure'[f]
               /\ f \notin astray' => figure'[f] = CreditLine(mediaRow[f])
    PROVE  CreditsInv'
<1>1. CreditsTyped'
  BY DEF CreditsInv, CreditsTyped
<1>2. FilesAreThere'
  <2>1. \A i \in DOMAIN saving' : mediaRow[saving'[i].file] # Nothing
    BY DEF CreditsInv, FilesAreThere
  <2>2. uploading' # Nothing => mediaRow[uploading'] = Nothing
    BY DEF CreditsInv, FilesAreThere
  <2>3. QED
    BY <2>1, <2>2 DEF FilesAreThere
<1>3. SavesAreSound'
  <2>1. \A i \in DOMAIN saving' : Complete(saving'[i].terms)
    BY DEF CreditsInv, SavesAreSound
  <2>2. \A f \in Clip : \A t \in terms[f] : Complete(t)
    BY DEF CreditsInv, SavesAreSound
  <2>3. QED
    BY <2>1, <2>2 DEF SavesAreSound
<1>4. LinesAreSound'
  BY DEF LinesAreSound, LineIsOfItsFile
<1>5. QED
  BY <1>1, <1>2, <1>3, <1>4 DEF CreditsInv
\* Unless the first save is kept, every line is that of its row; and those of other files always are.
LEMMA LinesOfTheRest ==
    ASSUME CreditsInv, NEW f \in Clip, figure[f] # Nothing,
           saving # <<>> => ~(Head(saving).at = "kept" /\ Head(saving).file = f)
    PROVE  /\ mediaRow[f] # Nothing /\ \E t \in terms[f] : CreditLine(t) = figure[f]
           /\ f \notin astray => figure[f] = CreditLine(mediaRow[f])
<1>1. mediaRow[f] # Nothing /\ \E t \in terms[f] : CreditLine(t) = figure[f]
  BY DEF CreditsInv, FilesAreThere, LinesAreSound, LineIsOfItsFile
<1>2. \A i \in DOMAIN saving : ~(saving[i].at = "kept" /\ saving[i].file = f)
  <2>1. ASSUME NEW i \in DOMAIN saving, saving[i].at = "kept", saving[i].file = f PROVE FALSE
    <3>1. i = 1
      BY <2>1 DEF CreditsInv, SavesAreSound
    <3>2. saving # <<>>
      BY <2>1, <3>1
    <3>3. QED
      BY <2>1, <3>1, <3>2, FirstSave
  <2>2. QED
    BY <2>1
<1>3. f \notin astray => figure[f] = CreditLine(mediaRow[f])
  BY <1>2 DEF CreditsInv, LinesAreSound
<1>4. QED
  BY <1>1, <1>3

LEMMA RightsRefused ==
    ASSUME CreditsInv, saving # <<>>, Head(saving).at = "asked", saving' = [saving EXCEPT ![1].at = "refused"],
           UNCHANGED <<mediaRow, terms, figure, dialog, uploading, granted, astray>>
    PROVE  CreditsInv'
<1>1. PICK at \in {"asked", "kept", "refused"} : at = "refused"
  OBVIOUS
<1>2. saving' = [saving EXCEPT ![1].at = at]
  BY <1>1
<1>3. /\ saving' \in Seq(SavingRow) /\ DOMAIN saving' = DOMAIN saving
      /\ \A i \in DOMAIN saving : i # 1 => saving'[i] = saving[i]
      /\ saving'[1].file = saving[1].file /\ saving'[1].terms = saving[1].terms /\ saving'[1].at = at
  BY <1>2, FirstIsAnswered
<1>4. \A i \in DOMAIN saving : i # 1 => saving[i].at = "asked"
  BY DEF CreditsInv, SavesAreSound
<1>5. \A i \in DOMAIN saving' :
          /\ \E j \in DOMAIN saving : saving'[i].file = saving[j].file /\ saving'[i].terms = saving[j].terms
          /\ saving'[i].at # "kept" /\ (i # 1 => saving'[i].at = "asked")
  <2>1. ASSUME NEW i \in DOMAIN saving'
        PROVE  saving'[i].file = saving[i].file /\ saving'[i].terms = saving[i].terms /\ saving'[i].at # "kept"
               /\ (i # 1 => saving'[i].at = "asked")
    <3>1. CASE i = 1
      BY <1>1, <1>3, <3>1
    <3>2. CASE i # 1
      BY <1>3, <1>4, <3>2
    <3>3. QED
      BY <3>1, <3>2
  <2>2. QED
    BY <1>3, <2>1
<1>6. \A f \in Clip : figure'[f] # Nothing =>
          /\ mediaRow[f] # Nothing /\ \E t \in terms[f] : CreditLine(t) = figure'[f]
          /\ f \notin astray' => figure'[f] = CreditLine(mediaRow[f])
  BY LinesOfTheRest
<1>7. /\ figure' \in [Clip -> Lines \cup {Nothing}] /\ astray' \subseteq Clip
      /\ dialog' = Nothing \/ (dialog' \in DialogRow /\ mediaRow[dialog'.file] # Nothing)
  BY DEF CreditsInv, CreditsTyped, FilesAreThere
<1>8. QED
  BY <1>3, <1>5, <1>6, <1>7, SavesChange

LEMMA RightsServedKeeps ==
    ASSUME CreditsInv, RightsServed
    PROVE  CreditsInv'
BY RightsKept, RightsRefused DEF RightsServed

\* Without the first save, the others have not been answered.
LEMMA SavesThatFollow ==
    ASSUME CreditsInv, saving # <<>>, saving' = Tail(saving)
    PROVE  /\ saving' \in Seq(SavingRow)
           /\ \A i \in DOMAIN saving' :
                  /\ \E j \in DOMAIN saving : saving'[i].file = saving[j].file /\ saving'[i].terms = saving[j].terms
                  /\ saving'[i].at # "kept" /\ (i # 1 => saving'[i].at = "asked")
<1>1. saving \in Seq(SavingRow)
  BY DEF CreditsInv, CreditsTyped
<1>2. Len(saving) \in Nat /\ DOMAIN saving = 1..Len(saving) /\ Len(saving) # 0
  BY <1>1
<1>3. /\ saving' \in Seq(SavingRow) /\ Len(saving') = Len(saving) - 1 /\ DOMAIN saving' = 1..Len(saving')
      /\ \A i \in 1..Len(saving') : saving'[i] = saving[i + 1]
  BY <1>1, <1>2
<1>4. \A i \in DOMAIN saving' : i + 1 \in DOMAIN saving /\ i + 1 # 1
  BY <1>2, <1>3
<1>5. ASSUME NEW i \in DOMAIN saving'
      PROVE  /\ \E j \in DOMAIN saving : saving'[i].file = saving[j].file /\ saving'[i].terms = saving[j].terms
             /\ saving'[i].at # "kept" /\ (i # 1 => saving'[i].at = "asked")
  <2>1. PICK j : j = i + 1
    OBVIOUS
  <2>2. j \in DOMAIN saving /\ j # 1 /\ saving'[i] = saving[j]
    BY <1>3, <1>4, <2>1
  <2>3. saving[j].at = "asked"
    BY <2>2 DEF CreditsInv, SavesAreSound
  <2>4. QED
    BY <2>2, <2>3
<1>6. QED
  BY <1>3, <1>5

LEMMA FinishDialogKeeps ==
    ASSUME CreditsInv, FinishDialog
    PROVE  CreditsInv'
<1>1. /\ saving # <<>> /\ Head(saving).at = "kept" /\ saving' = Tail(saving) /\ dialog' = Nothing
      /\ UNCHANGED <<mediaRow, uploading, terms, granted, astray>>
  BY DEF FinishDialog
<1>2. PICK f : f = Head(saving).file
  OBVIOUS
<1>3. PICK t : t = Head(saving).terms
  OBVIOUS
<1>4. f \in Clip /\ t \in Terms /\ mediaRow[f] # Nothing
  BY <1>1, <1>2, <1>3, FirstSave
<1>5. t \in terms[f] /\ (f \notin astray => mediaRow[f] = t)
  BY <1>1, <1>2, <1>3, FirstSave DEF CreditsInv, SavesAreSound
<1>6. CreditLine(t) \in Lines /\ figure \in [Clip -> Lines \cup {Nothing}] /\ astray \subseteq Clip
  BY <1>4 DEF Lines, CreditsInv, CreditsTyped
<1>7. figure' \in {figure, [figure EXCEPT ![f] = CreditLine(t)]} /\ (figure' = figure => figure[f] = Nothing \/ figure[f] = CreditLine(t))
  <2>1. figure' = [figure EXCEPT ![f] = CreditLine(t)] => figure'[f] = CreditLine(t)
    BY <1>4, <1>6
  <2>2. QED
    BY <1>2, <1>3, <2>1 DEF FinishDialog
<1>8. /\ figure' \in [Clip -> Lines \cup {Nothing}] /\ (figure'[f] = Nothing \/ figure'[f] = CreditLine(t))
      /\ \A g \in Clip : g # f => figure'[g] = figure[g]
  BY <1>4, <1>6, <1>7
<1>9. ASSUME NEW g \in Clip, figure'[g] # Nothing
      PROVE  /\ mediaRow[g] # Nothing /\ \E s \in terms[g] : CreditLine(s) = figure'[g]
             /\ g \notin astray' => figure'[g] = CreditLine(mediaRow[g])
  <2>1. CASE g = f
    BY <1>1, <1>4, <1>5, <1>8, <1>9, <2>1
  <2>2. CASE g # f
    BY <1>1, <1>2, <1>8, <1>9, <2>2, LinesOfTheRest
  <2>3. QED
    BY <2>1, <2>2
<1>10. QED
  BY <1>1, <1>6, <1>8, <1>9, SavesThatFollow, SavesChange

LEMMA RefuseDetailsKeeps ==
    ASSUME CreditsInv, RefuseDetails
    PROVE  CreditsInv'
<1>1. /\ saving # <<>> /\ Head(saving).at = "refused" /\ saving' = Tail(saving)
      /\ UNCHANGED <<mediaRow, figure, uploading, terms, granted, astray>>
  BY DEF RefuseDetails
<1>2. dialog' = Nothing \/ (dialog' \in DialogRow /\ mediaRow[dialog'.file] # Nothing)
  <2>1. CASE OwnDialog
    <3>1. dialog # Nothing
      BY <2>1 DEF OwnDialog
    <3>2. dialog' = [dialog EXCEPT !.pending = 0]
      BY <2>1 DEF RefuseDetails
    <3>3. dialog' = [mode |-> dialog.mode, file |-> dialog.file, loading |-> dialog.loading, pending |-> 0,
                     boxes |-> dialog.boxes]
      BY <3>1, <3>2, OpenDialog
    <3>4. /\ dialog \in DialogRow /\ dialog.loading \in BOOLEAN /\ dialog.boxes \in Terms
          /\ mediaRow[dialog.file] # Nothing
      BY <3>1, OpenDialog
    <3>5. 0 \in 0..TermsBound
      BY NothingIsApart
    <3>6. QED
      BY <3>3, <3>4, <3>5, DialogGoesOn
  <2>2. CASE ~OwnDialog
    BY <2>2 DEF RefuseDetails, CreditsInv, FilesAreThere
  <2>3. QED
    BY <2>1, <2>2
<1>3. \A f \in Clip : figure'[f] # Nothing =>
          /\ mediaRow[f] # Nothing /\ \E t \in terms[f] : CreditLine(t) = figure'[f]
          /\ f \notin astray' => figure'[f] = CreditLine(mediaRow[f])
  BY <1>1, LinesOfTheRest
<1>4. figure' \in [Clip -> Lines \cup {Nothing}] /\ astray' \subseteq Clip
  BY <1>1 DEF CreditsInv, CreditsTyped
<1>5. QED
  BY <1>1, <1>2, <1>3, <1>4, SavesThatFollow, SavesChange

LEMMA SaveLostKeeps ==
    ASSUME CreditsInv, SaveLost
    PROVE  CreditsInv'
<1>1. /\ saving # <<>> /\ astray' = astray \cup {saving[i].file : i \in DOMAIN saving}
      /\ saving' = <<>> /\ dialog' = Nothing /\ uploading' = Nothing
      /\ UNCHANGED <<mediaRow, figure, terms, granted>>
  BY DEF SaveLost
<1>2. \A i \in DOMAIN saving : saving[i].file \in Clip
  <2>1. ASSUME NEW i \in DOMAIN saving PROVE saving[i].file \in Clip
    <3>1. saving[i] \in SavingRow
      BY DEF CreditsInv, CreditsTyped
    <3>2. QED
      BY <3>1, SavingFields
  <2>2. QED
    BY <2>1
<1>3. astray' \subseteq Clip /\ astray \subseteq astray' /\ figure' \in [Clip -> Lines \cup {Nothing}]
  BY <1>1, <1>2 DEF CreditsInv, CreditsTyped
<1>4. ASSUME NEW f \in Clip, figure'[f] # Nothing
      PROVE  /\ mediaRow[f] # Nothing /\ \E t \in terms[f] : CreditLine(t) = figure'[f]
             /\ f \notin astray' => figure'[f] = CreditLine(mediaRow[f])
  <2>1. mediaRow[f] # Nothing /\ \E t \in terms[f] : CreditLine(t) = figure'[f]
    BY <1>1, <1>4 DEF CreditsInv, FilesAreThere, LinesAreSound, LineIsOfItsFile
  <2>2. f \notin astray' => Head(saving).file # f
    BY <1>1, FirstSave
  <2>3. QED
    BY <1>1, <1>3, <1>4, <2>1, <2>2, LinesOfTheRest
<1>5. saving' \in Seq(SavingRow) /\ DOMAIN saving' = {}
  BY <1>1
<1>6. QED
  BY <1>1, <1>3, <1>4, <1>5, SavesChange

LEMMA RemoveFigureKeeps ==
    ASSUME CreditsInv, NEW f \in Clip, RemoveFigure(f)
    PROVE  CreditsInv'
<1>1. UNCHANGED <<mediaRow, dialog, uploading, saving, terms, granted, astray>> /\ figure' = [figure EXCEPT ![f] = Nothing]
  BY DEF RemoveFigure
<1>2. figure \in [Clip -> Lines \cup {Nothing}]
  BY DEF CreditsInv, CreditsTyped
<1>3. /\ figure' \in [Clip -> Lines \cup {Nothing}]
      /\ \A g \in Clip : figure'[g] # Nothing => figure'[g] = figure[g]
  BY <1>1, <1>2
<1>4. CreditsTyped'
  BY <1>1, <1>3 DEF CreditsInv, CreditsTyped
<1>5. FilesAreThere'
  BY <1>1, <1>3 DEF CreditsInv, FilesAreThere
<1>6. SavesAreSound'
  BY <1>1 DEF CreditsInv, SavesAreSound
<1>7. LinesAreSound'
  <2>1. LineIsOfItsFile'
    BY <1>1, <1>3 DEF CreditsInv, LinesAreSound, LineIsOfItsFile
  <2>2. QED
    BY <1>1, <1>3, <2>1 DEF CreditsInv, LinesAreSound
<1>8. QED
  BY <1>4, <1>5, <1>6, <1>7 DEF CreditsInv

LEMMA OtherRightsKeeps ==
    ASSUME CreditsInv, NEW f \in Clip, NEW t \in Terms, OtherRights(f, t)
    PROVE  CreditsInv'
<1>1. /\ mediaRow[f] # Nothing /\ Complete(t) /\ granted < TermsBound /\ granted' = granted + 1
      /\ astray' = astray \cup {f} /\ UNCHANGED <<figure, dialog, uploading, saving>>
  BY DEF OtherRights
<1>2. mediaRow' = [mediaRow EXCEPT ![f] = t] /\ terms' = [terms EXCEPT ![f] = @ \cup {t}]
  BY DEF OtherRights, Kept
<1>3. mediaRow \in [Clip -> Terms \cup {Nothing}] /\ terms \in [Clip -> SUBSET Terms] /\ t # Nothing
  BY NothingIsApart DEF CreditsInv, CreditsTyped
<1>4. /\ mediaRow' \in [Clip -> Terms \cup {Nothing}] /\ \A g \in Clip : g # f => mediaRow'[g] = mediaRow[g]
      /\ \A g \in Clip : mediaRow'[g] = Nothing <=> mediaRow[g] = Nothing
  BY <1>1, <1>2, <1>3
<1>5. /\ terms' \in [Clip -> SUBSET Terms] /\ \A g \in Clip : terms[g] \subseteq terms'[g]
      /\ \A g \in Clip : \A s \in terms'[g] : s \in terms[g] \/ s = t
  BY <1>2, <1>3
<1>6. \A i \in DOMAIN saving : saving[i].file \in Clip
  <2>1. ASSUME NEW i \in DOMAIN saving PROVE saving[i].file \in Clip
    <3>1. saving[i] \in SavingRow
      BY DEF CreditsInv, CreditsTyped
    <3>2. QED
      BY <3>1, SavingFields
  <2>2. QED
    BY <2>1
<1>7. CreditsTyped'
  <2>1. granted' \in 0..TermsBound
    BY <1>1, NothingIsApart DEF CreditsInv, CreditsTyped
  <2>2. QED
    BY <1>1, <1>4, <1>5, <2>1 DEF CreditsInv, CreditsTyped
<1>8. FilesAreThere'
  <2>1. dialog' = Nothing \/ (dialog' \in DialogRow /\ mediaRow'[dialog'.file] # Nothing)
    BY <1>1, <1>4, OpenDialog
  <2>2. uploading' # Nothing => mediaRow'[uploading'] = Nothing
    BY <1>1, <1>4 DEF CreditsInv, CreditsTyped, FilesAreThere
  <2>3. \A i \in DOMAIN saving' : mediaRow'[saving'[i].file] # Nothing
    BY <1>1, <1>4, <1>6 DEF CreditsInv, FilesAreThere
  <2>4. \A g \in Clip : figure'[g] # Nothing => mediaRow'[g] # Nothing
    BY <1>1, <1>4 DEF CreditsInv, FilesAreThere
  <2>5. QED
    BY <2>1, <2>2, <2>3, <2>4 DEF FilesAreThere
<1>9. SavesAreSound'
  <2>1. \A i \in DOMAIN saving' : Complete(saving'[i].terms) /\ (i # 1 => saving'[i].at = "asked")
    BY <1>1 DEF CreditsInv, SavesAreSound
  <2>2. \A i \in DOMAIN saving' : saving'[i].at = "kept" =>
            /\ saving'[i].terms \in terms'[saving'[i].file]
            /\ saving'[i].file \notin astray' => mediaRow'[saving'[i].file] = saving'[i].terms
    BY <1>1, <1>4, <1>5, <1>6 DEF CreditsInv, SavesAreSound
  <2>3. \A g \in Clip : \A s \in terms'[g] : Complete(s)
    BY <1>1, <1>5 DEF CreditsInv, SavesAreSound
  <2>4. QED
    BY <2>1, <2>2, <2>3 DEF SavesAreSound
<1>10. LinesAreSound'
  <2>1. LineIsOfItsFile'
    BY <1>1, <1>5 DEF CreditsInv, LinesAreSound, LineIsOfItsFile
  <2>2. QED
    BY <1>1, <1>4, <2>1 DEF CreditsInv, LinesAreSound
<1>11. QED
  BY <1>7, <1>8, <1>9, <1>10 DEF CreditsInv

LEMMA CreditsInitInv ==
    ASSUME CreditsInit
    PROVE  CreditsInv
<1>1. /\ mediaRow = [f \in Clip |-> Nothing] /\ figure = [f \in Clip |-> Nothing]
      /\ dialog = Nothing /\ uploading = Nothing /\ saving = <<>>
      /\ terms = [f \in Clip |-> {}] /\ granted = 0 /\ astray = {}
  BY DEF CreditsInit
<1>2. CreditsTyped
  BY <1>1, NothingIsApart DEF CreditsTyped
<1>3. FilesAreThere /\ SavesAreSound /\ LinesAreSound
  BY <1>1 DEF FilesAreThere, SavesAreSound, LinesAreSound, LineIsOfItsFile
<1>4. QED
  BY <1>2, <1>3 DEF CreditsInv

LEMMA CreditsNextInv ==
    ASSUME CreditsInv, CreditsNext
    PROVE  CreditsInv'
BY StartUploadKeeps, EditFigureKeeps, RemoveFigureKeeps, UploadDoneKeeps, PrefillKeeps, SaveDetailsKeeps,
   CloseDialogKeeps, RightsServedKeeps, FinishDialogKeeps, RefuseDetailsKeeps, SaveLostKeeps, FillInKeeps,
   OtherRightsKeeps DEF CreditsNext

LEMMA CreditsInvImplies ==
    ASSUME CreditsInv
    PROVE  CreditsTypeOK /\ CreditsHold
<1>1. CreditsTypeOK
  <2>1. dialog = Nothing \/ (dialog.file \in Clip /\ dialog.boxes \in Terms)
    BY OpenDialog
  <2>2. QED
    BY <2>1 DEF CreditsInv, CreditsTyped, Lines, CreditsTypeOK
<1>2. LineIsOfItsFile
  BY DEF CreditsInv, LinesAreSound
<1>3. SavedIsPublishable
  BY CompleteIsPublishable DEF CreditsInv, SavesAreSound, SavedIsPublishable
<1>4. LineIsCredited
  <2>1. ASSUME NEW f \in Clip \ astray, figure[f] # Nothing, \A i \in DOMAIN saving : saving[i].file # f
        PROVE  figure[f] = Credited(f).line
    <3>1. figure[f] = CreditLine(mediaRow[f])
      BY <2>1 DEF CreditsInv, LinesAreSound
    <3>2. QED
      BY <3>1 DEF Credited
  <2>2. QED
    BY <2>1 DEF LineIsCredited
<1>5. QED
  BY <1>1, <1>2, <1>3, <1>4 DEF CreditsHold

\* The line under a figure is the one its file was given, complete, with rights.
THEOREM CreditsAreTrue == CreditsSpec => []CreditsInv
<1>1. CreditsInv /\ [CreditsNext]_creditVars => CreditsInv'
  <2>1. CreditsInv /\ UNCHANGED creditVars => CreditsInv'
    BY DEF creditVars, CreditsInv, CreditsTyped, FilesAreThere, SavesAreSound, LinesAreSound, LineIsOfItsFile
  <2>2. QED
    BY <2>1, CreditsNextInv
<1>2. QED
  BY <1>1, CreditsInitInv, PTL DEF CreditsSpec

---------------------------------------------------------------------------
(* Forms: boxes, a button, an answer                                     *)

Text == 0..TypeBound
FormCall == [of : Text, at : {"asked", "accepted", "refused"}, heard : BOOLEAN]
Message == [what : {"nothing", "done", "error", "left", "broken"}, of : Text]

FormsTyped ==
    /\ shape \in FormShapes /\ saved \in Text /\ props \in Text /\ boxes \in Text /\ draft \in Text /\ wrote \in Text
    /\ drawn \in BOOLEAN /\ pending \in BOOLEAN /\ calls \subseteq FormCall /\ says \in Message
    /\ accepted \subseteq Text /\ stored \subseteq Text /\ slip \in 0..(TypeBound + 1)

\* The page waits for one call at most, with its button disabled and no sheet out.
OneIsWaitedFor ==
    /\ \A c \in calls : /\ c.heard => pending /\ slip = 0
                        /\ c.at # "asked" => c.heard
                        /\ c.at = "accepted" => c.of \in accepted
    /\ \A c \in calls, d \in calls : c.heard /\ d.heard => c = d

\* The message, and the sheet, are of what was accepted.
AnswersAreTrue ==
    /\ says.what \in {"done", "left"} => says.of \in accepted
    /\ slip # 0 /\ shape = EnrollMfaFlow => says.of \in accepted
    /\ owed \subseteq {slip} \ {0}

TextIsThere == draft # 0 => boxes = draft

\* What holds of the boxes, the calls on their way and the message.
FormsInv == FormsTyped /\ OneIsWaitedFor /\ AnswersAreTrue /\ TextIsThere

LEMMA CallFields ==
    ASSUME NEW c \in FormCall
    PROVE  /\ c = [of |-> c.of, at |-> c.at, heard |-> c.heard]
           /\ c.of \in Text /\ c.at \in {"asked", "accepted", "refused"} /\ c.heard \in BOOLEAN
BY DEF FormCall

LEMMA CallIsMade ==
    ASSUME NEW of \in Text, NEW at \in {"asked", "accepted", "refused"}, NEW h \in BOOLEAN, NEW c,
           c = [of |-> of, at |-> at, heard |-> h]
    PROVE  c \in FormCall /\ c.of = of /\ c.at = at /\ c.heard = h
<1>1. c.of = of /\ c.at = at /\ c.heard = h
  OBVIOUS
<1>2. c \in FormCall
  BY DEF FormCall
<1>3. QED
  BY <1>1, <1>2

LEMMA MessageIsMade ==
    ASSUME NEW w \in {"nothing", "done", "error", "left", "broken"}, NEW v \in Text
    PROVE  Said(w, v) \in Message /\ Said(w, v).what = w /\ Said(w, v).of = v
BY DEF Said, Message

LEMMA MessageFields ==
    ASSUME NEW m \in Message
    PROVE  m.of \in Text /\ m.what \in {"nothing", "done", "error", "left", "broken"}
BY DEF Message

LEMMA ZeroIsText == 0 \in Text /\ TypeBound \in Nat
BY FormsAssumption DEF Text

LEMMA QuietIsMade == Quiet \in Message /\ Quiet.what = "nothing"
<1>1. 0 \in Text
  BY ZeroIsText
<1>2. QED
  BY <1>1 DEF Quiet, Message

LEMMA NewText ==
    ASSUME FormsInv, wrote < TypeBound, wrote' = wrote + 1
    PROVE  wrote' \in Text
BY FormsAssumption DEF FormsInv, FormsTyped, Text

LEMMA ShapeFacts ==
    ASSUME NEW s \in FormShapes
    PROVE  s.door \in BOOLEAN
<1>1. ASSUME NEW a, NEW b \in BOOLEAN, NEW c, NEW d, NEW e PROVE Shape(a, b, c, d, e).door \in BOOLEAN
  BY DEF Shape
<1>2. RegisterForm.door \in BOOLEAN /\ ChangePasswordForm.door \in BOOLEAN /\ DisableMfaForm.door \in BOOLEAN
  BY <1>1 DEF RegisterForm, ChangePasswordForm, DisableMfaForm
<1>3. SignOutEverywhere.door \in BOOLEAN /\ AccountPrivacy.door \in BOOLEAN /\ ProfileDetails.door \in BOOLEAN
  BY <1>1 DEF SignOutEverywhere, AccountPrivacy, ProfileDetails
<1>4. CategoryRow.door \in BOOLEAN /\ RoleEditor.door \in BOOLEAN /\ QueueRow.door \in BOOLEAN
  BY <1>1 DEF CategoryRow, RoleEditor, QueueRow
<1>5. ContributionRow.door \in BOOLEAN /\ CategoryForm.door \in BOOLEAN /\ SettingsForm.door \in BOOLEAN
  BY <1>1 DEF ContributionRow, CategoryForm, SettingsForm
<1>6. SupportSettingsForm.door \in BOOLEAN /\ SmtpForm.door \in BOOLEAN /\ InviteUserForm.door \in BOOLEAN
  BY <1>1 DEF SupportSettingsForm, SmtpForm, InviteUserForm
<1>7. RecoveryCodesPanel.door \in BOOLEAN /\ EnrollMfaFlow.door \in BOOLEAN /\ SupportForm.door \in BOOLEAN
  BY <1>1 DEF RecoveryCodesPanel, EnrollMfaFlow, SupportForm
<1>8. QED
  BY <1>2, <1>3, <1>4, <1>5, <1>6, <1>7 DEF FormShapes

LEMMA SheetShapes ==
    /\ InviteUserForm # EnrollMfaFlow
    /\ EnrollMfaFlow.ok = "show"
BY DEF Shape, InviteUserForm, EnrollMfaFlow

\* The calls are left alone, and the sheet.
LEMMA CallsAreLeft ==
    ASSUME FormsInv, UNCHANGED <<shape, pending, calls, slip, accepted, owed>>,
           saved' \in Text, props' \in Text, boxes' \in Text, draft' \in Text, wrote' \in Text, stored' \subseteq Text,
           drawn' \in BOOLEAN, says' = says \/ (says' = Quiet /\ (slip # 0 => shape # EnrollMfaFlow)),
           draft' # 0 => boxes' = draft'
    PROVE  FormsInv'
<1>1. says' \in Message
  BY QuietIsMade DEF FormsInv, FormsTyped
<1>2. FormsTyped'
  BY <1>1 DEF FormsInv, FormsTyped
<1>3. OneIsWaitedFor'
  BY DEF FormsInv, OneIsWaitedFor
<1>4. AnswersAreTrue'
  <2>1. CASE says' = says
    BY <2>1 DEF FormsInv, AnswersAreTrue
  <2>2. CASE says' = Quiet /\ (slip # 0 => shape # EnrollMfaFlow)
    <3>1. says'.what \notin {"done", "left"}
      BY <2>2, QuietIsMade
    <3>2. QED
      BY <2>2, <3>1 DEF FormsInv, AnswersAreTrue
  <2>3. QED
    BY <2>1, <2>2
<1>5. TextIsThere'
  BY DEF TextIsThere
<1>6. QED
  BY <1>2, <1>3, <1>4, <1>5 DEF FormsInv

LEMMA OpenFormKeeps ==
    ASSUME FormsInv, OpenForm
    PROVE  FormsInv'
<1>1. UNCHANGED <<shape, saved, props, pending, calls, slip, wrote, accepted, stored, owed>> /\ drawn' = TRUE
  BY DEF OpenForm
<1>2. says' = says \/ (says' = Quiet /\ (slip # 0 => shape # EnrollMfaFlow))
  BY SheetShapes DEF OpenForm
<1>3. boxes' \in Text /\ draft' \in Text /\ (draft' # 0 => boxes' = draft')
  BY ZeroIsText DEF OpenForm, FormsInv, FormsTyped, TextIsThere
<1>4. saved' \in Text /\ props' \in Text /\ wrote' \in Text /\ stored' \subseteq Text /\ drawn' \in BOOLEAN
  BY <1>1 DEF FormsInv, FormsTyped
<1>5. QED
  BY <1>1, <1>2, <1>3, <1>4, CallsAreLeft

LEMMA TypeInKeeps ==
    ASSUME FormsInv, TypeIn
    PROVE  FormsInv'
<1>1. UNCHANGED <<shape, saved, props, drawn, pending, calls, slip, accepted, stored, owed>>
  BY DEF TypeIn
<1>2. slip = 0 /\ (says' = says \/ says' = Quiet)
  BY DEF TypeIn, FormShown
<1>3. wrote' \in Text /\ boxes' = wrote' /\ draft' = wrote'
  BY NewText DEF TypeIn
<1>4. saved' \in Text /\ props' \in Text /\ stored' \subseteq Text /\ drawn' \in BOOLEAN
  BY <1>1 DEF FormsInv, FormsTyped
<1>5. QED
  BY <1>1, <1>2, <1>3, <1>4, CallsAreLeft

LEMMA CancelFormKeeps ==
    ASSUME FormsInv, CancelForm
    PROVE  FormsInv'
<1>1. UNCHANGED <<shape, saved, props, pending, calls, slip, wrote, accepted, stored, owed>> /\ drawn' = FALSE
  BY DEF CancelForm
<1>2. slip = 0 /\ (says' = says \/ says' = Quiet)
  BY DEF CancelForm, FormShown
<1>3. boxes' \in {0, props, boxes}
  BY DEF CancelForm
<1>4. draft' = 0 \/ (draft' = draft /\ boxes' = boxes)
  <2>1. CASE shape.cancel = "keep"
    <3>1. shape.cancel \notin {"empty", "drop"} /\ shape.cancel # "restore"
      BY <2>1
    <3>2. boxes' = boxes /\ draft' = draft
      BY <2>1, <3>1 DEF CancelForm
    <3>3. QED
      BY <3>2
  <2>2. CASE shape.cancel # "keep"
    BY <2>2 DEF CancelForm
  <2>3. QED
    BY <2>1, <2>2
<1>5. boxes' \in Text /\ draft' \in Text /\ (draft' # 0 => boxes' = draft')
  BY <1>3, <1>4, ZeroIsText DEF FormsInv, FormsTyped, TextIsThere
<1>6. saved' \in Text /\ props' \in Text /\ wrote' \in Text /\ stored' \subseteq Text /\ drawn' \in BOOLEAN
  BY <1>1 DEF FormsInv, FormsTyped
<1>7. QED
  BY <1>1, <1>2, <1>5, <1>6, CallsAreLeft

LEMMA RefreshPropsKeeps ==
    ASSUME FormsInv, RefreshProps
    PROVE  FormsInv'
<1>1. UNCHANGED <<shape, saved, drawn, boxes, pending, calls, says, slip, wrote, draft, accepted, stored, owed>>
      /\ props' = saved
  BY DEF RefreshProps
<1>2. /\ saved' \in Text /\ props' \in Text /\ boxes' \in Text /\ draft' \in Text /\ wrote' \in Text
      /\ stored' \subseteq Text /\ drawn' \in BOOLEAN /\ (draft' # 0 => boxes' = draft')
  BY <1>1 DEF FormsInv, FormsTyped, TextIsThere
<1>3. QED
  BY <1>1, <1>2, CallsAreLeft

LEMMA OtherSavesKeeps ==
    ASSUME FormsInv, OtherSaves
    PROVE  FormsInv'
<1>1. UNCHANGED <<shape, props, drawn, boxes, pending, calls, says, slip, draft, accepted, owed>>
  BY DEF OtherSaves
<1>2. wrote' \in Text
  BY NewText DEF OtherSaves
<1>3. saved' \in Text /\ stored' \subseteq Text
  BY <1>2 DEF OtherSaves, FormsInv, FormsTyped
<1>4. props' \in Text /\ boxes' \in Text /\ draft' \in Text /\ drawn' \in BOOLEAN /\ (draft' # 0 => boxes' = draft')
  BY <1>1 DEF FormsInv, FormsTyped, TextIsThere
<1>5. QED
  BY <1>1, <1>2, <1>3, <1>4, CallsAreLeft

LEMMA SubmitKeeps ==
    ASSUME FormsInv, Submit
    PROVE  FormsInv'
<1>1. /\ UNCHANGED <<shape, saved, props, drawn, boxes, slip, wrote, draft, accepted, stored, owed>>
      /\ ~pending /\ slip = 0 /\ pending' = TRUE /\ says' = Quiet
  BY DEF Submit, FormShown
<1>2. PICK at \in {"asked", "accepted", "refused"} : at = "asked"
  OBVIOUS
<1>3. PICK h \in BOOLEAN : h = TRUE
  OBVIOUS
<1>4. PICK new : new = [of |-> boxes, at |-> at, heard |-> h]
  OBVIOUS
<1>5. calls' = calls \cup {new}
  BY <1>2, <1>3, <1>4 DEF Submit
<1>6. boxes \in Text
  BY DEF FormsInv, FormsTyped
<1>7. new \in FormCall /\ new.at = at
  BY <1>4, <1>6, CallIsMade
<1>8. \A c \in calls : ~c.heard
  BY <1>1 DEF FormsInv, OneIsWaitedFor
<1>9. new.at = "asked" /\ new.heard = TRUE
  BY <1>2, <1>3, <1>4, <1>6, CallIsMade
<1>10. FormsTyped'
  BY <1>1, <1>5, <1>7, QuietIsMade DEF FormsInv, FormsTyped
<1>11. OneIsWaitedFor'
  <2>1. \A c \in calls' : c = new \/ (c \in calls /\ ~c.heard)
    BY <1>5, <1>8
  <2>2. \A c \in calls' : /\ c.heard => pending' /\ slip' = 0
                          /\ c.at # "asked" => c.heard
                          /\ c.at = "accepted" => c.of \in accepted'
    BY <1>1, <1>9, <2>1 DEF FormsInv, OneIsWaitedFor
  <2>3. QED
    BY <2>1, <2>2 DEF OneIsWaitedFor
<1>12. AnswersAreTrue'
  <2>1. says'.what \notin {"done", "left"}
    BY <1>1, QuietIsMade
  <2>2. QED
    BY <1>1, <2>1 DEF FormsInv, AnswersAreTrue
<1>13. TextIsThere'
  BY <1>1 DEF FormsInv, TextIsThere
<1>14. QED
  BY <1>10, <1>11, <1>12, <1>13 DEF FormsInv

\* A call has been served: whoever waits for it still does, and what was accepted stays so.
LEMMA CallServed ==
    ASSUME FormsInv, NEW c \in calls, NEW at \in {"accepted", "refused"}, NEW new,
           new = [of |-> c.of, at |-> at, heard |-> c.heard],
           calls' \subseteq (calls \ {c}) \cup {x \in {new} : x.heard},
           UNCHANGED <<shape, props, drawn, boxes, pending, says, slip, wrote, draft, owed>>,
           saved' \in Text, stored' \subseteq Text, accepted' \subseteq Text, accepted \subseteq accepted',
           at = "accepted" => c.of \in accepted'
    PROVE  FormsInv'
<1>1. c \in FormCall
  BY DEF FormsInv, FormsTyped
<1>2. c.of \in Text /\ c.heard \in BOOLEAN
  BY <1>1, CallFields
<1>3. new \in FormCall /\ new.of = c.of /\ new.heard = c.heard /\ new.at = at
  BY <1>2, CallIsMade
<1>4. \A d \in calls' : (d \in calls /\ d # c) \/ (d = new /\ c.heard)
  BY <1>3
<1>5. FormsTyped'
  BY <1>3, <1>4 DEF FormsInv, FormsTyped
<1>6. OneIsWaitedFor'
  <2>1. ASSUME NEW d \in calls'
        PROVE  /\ d.heard => pending' /\ slip' = 0
               /\ d.at # "asked" => d.heard
               /\ d.at = "accepted" => d.of \in accepted'
    <3>1. CASE d \in calls
      BY <3>1 DEF FormsInv, OneIsWaitedFor
    <3>2. CASE d = new /\ c.heard
      BY <1>3, <3>2 DEF FormsInv, OneIsWaitedFor
    <3>3. QED
      BY <1>4, <3>1, <3>2
  <2>2. ASSUME NEW d \in calls', NEW e \in calls', d.heard, e.heard PROVE d = e
    BY <1>3, <1>4, <2>2 DEF FormsInv, OneIsWaitedFor
  <2>3. QED
    BY <2>1, <2>2 DEF OneIsWaitedFor
<1>7. AnswersAreTrue'
  BY DEF FormsInv, AnswersAreTrue
<1>8. TextIsThere'
  BY DEF FormsInv, TextIsThere
<1>9. QED
  BY <1>5, <1>6, <1>7, <1>8 DEF FormsInv

LEMMA ServedKeeps ==
    ASSUME FormsInv, NEW c \in calls, Served(c)
    PROVE  FormsInv'
<1>1. c \in FormCall
  BY DEF FormsInv, FormsTyped
<1>2. /\ c = [of |-> c.of, at |-> c.at, heard |-> c.heard] /\ c.of \in Text
  BY <1>1, CallFields
<1>3. UNCHANGED <<shape, props, drawn, boxes, pending, says, slip, wrote, draft, owed>>
  BY DEF Served
<1>4. CASE /\ calls' = (calls \ {c}) \cup {x \in {[c EXCEPT !.at = "accepted"]} : x.heard}
           /\ accepted' = accepted \cup {c.of}
           /\ saved' = (IF Keeps THEN c.of ELSE saved) /\ stored' = stored \cup {saved'}
  <2>1. PICK at \in {"accepted", "refused"} : at = "accepted"
    OBVIOUS
  <2>2. PICK new : new = [c EXCEPT !.at = at]
    OBVIOUS
  <2>3. calls' \subseteq (calls \ {c}) \cup {x \in {new} : x.heard}
    BY <1>4, <2>1, <2>2
  <2>4. new = [of |-> c.of, at |-> at, heard |-> c.heard]
    BY <1>2, <2>2
  <2>5. saved' \in Text /\ stored' \subseteq Text /\ accepted' \subseteq Text
    BY <1>2, <1>4 DEF FormsInv, FormsTyped
  <2>6. accepted \subseteq accepted' /\ c.of \in accepted'
    BY <1>4
  <2>7. QED
    BY <1>3, <2>3, <2>4, <2>5, <2>6, CallServed
<1>5. CASE /\ calls' = (calls \ {c}) \cup {x \in {[c EXCEPT !.at = "refused"]} : x.heard}
           /\ UNCHANGED <<accepted, saved, stored>>
  <2>1. PICK at \in {"accepted", "refused"} : at = "refused"
    OBVIOUS
  <2>2. PICK new : new = [c EXCEPT !.at = at]
    OBVIOUS
  <2>3. calls' \subseteq (calls \ {c}) \cup {x \in {new} : x.heard}
    BY <1>5, <2>1, <2>2
  <2>4. new = [of |-> c.of, at |-> at, heard |-> c.heard]
    BY <1>2, <2>2
  <2>5. saved' \in Text /\ stored' \subseteq Text /\ accepted' \subseteq Text /\ accepted \subseteq accepted'
    BY <1>5 DEF FormsInv, FormsTyped
  <2>6. at # "accepted"
    BY <2>1
  <2>7. QED
    BY <1>3, <2>3, <2>4, <2>5, <2>6, CallServed
<1>6. QED
  BY <1>4, <1>5 DEF Served

\* The page has heard of its call, and waits for none.
LEMMA CallHeard ==
    ASSUME FormsInv, NEW c \in calls, c.heard, calls' = calls \ {c},
           UNCHANGED <<shape, saved, props, wrote, accepted, stored>>,
           pending' \in BOOLEAN, drawn' \in BOOLEAN, boxes' \in Text, draft' \in Text, draft' # 0 => boxes' = draft',
           says' \in Message, says'.what \in {"done", "left"} => says'.of \in accepted,
           \/ slip' = slip /\ owed' = owed
           \/ /\ slip' = c.of + 1 /\ owed' = owed \cup {c.of + 1} /\ says'.of \in accepted
    PROVE  FormsInv'
<1>1. c \in FormCall
  BY DEF FormsInv, FormsTyped
<1>2. c.of \in Text
  BY <1>1, CallFields
<1>3. \A d \in calls' : d \in calls /\ ~d.heard
  BY DEF FormsInv, OneIsWaitedFor
<1>4. slip = 0 /\ owed = {}
  BY DEF FormsInv, OneIsWaitedFor, AnswersAreTrue
<1>5. c.of + 1 \in 0..(TypeBound + 1) /\ c.of + 1 # 0
  BY <1>2, ZeroIsText DEF Text
<1>6. FormsTyped'
  <2>1. slip' \in 0..(TypeBound + 1)
    BY <1>5 DEF FormsInv, FormsTyped
  <2>2. QED
    BY <1>3, <2>1 DEF FormsInv, FormsTyped
<1>7. OneIsWaitedFor'
  BY <1>3 DEF FormsInv, OneIsWaitedFor
<1>8. AnswersAreTrue'
  BY <1>4, <1>5 DEF FormsInv, AnswersAreTrue
<1>9. TextIsThere'
  BY DEF TextIsThere
<1>10. QED
  BY <1>6, <1>7, <1>8, <1>9 DEF FormsInv

LEMMA AnswerOkKeeps ==
    ASSUME FormsInv, NEW c \in calls, AnswerOk(c)
    PROVE  FormsInv'
<1>1. c \in FormCall
  BY DEF FormsInv, FormsTyped
<1>2. c.of \in Text
  BY <1>1, CallFields
<1>3. c.heard /\ c.of \in accepted
  BY DEF AnswerOk, FormsInv, OneIsWaitedFor
<1>4. calls' = calls \ {c} /\ UNCHANGED <<shape, saved, props, wrote, accepted, stored>>
  BY DEF AnswerOk
<1>5. pending' \in BOOLEAN /\ drawn' \in BOOLEAN
  BY DEF AnswerOk, FormsInv, FormsTyped
<1>6. boxes' \in {0, boxes} /\ draft' \in {0, draft}
  BY DEF AnswerOk
<1>7. draft' # 0 => draft' = draft /\ boxes' = boxes
  <2>1. CASE shape.ok \in {"stay", "part"}
    <3>1. shape.ok \notin {"empty", "finish"}
      BY <2>1
    <3>2. boxes' = boxes
      BY <3>1 DEF AnswerOk
    <3>3. QED
      BY <1>6, <3>2
  <2>2. CASE shape.ok \notin {"stay", "part"}
    BY <2>2 DEF AnswerOk
  <2>3. QED
    BY <2>1, <2>2
<1>8. boxes' \in Text /\ draft' \in Text /\ (draft' # 0 => boxes' = draft')
  BY <1>6, <1>7, ZeroIsText DEF FormsInv, FormsTyped, TextIsThere
<1>9. PICK w \in {"done", "left"} : says' = Said(w, c.of)
  BY DEF AnswerOk
<1>10. says' \in Message /\ says'.of = c.of
  BY <1>2, <1>9, MessageIsMade
<1>11. \/ slip' = slip /\ owed' = owed
       \/ slip' = c.of + 1 /\ owed' = owed \cup {c.of + 1}
  BY DEF AnswerOk
<1>12. QED
  BY <1>3, <1>4, <1>5, <1>8, <1>10, <1>11, CallHeard

LEMMA AnswerNoKeeps ==
    ASSUME FormsInv, NEW c \in calls, AnswerNo(c)
    PROVE  FormsInv'
<1>1. c \in FormCall
  BY DEF FormsInv, FormsTyped
<1>2. c.of \in Text
  BY <1>1, CallFields
<1>3. c.heard
  BY DEF AnswerNo, FormsInv, OneIsWaitedFor
<1>4. /\ calls' = calls \ {c} /\ pending' = FALSE /\ says' = Said("error", c.of)
      /\ UNCHANGED <<shape, saved, props, drawn, boxes, slip, wrote, draft, accepted, stored, owed>>
  BY DEF AnswerNo
<1>5. says' \in Message /\ says'.what \notin {"done", "left"}
  BY <1>2, <1>4, MessageIsMade
<1>6. drawn' \in BOOLEAN /\ boxes' \in Text /\ draft' \in Text /\ (draft' # 0 => boxes' = draft')
  BY <1>4 DEF FormsInv, FormsTyped, TextIsThere
<1>7. QED
  BY <1>3, <1>4, <1>5, <1>6, CallHeard

LEMMA ThrownKeeps ==
    ASSUME FormsInv, NEW c \in calls, Thrown(c)
    PROVE  FormsInv'
<1>1. c \in FormCall
  BY DEF FormsInv, FormsTyped
<1>2. c.of \in Text
  BY <1>1, CallFields
<1>3. /\ c.heard /\ calls' = calls \ {c}
      /\ UNCHANGED <<shape, saved, props, drawn, boxes, slip, wrote, draft, accepted, stored, owed>>
  BY DEF Thrown
<1>4. (pending' = FALSE /\ says' = Said("broken", c.of)) \/ UNCHANGED <<pending, says>>
  BY DEF Thrown
<1>5. pending' \in BOOLEAN
  BY <1>4 DEF FormsInv, FormsTyped
<1>6. says' \in Message /\ (says'.what \in {"done", "left"} => says'.of \in accepted)
  <2>1. CASE says' = Said("broken", c.of)
    BY <1>2, <2>1, MessageIsMade
  <2>2. CASE says' = says
    BY <2>2 DEF FormsInv, FormsTyped, AnswersAreTrue
  <2>3. QED
    BY <1>4, <2>1, <2>2
<1>7. drawn' \in BOOLEAN /\ boxes' \in Text /\ draft' \in Text /\ (draft' # 0 => boxes' = draft')
  BY <1>3 DEF FormsInv, FormsTyped, TextIsThere
<1>8. QED
  BY <1>3, <1>5, <1>6, <1>7, CallHeard

LEMMA DismissKeeps ==
    ASSUME FormsInv, Dismiss
    PROVE  FormsInv'
<1>1. /\ slip # 0 /\ slip' = 0 /\ owed' = owed \ {slip} /\ boxes' = 0 /\ draft' = 0
      /\ UNCHANGED <<shape, saved, props, pending, calls, wrote, accepted, stored>>
  BY DEF Dismiss
<1>2. \A c \in calls : ~c.heard
  BY <1>1 DEF FormsInv, OneIsWaitedFor
<1>3. drawn' \in BOOLEAN
  BY ShapeFacts DEF Dismiss, FormsInv, FormsTyped
<1>4. says.of \in Text
  BY MessageFields DEF FormsInv, FormsTyped
<1>5. says' \in Message /\ (says'.what \in {"done", "left"} => says'.of \in accepted)
  <2>1. CASE shape = EnrollMfaFlow
    <3>1. says' = Said("left", says.of)
      BY <2>1 DEF Dismiss
    <3>2. says.of \in accepted
      BY <1>1, <2>1 DEF FormsInv, AnswersAreTrue
    <3>3. QED
      BY <1>4, <3>1, <3>2, MessageIsMade
  <2>2. CASE shape # EnrollMfaFlow
    BY <2>2, QuietIsMade DEF Dismiss
  <2>3. QED
    BY <2>1, <2>2
<1>6. FormsTyped'
  <2>1. slip' \in 0..(TypeBound + 1) /\ 0 \in Text
    BY <1>1, ZeroIsText
  <2>2. QED
    BY <1>1, <1>3, <1>5, <2>1 DEF FormsInv, FormsTyped
<1>7. OneIsWaitedFor'
  BY <1>1, <1>2 DEF FormsInv, OneIsWaitedFor
<1>8. AnswersAreTrue'
  <2>1. owed' \subseteq {slip'} \ {0}
    BY <1>1 DEF FormsInv, AnswersAreTrue
  <2>2. QED
    BY <1>1, <1>5, <2>1 DEF AnswersAreTrue
<1>9. TextIsThere'
  BY <1>1 DEF TextIsThere
<1>10. QED
  BY <1>6, <1>7, <1>8, <1>9 DEF FormsInv

LEMMA ReloadFormKeeps ==
    ASSUME FormsInv, ReloadForm
    PROVE  FormsInv'
<1>1. /\ UNCHANGED <<shape, saved, wrote, accepted, stored>> /\ props' = saved /\ boxes' \in {saved, 0}
      /\ drawn' = ~shape.door /\ pending' = FALSE /\ says' = Quiet /\ slip' = 0 /\ draft' = 0 /\ owed' = {}
  BY DEF ReloadForm, Mounted
<1>2. PICK h \in BOOLEAN : h = FALSE
  OBVIOUS
<1>3. calls' = {[c EXCEPT !.heard = h] : c \in {d \in calls : d.at = "asked"}}
  BY <1>2 DEF ReloadForm, Mounted
<1>4. ASSUME NEW d \in calls' PROVE d \in FormCall /\ d.heard = h /\ d.at = "asked"
  <2>1. PICK c \in {x \in calls : x.at = "asked"} : d = [c EXCEPT !.heard = h]
    BY <1>3
  <2>2. c \in FormCall /\ c.at = "asked"
    BY <2>1 DEF FormsInv, FormsTyped
  <2>3. c = [of |-> c.of, at |-> c.at, heard |-> c.heard] /\ c.of \in Text /\ c.at \in {"asked", "accepted", "refused"}
    BY <2>2, CallFields
  <2>4. d = [of |-> c.of, at |-> c.at, heard |-> h]
    BY <2>1, <2>3
  <2>5. d \in FormCall /\ d.at = c.at /\ d.heard = h
    BY <2>3, <2>4, CallIsMade
  <2>6. QED
    BY <2>2, <2>5
<1>5. FormsTyped'
  <2>1. drawn' \in BOOLEAN
    BY <1>1, ShapeFacts DEF FormsInv, FormsTyped
  <2>2. slip' \in 0..(TypeBound + 1) /\ 0 \in Text
    BY <1>1, ZeroIsText
  <2>3. calls' \subseteq FormCall
    BY <1>4
  <2>4. says' \in Message
    BY <1>1, QuietIsMade
  <2>5. QED
    BY <1>1, <2>1, <2>2, <2>3, <2>4 DEF FormsInv, FormsTyped
<1>6. OneIsWaitedFor'
  <2>1. \A d \in calls' : ~d.heard /\ d.at = "asked"
    BY <1>2, <1>4
  <2>2. QED
    BY <2>1 DEF OneIsWaitedFor
<1>7. AnswersAreTrue'
  <2>1. says'.what \notin {"done", "left"}
    BY <1>1, QuietIsMade
  <2>2. QED
    BY <1>1, <2>1 DEF AnswersAreTrue
<1>8. TextIsThere'
  BY <1>1 DEF TextIsThere
<1>9. QED
  BY <1>5, <1>6, <1>7, <1>8 DEF FormsInv

LEMMA FormsInitInv ==
    ASSUME FormsInit
    PROVE  FormsInv
<1>1. /\ shape \in FormShapes /\ saved = 0 /\ props = 0 /\ boxes = 0 /\ drawn = ~shape.door /\ pending = FALSE
      /\ calls = {} /\ says = Quiet /\ slip = 0 /\ wrote = 0 /\ draft = 0 /\ accepted = {} /\ stored = {0} /\ owed = {}
  BY DEF FormsInit
<1>2. drawn \in BOOLEAN
  BY <1>1, ShapeFacts
<1>3. 0 \in Text /\ slip \in 0..(TypeBound + 1)
  BY <1>1, ZeroIsText
<1>4. FormsTyped
  BY <1>1, <1>2, <1>3, QuietIsMade DEF FormsTyped
<1>5. OneIsWaitedFor /\ TextIsThere
  BY <1>1 DEF OneIsWaitedFor, TextIsThere
<1>6. AnswersAreTrue
  BY <1>1, QuietIsMade DEF AnswersAreTrue
<1>7. QED
  BY <1>4, <1>5, <1>6 DEF FormsInv

LEMMA FormsNextInv ==
    ASSUME FormsInv, FormsNext
    PROVE  FormsInv'
BY OpenFormKeeps, TypeInKeeps, CancelFormKeeps, SubmitKeeps, DismissKeeps, RefreshPropsKeeps, OtherSavesKeeps,
   ReloadFormKeeps, ServedKeeps, AnswerOkKeeps, AnswerNoKeeps, ThrownKeeps DEF FormsNext

LEMMA FormsInvImplies ==
    ASSUME FormsInv
    PROVE  FormsTypeOK /\ FormsHold
<1>1. FormsTypeOK
  <2>1. \A c \in calls : c.of \in 0..TypeBound /\ c.heard \in BOOLEAN /\ c.at \in {"asked", "accepted", "refused"}
    BY CallFields DEF FormsInv, FormsTyped, Text
  <2>2. says.what \in {"nothing", "done", "error", "left", "broken"} /\ says.of \in 0..TypeBound
    BY MessageFields DEF FormsInv, FormsTyped, Text
  <2>3. owed \subseteq 0..(TypeBound + 1)
    BY DEF FormsInv, FormsTyped, AnswersAreTrue
  <2>4. QED
    BY <2>1, <2>2, <2>3 DEF FormsInv, FormsTyped, Text, FormsTypeOK
<1>2. SaysWhatWasDone
  <2>1. PICK S : S = {c \in calls : c.heard}
    OBVIOUS
  <2>2. CASE S = {}
    BY <2>1, <2>2, FS_EmptySet DEF FormsInv, AnswersAreTrue, SaysWhatWasDone
  <2>3. CASE S # {}
    <3>1. PICK c : c \in S
      BY <2>3
    <3>2. S = {c}
      BY <2>1, <3>1 DEF FormsInv, OneIsWaitedFor
    <3>3. Cardinality(S) = 1
      BY <3>2, FS_Singleton
    <3>4. QED
      BY <2>1, <3>3 DEF FormsInv, AnswersAreTrue, SaysWhatWasDone
  <2>4. QED
    BY <2>2, <2>3
<1>3. SheetsStay
  BY DEF FormsInv, AnswersAreTrue, SheetsStay
<1>4. RefusedTextStays
  BY DEF FormsInv, TextIsThere, RefusedTextStays
<1>5. QED
  BY <1>1, <1>2, <1>3, <1>4 DEF FormsHold

\* A form says "done" of what the server accepted, owes no secret it has not
\* shown, and keeps what is typed into it until it is answered.
THEOREM FormsAnswerTruly == FormsSpec => []FormsInv
<1>1. FormsInv /\ [FormsNext]_formVars => FormsInv'
  <2>1. FormsInv /\ UNCHANGED formVars => FormsInv'
    BY DEF formVars, FormsInv, FormsTyped, OneIsWaitedFor, AnswersAreTrue, TextIsThere
  <2>2. QED
    BY <2>1, FormsNextInv
<1>2. QED
  BY <1>1, FormsInitInv, PTL DEF FormsSpec

---------------------------------------------------------------------------
(* Filing: a report and its photos                                       *)

SentRow == [media : SUBSET Photo, anonymous : BOOLEAN]
ReportRow == [at : {"none", "asked", "filed", "refused"}, press : Nat]
Presses(set) == {i.press : i \in set}

FilingTyped ==
    /\ shots \in 0..PhotoBound /\ thumbs \subseteq 1..shots /\ picked \in 0..PhotoLimit /\ noName \in BOOLEAN
    /\ presses \in Seq(SentRow) /\ report \in ReportRow /\ receipt \in 0..Len(presses)
    /\ report.at = "none" <=> report = NoReport
    /\ report.at # "none" => report.press \in DOMAIN presses
    /\ \A i \in issues : i.press \in DOMAIN presses
    /\ \A k \in DOMAIN presses : presses[k].media \subseteq 1..shots

\* A report that is asked for, or was refused, has filed nothing yet.
ReportIsNew == report.at \in {"asked", "refused"} => report.press \notin Presses(issues)

\* What holds of the photos, the presses and the report they made.
FilingInv == FilingTyped /\ PhotosFit /\ FiledAsShown /\ FiledIsHeard /\ ReportIsNew

LEMMA ReportFields ==
    ASSUME NEW r \in ReportRow
    PROVE  r = [at |-> r.at, press |-> r.press] /\ r.at \in {"none", "asked", "filed", "refused"} /\ r.press \in Nat
BY DEF ReportRow

LEMMA ReportIsMade ==
    ASSUME NEW at \in {"none", "asked", "filed", "refused"}, NEW p \in Nat, NEW r, r = [at |-> at, press |-> p]
    PROVE  r \in ReportRow /\ r.at = at /\ r.press = p
<1>1. r.at = at /\ r.press = p
  OBVIOUS
<1>2. r \in ReportRow
  BY DEF ReportRow
<1>3. QED
  BY <1>1, <1>2

LEMMA NoReportIsMade == NoReport \in ReportRow /\ NoReport.at = "none" /\ NoReport.press = 0
BY DEF NoReport, ReportRow

\* Photos on the page can be counted.
LEMMA PhotosAreCounted ==
    ASSUME NEW n \in 0..PhotoBound, NEW set, set \subseteq 1..n
    PROVE  IsFiniteSet(set) /\ Files(set) \in Nat
<1>1. n \in Nat
  BY FilingAssumption
<1>2. IsFiniteSet(1..n)
  BY <1>1, FS_Interval
<1>3. IsFiniteSet(set)
  BY <1>2, FS_Subset
<1>4. QED
  BY <1>3, FS_CardinalityType DEF Files

\* The page changes while the report stands where it is.
LEMMA PageOnly ==
    ASSUME FilingInv, UNCHANGED <<report, issues, presses, heard, unheard>>,
           shots' \in 0..PhotoBound, shots <= shots', thumbs' \subseteq 1..shots', picked' \in 0..PhotoLimit,
           noName' \in BOOLEAN, receipt' = receipt, Files(thumbs') + picked' <= PhotoLimit
    PROVE  FilingInv'
<1>1. shots \in Nat /\ shots' \in Nat
  BY FilingAssumption DEF FilingInv, FilingTyped
<1>2. 1..shots \subseteq 1..shots'
  BY <1>1
<1>3. \A k \in DOMAIN presses : presses[k].media \subseteq 1..shots'
  BY <1>2 DEF FilingInv, FilingTyped
<1>4. FilingTyped'
  BY <1>3 DEF FilingInv, FilingTyped
<1>5. PhotosFit'
  BY DEF PhotosFit
<1>6. FiledAsShown' /\ FiledIsHeard' /\ ReportIsNew'
  BY DEF FilingInv, FiledAsShown, FiledIsHeard, ReportIsNew, Presses
<1>7. QED
  BY <1>4, <1>5, <1>6 DEF FilingInv

\* What is known of the page.
LEMMA ThePage ==
    ASSUME FilingInv
    PROVE  /\ PhotoLimit \in Nat /\ PhotoBound \in Nat /\ shots \in Nat /\ shots \in 0..PhotoBound
           /\ thumbs \subseteq 1..shots /\ picked \in Nat /\ picked \in 0..PhotoLimit /\ noName \in BOOLEAN
           /\ IsFiniteSet(thumbs) /\ Files(thumbs) \in Nat /\ Files(thumbs) + picked <= PhotoLimit
<1>1. shots \in 0..PhotoBound /\ thumbs \subseteq 1..shots /\ picked \in 0..PhotoLimit /\ noName \in BOOLEAN
  BY DEF FilingInv, FilingTyped
<1>2. IsFiniteSet(thumbs) /\ Files(thumbs) \in Nat
  BY <1>1, PhotosAreCounted
<1>3. Files(thumbs) + picked <= PhotoLimit
  BY DEF FilingInv, PhotosFit
<1>4. QED
  BY <1>1, <1>2, <1>3, FilingAssumption

LEMMA PickFilesKeeps ==
    ASSUME FilingInv, NEW n \in 1..(PhotoLimit + 1), PickFiles(n)
    PROVE  FilingInv'
<1>1. /\ UNCHANGED <<thumbs, noName, report, receipt, shots, issues, presses, heard, unheard>>
      /\ Files(thumbs) < PhotoLimit
      /\ picked' = IF Files(thumbs) + n > PhotoLimit THEN PhotoLimit - Files(thumbs) ELSE n
  BY DEF PickFiles
<1>2. PICK c \in Nat : c = Files(thumbs)
  BY ThePage
<1>3. n \in Nat /\ PhotoLimit \in Nat
  BY ThePage
<1>4. picked' \in 0..PhotoLimit /\ c + picked' <= PhotoLimit
  BY <1>1, <1>2, <1>3
<1>5. Files(thumbs') + picked' <= PhotoLimit
  BY <1>1, <1>2, <1>4 DEF Files
<1>6. shots' \in 0..PhotoBound /\ shots <= shots' /\ thumbs' \subseteq 1..shots' /\ noName' \in BOOLEAN
  BY <1>1, ThePage
<1>7. QED
  BY <1>1, <1>4, <1>5, <1>6, PageOnly

LEMMA PhotoStoredKeeps ==
    ASSUME FilingInv, PhotoStored
    PROVE  FilingInv'
<1>1. /\ picked > 0 /\ shots < PhotoBound
      /\ shots' = shots + 1 /\ thumbs' = thumbs \cup {shots'} /\ picked' = picked - 1
      /\ UNCHANGED <<noName, report, receipt, issues, presses, heard, unheard>>
  BY DEF PhotoStored
<1>2. shots' \notin thumbs
  BY <1>1, ThePage
<1>3. Cardinality(thumbs') = Cardinality(thumbs) + 1
  BY <1>1, <1>2, ThePage, FS_AddElement
<1>4. PICK c \in Nat : c = Files(thumbs) /\ c + picked <= PhotoLimit
  BY ThePage
<1>5. c + 1 + picked' <= PhotoLimit /\ picked' \in 0..PhotoLimit
  BY <1>1, <1>4, ThePage
<1>6. Files(thumbs') + picked' <= PhotoLimit
  BY <1>3, <1>4, <1>5 DEF Files
<1>7. shots' \in 0..PhotoBound /\ shots <= shots' /\ thumbs' \subseteq 1..shots' /\ noName' \in BOOLEAN
  BY <1>1, ThePage
<1>8. QED
  BY <1>1, <1>5, <1>6, <1>7, PageOnly

LEMMA PhotoFailsKeeps ==
    ASSUME FilingInv, PhotoFails
    PROVE  FilingInv'
<1>1. /\ picked' = 0 /\ shots' \in {shots, shots + 1} /\ shots' <= PhotoBound
      /\ UNCHANGED <<thumbs, noName, report, receipt, issues, presses, heard, unheard>>
  BY DEF PhotoFails
<1>2. PICK c \in Nat : c = Files(thumbs) /\ c + picked <= PhotoLimit
  BY ThePage
<1>3. c + picked' <= PhotoLimit /\ picked' \in 0..PhotoLimit
  BY <1>1, <1>2, ThePage
<1>4. Files(thumbs') + picked' <= PhotoLimit
  BY <1>1, <1>2, <1>3 DEF Files
<1>5. shots' \in 0..PhotoBound /\ shots <= shots' /\ thumbs' \subseteq 1..shots' /\ noName' \in BOOLEAN
  BY <1>1, ThePage
<1>6. QED
  BY <1>1, <1>3, <1>4, <1>5, PageOnly

LEMMA StrikePhotoKeeps ==
    ASSUME FilingInv, NEW p \in Photo, StrikePhoto(p)
    PROVE  FilingInv'
<1>1. /\ p \in thumbs /\ thumbs' = thumbs \ {p}
      /\ UNCHANGED <<picked, noName, report, receipt, shots, issues, presses, heard, unheard>>
  BY DEF StrikePhoto
<1>2. Cardinality(thumbs') = Cardinality(thumbs) - 1
  BY <1>1, ThePage, FS_RemoveElement
<1>3. PICK c \in Nat : c = Files(thumbs) /\ c + picked <= PhotoLimit
  BY ThePage
<1>4. c - 1 + picked' <= PhotoLimit
  BY <1>1, <1>3, ThePage
<1>5. Files(thumbs') + picked' <= PhotoLimit
  BY <1>2, <1>3, <1>4 DEF Files
<1>6. shots' \in 0..PhotoBound /\ shots <= shots' /\ thumbs' \subseteq 1..shots' /\ noName' \in BOOLEAN
      /\ picked' \in 0..PhotoLimit
  BY <1>1, ThePage
<1>7. QED
  BY <1>1, <1>5, <1>6, PageOnly

LEMMA TurnNameKeeps ==
    ASSUME FilingInv, TurnName
    PROVE  FilingInv'
<1>1. /\ noName' = ~noName
      /\ UNCHANGED <<thumbs, picked, report, receipt, shots, issues, presses, heard, unheard>>
  BY DEF TurnName
<1>2. Files(thumbs') + picked' <= PhotoLimit
  BY <1>1, ThePage DEF Files
<1>3. shots' \in 0..PhotoBound /\ shots <= shots' /\ thumbs' \subseteq 1..shots' /\ noName' \in BOOLEAN
      /\ picked' \in 0..PhotoLimit
  BY <1>1, ThePage
<1>4. QED
  BY <1>1, <1>2, <1>3, PageOnly

\* The report and its rows change, and the page with its photos does not.
LEMMA ReportOnly ==
    ASSUME FilingInv, UNCHANGED <<thumbs, picked, noName, shots>>,
           presses' \in Seq(SentRow), \A k \in DOMAIN presses' : presses'[k].media \subseteq 1..shots,
           report' \in ReportRow, receipt' \in 0..Len(presses'), report'.at = "none" <=> report' = NoReport,
           report'.at # "none" => report'.press \in DOMAIN presses',
           \A i \in issues' : i.press \in DOMAIN presses',
           FiledAsShown', FiledIsHeard', ReportIsNew'
    PROVE  FilingInv'
<1>1. FilingTyped'
  BY DEF FilingInv, FilingTyped
<1>2. PhotosFit'
  BY DEF FilingInv, PhotosFit, Files
<1>3. QED
  BY <1>1, <1>2 DEF FilingInv

LEMMA SendReportKeeps ==
    ASSUME FilingInv, SendReport
    PROVE  FilingInv'
<1>1. /\ receipt = 0 /\ report = NoReport /\ presses' = Append(presses, Sent)
      /\ report' = [at |-> "asked", press |-> Len(presses')]
      /\ UNCHANGED <<thumbs, picked, noName, receipt, shots, issues, heard, unheard>>
  BY DEF SendReport
<1>2. PICK new : new = Sent
  OBVIOUS
<1>3. thumbs \subseteq Photo /\ noName \in BOOLEAN
  BY ThePage DEF Photo
<1>4. new \in SentRow /\ new.media = thumbs
  BY <1>2, <1>3 DEF Sent, SentRow
<1>5. presses \in Seq(SentRow)
  BY DEF FilingInv, FilingTyped
<1>6. Len(presses) \in Nat /\ DOMAIN presses = 1..Len(presses)
  BY <1>5
<1>7. /\ presses' \in Seq(SentRow) /\ Len(presses') = Len(presses) + 1 /\ presses'[Len(presses) + 1] = new
      /\ \A k \in 1..Len(presses) : presses'[k] = presses[k]
  BY <1>1, <1>2, <1>4, <1>5
<1>8. DOMAIN presses' = 1..(Len(presses) + 1)
  BY <1>7
<1>9. PICK at \in {"none", "asked", "filed", "refused"} : at = "asked"
  OBVIOUS
<1>10. Len(presses') \in Nat /\ Len(presses') \in DOMAIN presses' /\ receipt' \in 0..Len(presses')
  BY <1>1, <1>6, <1>7, <1>8
<1>11. report' = [at |-> at, press |-> Len(presses')]
  BY <1>1, <1>9
<1>12. report' \in ReportRow /\ report'.at = at /\ report'.press = Len(presses')
  BY <1>10, <1>11, ReportIsMade
<1>13. report'.at = "asked" /\ report' # NoReport
  BY <1>9, <1>12, NoReportIsMade
<1>14. \A k \in DOMAIN presses' : presses'[k].media \subseteq 1..shots
  <2>1. \A k \in DOMAIN presses' : k = Len(presses) + 1 \/ k \in 1..Len(presses)
    BY <1>6, <1>8
  <2>2. ASSUME NEW k \in DOMAIN presses' PROVE presses'[k].media \subseteq 1..shots
    <3>1. CASE k = Len(presses) + 1
      BY <1>4, <1>7, <3>1, ThePage
    <3>2. CASE k \in 1..Len(presses)
      BY <1>6, <1>7, <3>2 DEF FilingInv, FilingTyped
    <3>3. QED
      BY <2>1, <3>1, <3>2
  <2>3. QED
    BY <2>2
<1>15. \A i \in issues' : i.press \in 1..Len(presses)
  BY <1>1, <1>6 DEF FilingInv, FilingTyped
<1>16. 1..Len(presses) \subseteq DOMAIN presses' /\ Len(presses) + 1 \notin 1..Len(presses)
  BY <1>6, <1>8
<1>17. FiledAsShown'
  BY <1>1, <1>7, <1>15 DEF FilingInv, FiledAsShown
<1>18. FiledIsHeard'
  <2>1. report.at = "none"
    BY <1>1, NoReportIsMade
  <2>2. report.at # "filed" /\ report'.at # "filed"
    BY <1>13, <2>1
  <2>3. QED
    BY <1>1, <2>2 DEF FilingInv, FiledIsHeard
<1>19. ReportIsNew'
  BY <1>7, <1>12, <1>15, <1>16 DEF ReportIsNew, Presses
<1>20. \A i \in issues' : i.press \in DOMAIN presses'
  BY <1>15, <1>16
<1>21. QED
  BY <1>1, <1>7, <1>10, <1>12, <1>13, <1>14, <1>17, <1>18, <1>19, <1>20, ReportOnly

\* What is known of a report under way, and of what it would file.
LEMMA TheReport ==
    ASSUME FilingInv, report.at # "none"
    PROVE  /\ report \in ReportRow /\ report.press \in DOMAIN presses /\ report.press \in 1..Len(presses)
           /\ report = [at |-> report.at, press |-> report.press]
           /\ Filed.press = report.press
           /\ [media |-> Filed.media, anonymous |-> Filed.anonymous] = presses[report.press]
<1>1. report \in ReportRow /\ report.press \in DOMAIN presses /\ presses \in Seq(SentRow)
  BY DEF FilingInv, FilingTyped
<1>2. PICK r : r = presses[report.press]
  OBVIOUS
<1>3. r \in SentRow /\ r.media \subseteq 1..shots
  BY <1>1, <1>2 DEF FilingInv, FilingTyped
<1>4. r = [media |-> r.media, anonymous |-> r.anonymous]
  BY <1>3 DEF SentRow
<1>5. r.media \cap 1..shots = r.media
  BY <1>3
<1>6. /\ Filed.press = report.press /\ Filed.media = r.media \cap 1..shots /\ Filed.anonymous = r.anonymous
  BY <1>2 DEF Filed
<1>7. report.press \in 1..Len(presses)
  BY <1>1
<1>8. QED
  BY <1>1, <1>2, <1>4, <1>5, <1>6, <1>7, ReportFields

\* The rows with what the report files.
LEMMA FiledRows ==
    ASSUME FilingInv, report.at # "none", issues' \in {issues, issues \cup {Filed}}, UNCHANGED presses
    PROVE  /\ \A i \in issues' : i.press \in DOMAIN presses
           /\ FiledAsShown'
           /\ Presses(issues') \subseteq Presses(issues) \cup {report.press}
           /\ Presses(issues) \subseteq Presses(issues')
           /\ issues' = issues \cup {Filed} => report.press \in Presses(issues')
<1>1. \A i \in issues' : i \in issues \/ i = Filed
  OBVIOUS
<1>2. \A i \in issues' : i.press \in DOMAIN presses
  BY <1>1, TheReport DEF FilingInv, FilingTyped
<1>3. FiledAsShown'
  BY <1>1, TheReport DEF FilingInv, FiledAsShown
<1>4. \A i \in issues' : i \in issues \/ i.press = report.press
  BY <1>1, TheReport
<1>5. /\ Presses(issues') \subseteq Presses(issues) \cup {report.press}
      /\ Presses(issues) \subseteq Presses(issues')
  BY <1>4 DEF Presses
<1>6. issues' = issues \cup {Filed} => report.press \in Presses(issues')
  BY TheReport DEF Presses
<1>7. QED
  BY <1>2, <1>3, <1>5, <1>6

\* The report goes on.
LEMMA ReportGoesOn ==
    ASSUME FilingInv, report.at # "none", NEW at \in {"asked", "filed", "refused"}, report' = [report EXCEPT !.at = at]
    PROVE  /\ report' \in ReportRow /\ report'.at = at /\ report'.press = report.press /\ report' # NoReport
<1>1. report = [at |-> report.at, press |-> report.press] /\ report.press \in Nat
  BY TheReport, ReportFields
<1>2. report' = [at |-> at, press |-> report.press]
  BY <1>1
<1>3. at \in {"none", "asked", "filed", "refused"} /\ at # "none"
  OBVIOUS
<1>4. report' \in ReportRow /\ report'.at = at /\ report'.press = report.press
  BY <1>1, <1>2, <1>3, ReportIsMade
<1>5. QED
  BY <1>3, <1>4, NoReportIsMade

LEMMA FileReportKeeps ==
    ASSUME FilingInv, FileReport
    PROVE  FilingInv'
<1>1. report.at = "asked" /\ UNCHANGED <<thumbs, picked, noName, receipt, shots, presses, heard, unheard>>
  BY DEF FileReport
<1>2. report.at # "none" /\ report.at # "filed" /\ report.press \notin Presses(issues)
  BY <1>1 DEF FilingInv, ReportIsNew
<1>3. Presses(issues) = heard \cup unheard
  BY <1>2 DEF FilingInv, FiledIsHeard, Presses
<1>4. \/ issues' = issues \cup {Filed} /\ report' = [report EXCEPT !.at = "filed"]
      \/ issues' = issues /\ report' = [report EXCEPT !.at = "refused"]
  BY DEF FileReport
<1>5. /\ \A i \in issues' : i.press \in DOMAIN presses
      /\ FiledAsShown'
      /\ Presses(issues') \subseteq Presses(issues) \cup {report.press}
      /\ Presses(issues) \subseteq Presses(issues')
      /\ issues' = issues \cup {Filed} => report.press \in Presses(issues')
  BY <1>1, <1>2, <1>4, FiledRows
<1>6. PICK at \in {"asked", "filed", "refused"} :
          /\ report' = [report EXCEPT !.at = at]
          /\ \/ at = "filed" /\ issues' = issues \cup {Filed}
             \/ at = "refused" /\ issues' = issues
  BY <1>4
<1>7. report' \in ReportRow /\ report'.at = at /\ report'.press = report.press /\ report' # NoReport
  BY <1>2, <1>6, ReportGoesOn
<1>8. FiledIsHeard'
  <2>1. CASE at = "filed" /\ issues' = issues \cup {Filed}
    <3>1. Presses(issues') = heard \cup unheard \cup {report.press}
      BY <1>3, <1>5, <2>1
    <3>2. QED
      BY <1>1, <1>7, <2>1, <3>1 DEF FiledIsHeard, Presses
  <2>2. CASE at = "refused" /\ issues' = issues
    <3>1. at # "filed"
      BY <2>2
    <3>2. QED
      BY <1>1, <1>3, <1>7, <2>2, <3>1 DEF FiledIsHeard, Presses
  <2>3. QED
    BY <1>6, <2>1, <2>2
<1>9. ReportIsNew'
  <2>1. CASE at = "filed"
    <3>1. at \notin {"asked", "refused"}
      BY <2>1
    <3>2. QED
      BY <1>7, <3>1 DEF ReportIsNew
  <2>2. CASE at = "refused" /\ issues' = issues
    BY <1>2, <1>7, <2>2 DEF ReportIsNew
  <2>3. QED
    BY <1>6, <2>1, <2>2
<1>10. at # "none"
  OBVIOUS
<1>11. /\ presses' \in Seq(SentRow) /\ receipt' \in 0..Len(presses') /\ report'.press \in DOMAIN presses'
       /\ \A k \in DOMAIN presses' : presses'[k].media \subseteq 1..shots
  BY <1>1, <1>2, <1>7, TheReport DEF FilingInv, FilingTyped
<1>12. QED
  BY <1>1, <1>5, <1>7, <1>8, <1>9, <1>10, <1>11, ReportOnly

\* No report is under way any more.
LEMMA ReportEnds ==
    ASSUME FilingInv, UNCHANGED <<thumbs, picked, noName, shots, issues, presses>>, report' = NoReport,
           receipt' \in 0..Len(presses), FiledIsHeard'
    PROVE  FilingInv'
<1>1. report' \in ReportRow /\ report'.at = "none"
  BY NoReportIsMade
<1>2. ReportIsNew'
  <2>1. report'.at \notin {"asked", "refused"}
    BY <1>1
  <2>2. QED
    BY <2>1 DEF ReportIsNew
<1>3. FiledAsShown'
  BY DEF FilingInv, FiledAsShown
<1>4. /\ presses' \in Seq(SentRow) /\ receipt' \in 0..Len(presses')
      /\ \A k \in DOMAIN presses' : presses'[k].media \subseteq 1..shots
      /\ \A i \in issues' : i.press \in DOMAIN presses'
  BY DEF FilingInv, FilingTyped
<1>5. QED
  BY <1>1, <1>2, <1>3, <1>4, ReportOnly

LEMMA HearFiledKeeps ==
    ASSUME FilingInv, HearFiled
    PROVE  FilingInv'
<1>1. /\ report.at = "filed" /\ receipt' = report.press /\ heard' = heard \cup {report.press} /\ report' = NoReport
      /\ UNCHANGED <<thumbs, picked, noName, shots, issues, presses, unheard>>
  BY DEF HearFiled
<1>2. report.press \in 1..Len(presses) /\ presses \in Seq(SentRow)
  BY <1>1, TheReport DEF FilingInv, FilingTyped
<1>3. receipt' \in 0..Len(presses)
  BY <1>1, <1>2
<1>4. FiledIsHeard'
  <2>1. Presses(issues) = heard \cup unheard \cup {report.press}
    BY <1>1 DEF FilingInv, FiledIsHeard, Presses
  <2>2. report'.at # "filed"
    BY <1>1, NoReportIsMade
  <2>3. QED
    BY <1>1, <2>1, <2>2 DEF FiledIsHeard, Presses
<1>5. QED
  BY <1>1, <1>3, <1>4, ReportEnds

LEMMA HearRefusedKeeps ==
    ASSUME FilingInv, HearRefused
    PROVE  FilingInv'
<1>1. /\ report.at = "refused" /\ report' = NoReport
      /\ UNCHANGED <<thumbs, picked, noName, receipt, shots, issues, presses, heard, unheard>>
  BY DEF HearRefused
<1>2. receipt' \in 0..Len(presses)
  BY <1>1 DEF FilingInv, FilingTyped
<1>3. FiledIsHeard'
  <2>1. report.at # "filed" /\ report'.at # "filed"
    BY <1>1, NoReportIsMade
  <2>2. QED
    BY <1>1, <2>1 DEF FilingInv, FiledIsHeard
<1>4. QED
  BY <1>1, <1>2, <1>3, ReportEnds

LEMMA OpenReportKeeps ==
    ASSUME FilingInv, OpenReport
    PROVE  FilingInv'
<1>1. /\ thumbs' = {} /\ picked' = 0 /\ noName' = FALSE /\ report' = NoReport /\ receipt' = 0
      /\ shots' \in {shots} \cup (IF picked > 0 /\ shots < PhotoBound THEN {shots + 1} ELSE {})
      /\ issues' \in {issues} \cup (IF report.at = "asked" THEN {issues \cup {Filed}} ELSE {})
      /\ unheard' = unheard \cup (Presses(issues') \cap {report.press})
      /\ UNCHANGED <<presses, heard>>
  BY DEF OpenReport, Presses
<1>2. shots' \in 0..PhotoBound /\ shots <= shots' /\ shots' \in Nat
  <2>1. shots' = shots \/ (shots < PhotoBound /\ shots' = shots + 1)
    BY <1>1
  <2>2. QED
    BY <2>1, ThePage
<1>3. report'.at = "none" /\ report' \in ReportRow
  BY <1>1, NoReportIsMade
<1>4. presses \in Seq(SentRow) /\ Len(presses) \in Nat
  BY DEF FilingInv, FilingTyped
<1>5. issues' = issues \/ (report.at = "asked" /\ issues' = issues \cup {Filed})
  BY <1>1
<1>6. report.at \in {"none", "asked", "filed", "refused"}
  BY ReportFields DEF FilingInv, FilingTyped
<1>7. (\A i \in issues' : i.press \in DOMAIN presses) /\ FiledAsShown' /\ FiledIsHeard'
  <2>1. CASE report.at = "asked" /\ issues' = issues \cup {Filed}
    <3>1. report.at # "none" /\ report.at # "filed"
      BY <2>1
    <3>2. /\ \A i \in issues' : i.press \in DOMAIN presses
          /\ FiledAsShown'
          /\ Presses(issues') \subseteq Presses(issues) \cup {report.press}
          /\ Presses(issues) \subseteq Presses(issues')
          /\ report.press \in Presses(issues')
      BY <1>1, <2>1, <3>1, FiledRows
    <3>3. Presses(issues) = heard \cup unheard
      BY <3>1 DEF FilingInv, FiledIsHeard, Presses
    <3>4. Presses(issues') = heard' \cup unheard'
      BY <1>1, <3>2, <3>3
    <3>5. QED
      BY <1>3, <3>2, <3>4 DEF FiledIsHeard, Presses
  <2>2. CASE issues' = issues
    <3>1. (\A i \in issues' : i.press \in DOMAIN presses) /\ FiledAsShown'
      BY <1>1, <2>2 DEF FilingInv, FilingTyped, FiledAsShown
    <3>2. Presses(issues') = Presses(issues)
      BY <2>2 DEF Presses
    <3>3. CASE report.at = "filed"
      <4>1. Presses(issues) = heard \cup unheard \cup {report.press}
        BY <3>3 DEF FilingInv, FiledIsHeard, Presses
      <4>2. Presses(issues') = heard' \cup unheard'
        BY <1>1, <3>2, <4>1
      <4>3. QED
        BY <1>3, <3>1, <4>2 DEF FiledIsHeard, Presses
    <3>4. CASE report.at # "filed"
      <4>1. Presses(issues) = heard \cup unheard
        BY <3>4 DEF FilingInv, FiledIsHeard, Presses
      <4>2. Presses(issues') = heard' \cup unheard'
        BY <1>1, <3>2, <4>1
      <4>3. QED
        BY <1>3, <3>1, <4>2 DEF FiledIsHeard, Presses
    <3>5. QED
      BY <3>3, <3>4
  <2>3. QED
    BY <1>5, <2>1, <2>2
<1>8. ReportIsNew'
  <2>1. report'.at \notin {"asked", "refused"}
    BY <1>3
  <2>2. QED
    BY <2>1 DEF ReportIsNew
<1>9. PhotosFit'
  <2>1. Cardinality(thumbs') = 0
    BY <1>1, FS_EmptySet
  <2>2. Files(thumbs') = 0
    BY <2>1 DEF Files
  <2>3. 0 + picked' <= PhotoLimit
    BY <1>1, ThePage
  <2>4. QED
    BY <2>2, <2>3 DEF PhotosFit
<1>10. FilingTyped'
  <2>1. 1..shots \subseteq 1..shots'
    BY <1>2, ThePage
  <2>2. \A k \in DOMAIN presses' : presses'[k].media \subseteq 1..shots'
    BY <1>1, <2>1 DEF FilingInv, FilingTyped
  <2>3. thumbs' \subseteq 1..shots' /\ noName' \in BOOLEAN
    BY <1>1
  <2>4. picked' \in 0..PhotoLimit /\ receipt' \in 0..Len(presses')
    BY <1>1, <1>4, ThePage
  <2>5. QED
    BY <1>1, <1>2, <1>3, <1>4, <1>7, <2>2, <2>3, <2>4 DEF FilingTyped
<1>11. QED
  BY <1>7, <1>8, <1>9, <1>10 DEF FilingInv

LEMMA FilingInitInv ==
    ASSUME FilingInit
    PROVE  FilingInv
<1>1. /\ thumbs = {} /\ picked = 0 /\ noName = FALSE /\ report = NoReport /\ receipt = 0
      /\ shots = 0 /\ issues = {} /\ presses = <<>> /\ heard = {} /\ unheard = {}
  BY DEF FilingInit
<1>2. report \in ReportRow /\ report.at = "none"
  BY <1>1, NoReportIsMade
<1>3. Len(presses) = 0 /\ presses \in Seq(SentRow) /\ DOMAIN presses = {}
  BY <1>1
<1>4. shots \in 0..PhotoBound /\ picked \in 0..PhotoLimit /\ receipt \in 0..Len(presses)
  BY <1>1, <1>3, FilingAssumption
<1>5. FilingTyped
  BY <1>1, <1>2, <1>3, <1>4 DEF FilingTyped
<1>6. PhotosFit
  <2>1. Files(thumbs) = 0
    BY <1>1, FS_EmptySet DEF Files
  <2>2. 0 + picked <= PhotoLimit
    BY <1>1, FilingAssumption
  <2>3. QED
    BY <2>1, <2>2 DEF PhotosFit
<1>7. FiledAsShown
  BY <1>1 DEF FiledAsShown
<1>8. FiledIsHeard
  <2>1. report.at # "filed"
    BY <1>2
  <2>2. QED
    BY <1>1, <2>1 DEF FiledIsHeard
<1>9. ReportIsNew
  BY <1>1 DEF ReportIsNew, Presses
<1>10. QED
  BY <1>5, <1>6, <1>7, <1>8, <1>9 DEF FilingInv

LEMMA FilingNextInv ==
    ASSUME FilingInv, FilingNext
    PROVE  FilingInv'
BY PickFilesKeeps, StrikePhotoKeeps, PhotoStoredKeeps, PhotoFailsKeeps, TurnNameKeeps, SendReportKeeps,
   FileReportKeeps, HearFiledKeeps, HearRefusedKeeps, OpenReportKeeps DEF FilingNext

LEMMA FilingInvImplies ==
    ASSUME FilingInv
    PROVE  FilingTypeOK /\ FilingHolds
<1>1. FilingHolds
  BY DEF FilingInv, FilingHolds
<1>2. report \in ReportRow /\ presses \in Seq(SentRow) /\ receipt \in 0..Len(presses)
  BY DEF FilingInv, FilingTyped
<1>3. report.at \in {"none", "asked", "filed", "refused"}
  BY <1>2, ReportFields
<1>4. Len(presses) \in Nat /\ DOMAIN presses = 1..Len(presses)
  BY <1>2
<1>5. DOMAIN presses \subseteq 0..Len(presses)
  BY <1>4
<1>6. report.press \in 0..Len(presses)
  <2>1. CASE report.at = "none"
    <3>1. report.press = 0
      BY <2>1, NoReportIsMade DEF FilingInv, FilingTyped
    <3>2. QED
      BY <1>4, <3>1
  <2>2. CASE report.at # "none"
    BY <1>5, <2>2, TheReport
  <2>3. QED
    BY <2>1, <2>2
<1>7. heard \cup unheard \subseteq DOMAIN presses
  <2>1. \A i \in issues : i.press \in DOMAIN presses
    BY DEF FilingInv, FilingTyped
  <2>2. heard \cup unheard \subseteq {i.press : i \in issues}
    BY DEF FilingInv, FiledIsHeard
  <2>3. QED
    BY <2>1, <2>2
<1>8. {receipt, report.press} \cup heard \cup unheard \subseteq 0..Len(presses)
  BY <1>2, <1>5, <1>6, <1>7
<1>9. FilingTypeOK
  BY <1>3, <1>8 DEF FilingInv, FilingTyped, FilingTypeOK
<1>10. QED
  BY <1>1, <1>9

\* A report holds the photos its reporter was shown, no more of them than the
\* page takes, and a reference that arrived is on the screen.
THEOREM FilingIsWhole == FilingSpec => []FilingInv
<1>1. FilingInv /\ [FilingNext]_filingVars => FilingInv'
  <2>1. FilingInv /\ UNCHANGED filingVars => FilingInv'
    BY
       DEF filingVars, FilingInv, FilingTyped, PhotosFit, Files, FiledAsShown, FiledIsHeard, ReportIsNew, Presses
  <2>2. QED
    BY <2>1, FilingNextInv
<1>2. QED
  BY <1>1, FilingInitInv, PTL DEF FilingSpec

---------------------------------------------------------------------------
(* Casework: the queue, its desk and the public lists                    *)

Rights == {"verify", "publish", "resolve"}
ShownStatus == {"NONE", "SUBMITTED", "UNDER_REVIEW", "VERIFIED"}
Question == Questions \cup {"nothing"}
CaseRecord == [status : Life!Statuses \cup {"NONE"}, anonymous : BOOLEAN]
BoardPage == [open : BOOLEAN, rows : [Case -> ShownStatus], can : SUBSET Rights, asks : [Case -> Question],
              waits : [Case -> BOOLEAN]]
BoardCall == [case : Case, move : DOMAIN Moves, shown : ShownStatus, at : {"asked", "done", "refused"}]

CaseworkTyped ==
    /\ caseRow \in [Case -> CaseRecord] /\ grants \subseteq Rights /\ board \in BoardPage
    /\ boardCalls \in Seq(BoardCall)
    /\ pressed \in 0..PressedBound /\ changes \in 0..ChangeBound /\ elsewhere \subseteq Case

\* A report that a card showed stays public, and signed as it was.
CardsStand ==
    \A k \in cards : k.case \in Case /\ caseRow[k.case].status \in Life!PublicStatuses /\ k.by = Byline(k.case)

\* A report is to be published from a row that showed it as checked.
PublishingIsShown ==
    /\ PublishedAsShown
    /\ \A i \in DOMAIN boardCalls : boardCalls[i].move = "publish" => boardCalls[i].shown = "VERIFIED"

\* A row is behind its report only while the answer to a move is on its way.
BoardStands ==
    board.open =>
        \A c \in Case \ elsewhere :
            (\A i \in DOMAIN boardCalls : boardCalls[i].at = "done" => boardCalls[i].case # c) =>
                board.rows[c] = Rows[c]

\* What holds of the cards, the moves on their way and the rows of the queue.
CaseworkInv == CaseworkTyped /\ CardsStand /\ PublishingIsShown /\ BoardStands

LEMMA CaseFields ==
    ASSUME NEW r \in CaseRecord
    PROVE  /\ r = [status |-> r.status, anonymous |-> r.anonymous]
           /\ r.status \in Life!Statuses \cup {"NONE"} /\ r.anonymous \in BOOLEAN
BY DEF CaseRecord

LEMMA CaseIsMade ==
    ASSUME NEW s \in Life!Statuses \cup {"NONE"}, NEW a \in BOOLEAN, NEW r, r = [status |-> s, anonymous |-> a]
    PROVE  r \in CaseRecord /\ r.status = s /\ r.anonymous = a
<1>1. r.status = s /\ r.anonymous = a
  OBVIOUS
<1>2. r \in CaseRecord
  BY DEF CaseRecord
<1>3. QED
  BY <1>1, <1>2

LEMMA BoardFields ==
    ASSUME NEW b \in BoardPage
    PROVE  /\ b = [open |-> b.open, rows |-> b.rows, can |-> b.can, asks |-> b.asks, waits |-> b.waits]
           /\ b.open \in BOOLEAN /\ b.rows \in [Case -> ShownStatus] /\ b.can \subseteq Rights
           /\ b.asks \in [Case -> Question] /\ b.waits \in [Case -> BOOLEAN]
BY DEF BoardPage

LEMMA BoardIsMade ==
    ASSUME NEW o \in BOOLEAN, NEW rs \in [Case -> ShownStatus], NEW can \in SUBSET Rights,
           NEW asks \in [Case -> Question], NEW waits \in [Case -> BOOLEAN], NEW b,
           b = [open |-> o, rows |-> rs, can |-> can, asks |-> asks, waits |-> waits]
    PROVE  b \in BoardPage /\ b.open = o /\ b.rows = rs /\ b.can = can /\ b.asks = asks /\ b.waits = waits
<1>1. b.open = o /\ b.rows = rs /\ b.can = can /\ b.asks = asks /\ b.waits = waits
  OBVIOUS
<1>2. b \in BoardPage
  BY DEF BoardPage
<1>3. QED
  BY <1>1, <1>2

LEMMA BoardCallFields ==
    ASSUME NEW k \in BoardCall
    PROVE  /\ k = [case |-> k.case, move |-> k.move, shown |-> k.shown, at |-> k.at]
           /\ k.case \in Case /\ k.move \in DOMAIN Moves /\ k.shown \in ShownStatus
           /\ k.at \in {"asked", "done", "refused"}
BY DEF BoardCall

LEMMA BoardCallIsMade ==
    ASSUME NEW c \in Case, NEW m \in DOMAIN Moves, NEW s \in ShownStatus, NEW at \in {"asked", "done", "refused"},
           NEW k, k = [case |-> c, move |-> m, shown |-> s, at |-> at]
    PROVE  k \in BoardCall /\ k.case = c /\ k.move = m /\ k.shown = s /\ k.at = at
<1>1. k.case = c /\ k.move = m /\ k.shown = s /\ k.at = at
  OBVIOUS
<1>2. k \in BoardCall
  BY DEF BoardCall
<1>3. QED
  BY <1>1, <1>2

\* What the table of transitions has for a report that is public, or becomes it.
LEMMA TableFacts ==
    ASSUME NEW from, NEW to, Life!CanTransition(from, to)
    PROVE  /\ from \in Life!Statuses /\ to \in Life!Statuses
           /\ to = "PUBLISHED" => from = "VERIFIED"
           /\ from \in Life!PublicStatuses => to \in Life!PublicStatuses
<1>1. from \in Life!Statuses /\ to \in Life!Transitions[from]
  BY DEF Life!CanTransition
<1>2. from \in {"SUBMITTED", "UNDER_REVIEW", "VERIFIED", "PUBLISHED", "REJECTED", "RESOLVED"}
  BY <1>1 DEF Life!Statuses
<1>3. CASE from = "SUBMITTED"
  <2>1. to \in {"UNDER_REVIEW", "REJECTED"}
    BY <1>1, <1>3 DEF Life!Transitions
  <2>2. QED
    BY <1>1, <1>3, <2>1 DEF Life!Statuses, Life!PublicStatuses
<1>4. CASE from = "UNDER_REVIEW"
  <2>1. to \in {"VERIFIED", "REJECTED", "SUBMITTED"}
    BY <1>1, <1>4 DEF Life!Transitions
  <2>2. QED
    BY <1>1, <1>4, <2>1 DEF Life!Statuses, Life!PublicStatuses
<1>5. CASE from = "VERIFIED"
  <2>1. to \in {"PUBLISHED", "REJECTED", "UNDER_REVIEW"}
    BY <1>1, <1>5 DEF Life!Transitions
  <2>2. QED
    BY <1>1, <1>5, <2>1 DEF Life!Statuses, Life!PublicStatuses
<1>6. CASE from = "PUBLISHED"
  <2>1. to \in {"RESOLVED"}
    BY <1>1, <1>6 DEF Life!Transitions
  <2>2. QED
    BY <1>1, <1>6, <2>1 DEF Life!Statuses, Life!PublicStatuses
<1>7. CASE from = "REJECTED"
  <2>1. to \in {"UNDER_REVIEW"}
    BY <1>1, <1>7 DEF Life!Transitions
  <2>2. QED
    BY <1>1, <1>7, <2>1 DEF Life!Statuses, Life!PublicStatuses
<1>8. CASE from = "RESOLVED"
  <2>1. to \in {}
    BY <1>1, <1>8 DEF Life!Transitions
  <2>2. QED
    BY <2>1
<1>9. QED
  BY <1>2, <1>3, <1>4, <1>5, <1>6, <1>7, <1>8

LEMMA MoveFacts ==
    /\ DOMAIN Moves = {"claim", "release", "verify", "publish", "reject", "resolve"}
    /\ Moves["publish"] = "PUBLISHED" /\ Needs["publish"] = "publish"
BY DEF Moves, Needs

LEMMA RowsAreShown ==
    ASSUME CaseworkTyped
    PROVE  Rows \in [Case -> ShownStatus]
BY DEF Rows, Queued, ShownStatus

\* One report takes another status.
LEMMA StatusMoves ==
    ASSUME CaseworkInv, NEW c \in Case, NEW to, Life!CanTransition(caseRow[c].status, to),
           caseRow' = [caseRow EXCEPT ![c].status = to], cards' = cards
    PROVE  /\ caseRow' \in [Case -> CaseRecord] /\ CardsStand'
           /\ \A d \in Case : d # c => Rows'[d] = Rows[d]
<1>1. caseRow \in [Case -> CaseRecord]
  BY DEF CaseworkInv, CaseworkTyped
<1>2. PICK r : r = caseRow[c]
  OBVIOUS
<1>3. PICK new : new = [r EXCEPT !.status = to]
  OBVIOUS
<1>4. r \in CaseRecord
  BY <1>1, <1>2
<1>5. r = [status |-> r.status, anonymous |-> r.anonymous] /\ r.anonymous \in BOOLEAN
  BY <1>4, CaseFields
<1>6. new = [status |-> to, anonymous |-> r.anonymous]
  BY <1>3, <1>5
<1>7. to \in Life!Statuses /\ (r.status \in Life!PublicStatuses => to \in Life!PublicStatuses)
  BY <1>2, TableFacts
<1>8. new \in CaseRecord /\ new.status = to /\ new.anonymous = r.anonymous
  BY <1>5, <1>6, <1>7, CaseIsMade
<1>9. caseRow' = [caseRow EXCEPT ![c] = new]
  BY <1>2, <1>3
<1>10. /\ caseRow' \in [Case -> CaseRecord] /\ caseRow'[c] = new
       /\ \A d \in Case : d # c => caseRow'[d] = caseRow[d]
  BY <1>1, <1>8, <1>9
<1>11. CardsStand'
  <2>1. ASSUME NEW k \in cards
        PROVE  k.case \in Case /\ caseRow'[k.case].status \in Life!PublicStatuses /\ k.by = Byline(k.case)'
    <3>1. k.case \in Case /\ caseRow[k.case].status \in Life!PublicStatuses /\ k.by = Byline(k.case)
      BY DEF CaseworkInv, CardsStand
    <3>2. CASE k.case = c
      BY <1>2, <1>7, <1>8, <1>10, <3>1, <3>2 DEF Byline
    <3>3. CASE k.case # c
      BY <1>10, <3>1, <3>3 DEF Byline
    <3>4. QED
      BY <3>2, <3>3
  <2>2. QED
    BY <2>1 DEF CardsStand
<1>12. \A d \in Case : d # c => Rows'[d] = Rows[d]
  BY <1>10 DEF Rows, Queued
<1>13. QED
  BY <1>10, <1>11, <1>12

LEMMA OneChangeIsCounted ==
    ASSUME CaseworkInv, OneChange
    PROVE  changes' \in 0..ChangeBound
BY CaseworkAssumption DEF OneChange, CaseworkInv, CaseworkTyped

\* A report changes elsewhere, and the desk does not know.
LEMMA ElsewhereOnly ==
    ASSUME CaseworkInv, NEW c \in Case, caseRow' \in [Case -> CaseRecord], CardsStand',
           \A d \in Case : d # c => Rows'[d] = Rows[d], elsewhere' = elsewhere \cup {c},
           UNCHANGED <<grants, board, boardCalls, pressed, cards, raised>>, OneChange
    PROVE  CaseworkInv'
<1>1. changes' \in 0..ChangeBound
  BY OneChangeIsCounted
<1>2. CaseworkTyped'
  BY <1>1 DEF CaseworkInv, CaseworkTyped
<1>3. PublishingIsShown'
  BY DEF CaseworkInv, PublishingIsShown, PublishedAsShown
<1>4. BoardStands'
  <2>1. ASSUME board.open, NEW d \in Case \ elsewhere',
               \A i \in DOMAIN boardCalls : boardCalls[i].at = "done" => boardCalls[i].case # d
        PROVE  board.rows[d] = Rows'[d]
    BY <2>1 DEF CaseworkInv, BoardStands
  <2>2. QED
    BY <2>1 DEF BoardStands
<1>5. QED
  BY <1>2, <1>3, <1>4 DEF CaseworkInv

LEMMA FileCaseKeeps ==
    ASSUME CaseworkInv, NEW c \in Case, FileCase(c)
    PROVE  CaseworkInv'
<1>1. PICK a \in BOOLEAN : caseRow' = [caseRow EXCEPT ![c] = [status |-> "SUBMITTED", anonymous |-> a]]
  BY DEF FileCase
<1>2. /\ caseRow[c].status = "NONE" /\ elsewhere' = elsewhere \cup {c}
      /\ UNCHANGED <<grants, board, boardCalls, pressed, cards, raised>> /\ OneChange
  BY DEF FileCase
<1>3. PICK s : s = "SUBMITTED"
  OBVIOUS
<1>4. PICK new : new = [status |-> s, anonymous |-> a]
  OBVIOUS
<1>5. new \in CaseRecord
  BY <1>3, <1>4, CaseIsMade DEF Life!Statuses
<1>6. caseRow \in [Case -> CaseRecord]
  BY DEF CaseworkInv, CaseworkTyped
<1>7. caseRow' \in [Case -> CaseRecord] /\ \A d \in Case : d # c => caseRow'[d] = caseRow[d]
  BY <1>1, <1>3, <1>4, <1>5, <1>6
<1>8. \A k \in cards : k.case \in Case /\ k.case # c
  BY <1>2 DEF CaseworkInv, CardsStand, Life!PublicStatuses
<1>9. CardsStand'
  BY <1>2, <1>7, <1>8 DEF CaseworkInv, CardsStand, Byline
<1>10. \A d \in Case : d # c => Rows'[d] = Rows[d]
  BY <1>7 DEF Rows, Queued
<1>11. QED
  BY <1>2, <1>7, <1>9, <1>10, ElsewhereOnly

LEMMA MoveElsewhereKeeps ==
    ASSUME CaseworkInv, NEW c \in Case, MoveElsewhere(c)
    PROVE  CaseworkInv'
<1>1. PICK to \in Life!Statuses : Life!CanTransition(caseRow[c].status, to)
                                  /\ caseRow' = [caseRow EXCEPT ![c].status = to]
  BY DEF MoveElsewhere
<1>2. /\ elsewhere' = elsewhere \cup {c}
      /\ UNCHANGED <<grants, board, boardCalls, pressed, cards, raised>> /\ OneChange
  BY DEF MoveElsewhere
<1>3. /\ caseRow' \in [Case -> CaseRecord] /\ CardsStand'
      /\ \A d \in Case : d # c => Rows'[d] = Rows[d]
  BY <1>1, <1>2, StatusMoves
<1>4. QED
  BY <1>2, <1>3, ElsewhereOnly

LEMMA SetGrantsKeeps ==
    ASSUME CaseworkInv, NEW g \in SUBSET {"verify", "publish"}, SetGrants(g)
    PROVE  CaseworkInv'
<1>1. grants' = g /\ UNCHANGED <<caseRow, board, boardCalls, pressed, cards, raised, elsewhere>> /\ OneChange
  BY DEF SetGrants
<1>2. grants' \subseteq Rights /\ changes' \in 0..ChangeBound
  BY <1>1, OneChangeIsCounted DEF Rights
<1>3. CaseworkTyped'
  BY <1>1, <1>2 DEF CaseworkInv, CaseworkTyped
<1>4. CardsStand' /\ PublishingIsShown' /\ BoardStands'
  BY <1>1 DEF CaseworkInv, CardsStand, Byline, PublishingIsShown, PublishedAsShown, BoardStands, Rows, Queued
<1>5. QED
  BY <1>3, <1>4 DEF CaseworkInv

LEMMA ShowListKeeps ==
    ASSUME CaseworkInv, ShowList
    PROVE  CaseworkInv'
<1>1. /\ cards' = cards \cup {CardOf(c) : c \in Listed}
      /\ UNCHANGED <<caseRow, grants, board, boardCalls, pressed, raised, elsewhere, changes>>
  BY DEF ShowList
<1>2. ASSUME NEW c \in Listed
      PROVE  /\ CardOf(c).case \in Case /\ caseRow[CardOf(c).case].status \in Life!PublicStatuses
             /\ CardOf(c).by = Byline(CardOf(c).case)
  BY DEF CardOf, Listed
<1>3. \A k \in cards' : k \in cards \/ \E c \in Listed : k = CardOf(c)
  BY <1>1
<1>4. \A k \in cards' : k.case \in Case /\ caseRow[k.case].status \in Life!PublicStatuses /\ k.by = Byline(k.case)
  BY <1>2, <1>3 DEF CaseworkInv, CardsStand
<1>5. CardsStand'
  BY <1>1, <1>4 DEF CardsStand, Byline
<1>6. CaseworkTyped'
  BY <1>1 DEF CaseworkInv, CaseworkTyped
<1>7. PublishingIsShown' /\ BoardStands'
  BY <1>1 DEF CaseworkInv, PublishingIsShown, PublishedAsShown, BoardStands, Rows, Queued
<1>8. QED
  BY <1>5, <1>6, <1>7 DEF CaseworkInv

\* Only the page of the desk changes, and its calls.
LEMMA BoardOnly ==
    ASSUME CaseworkInv, UNCHANGED <<caseRow, grants, cards, raised, changes>>,
           board' \in BoardPage, boardCalls' \in Seq(BoardCall), pressed' \in 0..PressedBound, elsewhere' \subseteq Case,
           \A c \in Case : board'.asks[c] = "publish" => board'.rows[c] = "VERIFIED",
           \A i \in DOMAIN boardCalls' : boardCalls'[i].move = "publish" => boardCalls'[i].shown = "VERIFIED",
           BoardStands'
    PROVE  CaseworkInv'
<1>1. CaseworkTyped'
  BY DEF CaseworkInv, CaseworkTyped
<1>2. CardsStand'
  BY DEF CaseworkInv, CardsStand, Byline
<1>3. PublishingIsShown'
  BY DEF CaseworkInv, PublishingIsShown, PublishedAsShown
<1>4. QED
  BY <1>1, <1>2, <1>3 DEF CaseworkInv

\* What is known of the page.
LEMMA TheBoard ==
    ASSUME CaseworkInv
    PROVE  /\ board \in BoardPage /\ boardCalls \in Seq(BoardCall) /\ grants \subseteq Rights
           /\ board = [open |-> board.open, rows |-> board.rows, can |-> board.can, asks |-> board.asks,
                       waits |-> board.waits]
           /\ board.open \in BOOLEAN /\ board.rows \in [Case -> ShownStatus] /\ board.can \in SUBSET Rights
           /\ board.asks \in [Case -> Question] /\ board.waits \in [Case -> BOOLEAN]
           /\ pressed \in 0..PressedBound /\ elsewhere \subseteq Case
           /\ \A c \in Case : board.asks[c] = "publish" => board.rows[c] = "VERIFIED"
           /\ \A i \in DOMAIN boardCalls : boardCalls[i].move = "publish" => boardCalls[i].shown = "VERIFIED"
<1>1. /\ board \in BoardPage /\ boardCalls \in Seq(BoardCall) /\ grants \subseteq Rights
      /\ pressed \in 0..PressedBound /\ elsewhere \subseteq Case
  BY DEF CaseworkInv, CaseworkTyped
<1>2. /\ \A c \in Case : board.asks[c] = "publish" => board.rows[c] = "VERIFIED"
      /\ \A i \in DOMAIN boardCalls : boardCalls[i].move = "publish" => boardCalls[i].shown = "VERIFIED"
  BY DEF CaseworkInv, PublishingIsShown, PublishedAsShown
<1>3. QED
  BY <1>1, <1>2, BoardFields

\* What a row asks, or that it waits, changes; what the rows show does not.
LEMMA BoardTurns ==
    ASSUME CaseworkInv, UNCHANGED <<caseRow, grants, cards, raised, changes, elsewhere>>,
           NEW asks \in [Case -> Question], NEW waits \in [Case -> BOOLEAN],
           board' = [open |-> board.open, rows |-> board.rows, can |-> board.can, asks |-> asks, waits |-> waits],
           \A c \in Case : asks[c] = "publish" => board.rows[c] = "VERIFIED",
           boardCalls' \in Seq(BoardCall), pressed' \in 0..PressedBound,
           \A i \in DOMAIN boardCalls' : boardCalls'[i].move = "publish" => boardCalls'[i].shown = "VERIFIED",
           \A i \in DOMAIN boardCalls : boardCalls[i].at = "done" =>
               \E j \in DOMAIN boardCalls' : boardCalls'[j].at = "done" /\ boardCalls'[j].case = boardCalls[i].case
    PROVE  CaseworkInv'
<1>1. /\ board' \in BoardPage /\ board'.open = board.open /\ board'.rows = board.rows /\ board'.asks = asks
  <2>1. board.open \in BOOLEAN /\ board.rows \in [Case -> ShownStatus] /\ board.can \in SUBSET Rights
    BY TheBoard
  <2>2. PICK o \in BOOLEAN, rs \in [Case -> ShownStatus], can \in SUBSET Rights :
            o = board.open /\ rs = board.rows /\ can = board.can
    BY <2>1
  <2>3. PICK b : b = board'
    OBVIOUS
  <2>4. b = [open |-> o, rows |-> rs, can |-> can, asks |-> asks, waits |-> waits]
    BY <2>2, <2>3
  <2>5. b \in BoardPage /\ b.open = o /\ b.rows = rs /\ b.asks = asks
    BY <2>4, BoardIsMade
  <2>6. QED
    BY <2>2, <2>3, <2>5
<1>2. Rows' = Rows
  BY DEF Rows, Queued
<1>3. BoardStands'
  <2>1. ASSUME board'.open, NEW d \in Case \ elsewhere',
               \A i \in DOMAIN boardCalls' : boardCalls'[i].at = "done" => boardCalls'[i].case # d
        PROVE  board'.rows[d] = Rows'[d]
    <3>1. \A i \in DOMAIN boardCalls : boardCalls[i].at = "done" => boardCalls[i].case # d
      BY <2>1
    <3>2. QED
      BY <1>1, <1>2, <2>1, <3>1 DEF CaseworkInv, BoardStands
  <2>2. QED
    BY <2>1 DEF BoardStands
<1>4. elsewhere' \subseteq Case
  BY TheBoard
<1>5. \A c \in Case : board'.asks[c] = "publish" => board'.rows[c] = "VERIFIED"
  BY <1>1
<1>6. QED
  BY <1>1, <1>3, <1>4, <1>5, BoardOnly

\* A button has been pressed at the row of a report.
LEMMA CallKeeps ==
    ASSUME CaseworkInv, NEW c \in Case, NEW m \in DOMAIN Moves, Call(c, m),
           m = "publish" => board.rows[c] = "VERIFIED"
    PROVE  CaseworkInv'
<1>1. /\ pressed < PressedBound /\ pressed' = pressed + 1
      /\ UNCHANGED <<caseRow, grants, cards, raised, elsewhere, changes>>
  BY DEF Call
<1>2. pressed' \in 0..PressedBound
  BY <1>1, CaseworkAssumption DEF CaseworkInv, CaseworkTyped
<1>3. PICK at \in {"asked", "done", "refused"} : at = "asked"
  OBVIOUS
<1>4. PICK s : s = board.rows[c]
  OBVIOUS
<1>5. PICK k : k = [case |-> c, move |-> m, shown |-> s, at |-> at]
  OBVIOUS
<1>6. boardCalls' = Append(boardCalls, k)
  BY <1>3, <1>4, <1>5 DEF Call
<1>7. s \in ShownStatus
  BY <1>4, TheBoard
<1>8. k \in BoardCall /\ k.move = m /\ k.shown = s
  BY <1>5, <1>7, BoardCallIsMade
<1>9. boardCalls \in Seq(BoardCall)
  BY TheBoard
<1>10. boardCalls' \in Seq(BoardCall)
  BY <1>6, <1>8, <1>9
<1>11. \A i \in DOMAIN boardCalls : i \in DOMAIN boardCalls' /\ boardCalls'[i] = boardCalls[i]
  BY <1>6, <1>9
<1>12. \A i \in DOMAIN boardCalls' : (i \in DOMAIN boardCalls /\ boardCalls'[i] = boardCalls[i]) \/ boardCalls'[i] = k
  BY <1>6, <1>9
<1>13. \A i \in DOMAIN boardCalls' : boardCalls'[i].move = "publish" => boardCalls'[i].shown = "VERIFIED"
  BY <1>4, <1>8, <1>12, TheBoard
<1>14. PICK w \in BOOLEAN : w = TRUE
  OBVIOUS
<1>15. PICK waits : waits = [board.waits EXCEPT ![c] = w]
  OBVIOUS
<1>16. waits \in [Case -> BOOLEAN]
  BY <1>15, TheBoard
<1>17. board' = [board EXCEPT !.waits = waits]
  BY <1>14, <1>15 DEF Call
<1>18. board' = [open |-> board.open, rows |-> board.rows, can |-> board.can, asks |-> board.asks, waits |-> waits]
  BY <1>17, TheBoard
<1>19. board.asks \in [Case -> Question] /\ \A d \in Case : board.asks[d] = "publish" => board.rows[d] = "VERIFIED"
  BY TheBoard
<1>20. \A i \in DOMAIN boardCalls : boardCalls[i].at = "done" =>
           \E j \in DOMAIN boardCalls' : boardCalls'[j].at = "done" /\ boardCalls'[j].case = boardCalls[i].case
  BY <1>11
<1>21. QED
  BY <1>1, <1>2, <1>10, <1>13, <1>16, <1>18, <1>19, <1>20, BoardTurns

\* Publishing is offered for a checked report alone, and it is asked about first.
LEMMA OfferedFacts ==
    ASSUME NEW s \in ShownStatus, NEW can
    PROVE  "publish" \in Offered(s, can) => s = "VERIFIED"
<1>1. CASE s = "NONE"
  BY <1>1 DEF Offered
<1>2. CASE s = "SUBMITTED"
  BY <1>2 DEF Offered
<1>3. CASE s = "UNDER_REVIEW"
  BY <1>3 DEF Offered
<1>4. QED
  BY <1>1, <1>2, <1>3 DEF ShownStatus

LEMMA PressMoveKeeps ==
    ASSUME CaseworkInv, NEW c \in Case, NEW m \in DOMAIN Moves, PressMove(c, m)
    PROVE  CaseworkInv'
<1>1. Call(c, m) /\ m # "publish"
  BY DEF PressMove, Questions
<1>2. QED
  BY <1>1, CallKeeps

LEMMA AnswerAskedKeeps ==
    ASSUME CaseworkInv, NEW c \in Case, AnswerAsked(c)
    PROVE  CaseworkInv'
<1>1. PICK m : m = board.asks[c]
  OBVIOUS
<1>2. m # "nothing" /\ Call(c, m)
  BY <1>1 DEF AnswerAsked
<1>3. m \in Question /\ (m = "publish" => board.rows[c] = "VERIFIED")
  BY <1>1, TheBoard
<1>4. m \in DOMAIN Moves
  BY <1>2, <1>3, MoveFacts DEF Question, Questions
<1>5. QED
  BY <1>2, <1>3, <1>4, CallKeeps

\* A row asks something else.
LEMMA AsksOnly ==
    ASSUME CaseworkInv, NEW c \in Case, NEW q \in Question, q = "publish" => board.rows[c] = "VERIFIED",
           board' = [board EXCEPT !.asks[c] = q],
           UNCHANGED <<caseRow, grants, boardCalls, pressed, cards, raised, elsewhere, changes>>
    PROVE  CaseworkInv'
<1>1. PICK asks : asks = [board.asks EXCEPT ![c] = q]
  OBVIOUS
<1>2. board' = [board EXCEPT !.asks = asks]
  BY <1>1
<1>3. board' = [open |-> board.open, rows |-> board.rows, can |-> board.can, asks |-> asks, waits |-> board.waits]
  BY <1>2, TheBoard
<1>4. asks \in [Case -> Question] /\ asks[c] = q /\ \A d \in Case : d # c => asks[d] = board.asks[d]
  BY <1>1, TheBoard
<1>5. \A d \in Case : asks[d] = "publish" => board.rows[d] = "VERIFIED"
  BY <1>4, TheBoard
<1>6. board.waits \in [Case -> BOOLEAN] /\ boardCalls' \in Seq(BoardCall) /\ pressed' \in 0..PressedBound
  BY TheBoard
<1>7. \A i \in DOMAIN boardCalls' : boardCalls'[i].move = "publish" => boardCalls'[i].shown = "VERIFIED"
  BY TheBoard
<1>8. QED
  BY <1>3, <1>4, <1>5, <1>6, <1>7, BoardTurns

LEMMA AskFirstKeeps ==
    ASSUME CaseworkInv, NEW c \in Case, NEW m \in DOMAIN Moves, AskFirst(c, m)
    PROVE  CaseworkInv'
<1>1. /\ m \in Offered(board.rows[c], board.can) /\ m \in Questions /\ board' = [board EXCEPT !.asks[c] = m]
      /\ UNCHANGED <<caseRow, grants, boardCalls, pressed, cards, raised, elsewhere, changes>>
  BY DEF AskFirst
<1>2. board.rows[c] \in ShownStatus
  BY TheBoard
<1>3. m \in Question /\ (m = "publish" => board.rows[c] = "VERIFIED")
  BY <1>1, <1>2, OfferedFacts DEF Question
<1>4. QED
  BY <1>1, <1>3, AsksOnly

LEMMA CancelAskedKeeps ==
    ASSUME CaseworkInv, NEW c \in Case, CancelAsked(c)
    PROVE  CaseworkInv'
<1>1. PICK q : q = "nothing"
  OBVIOUS
<1>2. /\ board' = [board EXCEPT !.asks[c] = q]
      /\ UNCHANGED <<caseRow, grants, boardCalls, pressed, cards, raised, elsewhere, changes>>
  BY <1>1 DEF CancelAsked
<1>3. q \in Question /\ q # "publish"
  BY <1>1 DEF Question
<1>4. QED
  BY <1>2, <1>3, AsksOnly

\* Nobody is at the desk.
LEMMA NoDeskFacts ==
    /\ NoDesk \in BoardPage /\ NoDesk.open = FALSE /\ NoDesk.asks \in [Case -> Question] /\ NoDesk.waits \in [Case -> BOOLEAN]
    /\ \A c \in Case : NoDesk.asks[c] # "publish"
<1>1. PICK rs : rs = [c \in Case |-> "NONE"]
  OBVIOUS
<1>2. PICK asks : asks = [c \in Case |-> "nothing"]
  OBVIOUS
<1>3. PICK waits : waits = [c \in Case |-> FALSE]
  OBVIOUS
<1>4. PICK o : o = FALSE
  OBVIOUS
<1>5. PICK can : can = {}
  OBVIOUS
<1>6. rs \in [Case -> ShownStatus] /\ asks \in [Case -> Question] /\ waits \in [Case -> BOOLEAN]
      /\ o \in BOOLEAN /\ can \in SUBSET Rights
  BY <1>1, <1>2, <1>3, <1>4, <1>5 DEF ShownStatus, Question
<1>7. NoDesk = [open |-> o, rows |-> rs, can |-> can, asks |-> asks, waits |-> waits]
  BY <1>1, <1>2, <1>3, <1>4, <1>5 DEF NoDesk
<1>8. NoDesk \in BoardPage /\ NoDesk.open = o /\ NoDesk.asks = asks /\ NoDesk.waits = waits
  BY <1>6, <1>7, BoardIsMade
<1>9. \A c \in Case : asks[c] # "publish"
  BY <1>2
<1>10. QED
  BY <1>4, <1>6, <1>8, <1>9

LEMMA DeskIsLeft ==
    ASSUME CaseworkInv, UNCHANGED <<caseRow, grants, pressed, cards, raised, changes>>, board' = NoDesk,
           boardCalls' = <<>>, elsewhere' \subseteq Case
    PROVE  CaseworkInv'
<1>1. boardCalls' \in Seq(BoardCall) /\ DOMAIN boardCalls' = {}
  OBVIOUS
<1>2. BoardStands'
  BY NoDeskFacts DEF BoardStands
<1>3. pressed' \in 0..PressedBound
  BY TheBoard
<1>4. board' \in BoardPage /\ \A c \in Case : board'.asks[c] # "publish"
  BY NoDeskFacts
<1>5. QED
  BY <1>1, <1>2, <1>3, <1>4, BoardOnly

LEMMA LeaveDeskKeeps ==
    ASSUME CaseworkInv, LeaveDesk
    PROVE  CaseworkInv'
<1>1. /\ board' = NoDesk /\ boardCalls = <<>>
      /\ UNCHANGED <<caseRow, grants, boardCalls, pressed, cards, raised, elsewhere, changes>>
  BY DEF LeaveDesk
<1>2. QED
  BY <1>1, DeskIsLeft, TheBoard

LEMMA DeskLostKeeps ==
    ASSUME CaseworkInv, DeskLost
    PROVE  CaseworkInv'
<1>1. /\ board' = NoDesk /\ boardCalls' = <<>>
      /\ UNCHANGED <<caseRow, grants, pressed, cards, raised, elsewhere, changes>>
  BY DEF DeskLost
<1>2. QED
  BY <1>1, DeskIsLeft, TheBoard

\* The page as it is rendered.
LEMMA RenderedFacts ==
    ASSUME CaseworkInv, NEW asks \in [Case -> Question], NEW waits \in [Case -> BOOLEAN]
    PROVE  /\ Rendered(asks, waits) \in BoardPage /\ Rendered(asks, waits).rows = Rows
           /\ \A c \in Case : \/ Rendered(asks, waits).asks[c] = "nothing"
                              \/ /\ Rendered(asks, waits).asks[c] = asks[c]
                                 /\ board.rows[c] = Rows[c]
           /\ Rendered(asks, waits) = [open |-> Rendered(asks, waits).open, rows |-> Rows, can |-> grants,
                                       asks |-> Rendered(asks, waits).asks, waits |-> Rendered(asks, waits).waits]
           /\ Rendered(asks, waits).waits \in [Case -> BOOLEAN] /\ Rendered(asks, waits).open \in BOOLEAN
<1>1. PICK a2 : a2 = [c \in Case |-> IF board.rows[c] = Rows[c] THEN asks[c] ELSE "nothing"]
  OBVIOUS
<1>2. PICK w2 : w2 = [c \in Case |-> board.rows[c] = Rows[c] /\ waits[c]]
  OBVIOUS
<1>3. PICK o : o = TRUE
  OBVIOUS
<1>4. PICK b : b = Rendered(asks, waits)
  OBVIOUS
<1>5. b = [open |-> o, rows |-> Rows, can |-> grants, asks |-> a2, waits |-> w2]
  BY <1>1, <1>2, <1>3, <1>4 DEF Rendered
<1>6. a2 \in [Case -> Question]
  BY <1>1 DEF Question
<1>7. w2 \in [Case -> BOOLEAN]
  BY <1>2
<1>8. grants \in SUBSET Rights /\ Rows \in [Case -> ShownStatus] /\ o \in BOOLEAN
  BY <1>3, TheBoard, RowsAreShown DEF CaseworkInv
<1>9. b \in BoardPage /\ b.open = o /\ b.rows = Rows /\ b.can = grants /\ b.asks = a2 /\ b.waits = w2
  BY <1>5, <1>6, <1>7, <1>8, BoardIsMade
<1>10. \A c \in Case : a2[c] = "nothing" \/ (a2[c] = asks[c] /\ board.rows[c] = Rows[c])
  BY <1>1
<1>11. QED
  BY <1>4, <1>5, <1>7, <1>8, <1>9, <1>10

LEMMA OpenDeskKeeps ==
    ASSUME CaseworkInv, OpenDesk
    PROVE  CaseworkInv'
<1>1. /\ boardCalls = <<>> /\ elsewhere' = {}
      /\ UNCHANGED <<caseRow, grants, boardCalls, pressed, cards, raised, changes>>
  BY DEF OpenDesk
<1>2. PICK b : b = Rendered(NoDesk.asks, NoDesk.waits)
  OBVIOUS
<1>3. board' = [b EXCEPT !.asks = NoDesk.asks]
  BY <1>2 DEF OpenDesk
<1>4. /\ b = [open |-> b.open, rows |-> Rows, can |-> grants, asks |-> b.asks, waits |-> b.waits]
      /\ b.waits \in [Case -> BOOLEAN] /\ b.open \in BOOLEAN
  BY <1>2, NoDeskFacts, RenderedFacts
<1>5. board' = [open |-> b.open, rows |-> Rows, can |-> grants, asks |-> NoDesk.asks, waits |-> b.waits]
  BY <1>3, <1>4
<1>6. grants \in SUBSET Rights /\ Rows \in [Case -> ShownStatus]
  BY TheBoard, RowsAreShown DEF CaseworkInv
<1>7. board' \in BoardPage /\ board'.rows = Rows /\ board'.asks = NoDesk.asks
  BY <1>4, <1>5, <1>6, NoDeskFacts, BoardIsMade
<1>8. Rows' = Rows
  BY <1>1 DEF Rows, Queued
<1>9. BoardStands'
  BY <1>7, <1>8 DEF BoardStands
<1>10. /\ boardCalls' \in Seq(BoardCall) /\ DOMAIN boardCalls' = {} /\ elsewhere' \subseteq Case
       /\ pressed' \in 0..PressedBound
  BY <1>1, TheBoard
<1>11. \A c \in Case : board'.asks[c] # "publish"
  BY <1>7, NoDeskFacts
<1>12. QED
  BY <1>1, <1>7, <1>9, <1>10, <1>11, BoardOnly

\* The first call of the page.
LEMMA FirstCall ==
    ASSUME CaseworkInv, boardCalls # <<>>
    PROVE  /\ 1 \in DOMAIN boardCalls /\ Head(boardCalls) = boardCalls[1] /\ boardCalls[1] \in BoardCall
           /\ boardCalls[1].case \in Case /\ boardCalls[1].move \in DOMAIN Moves
           /\ boardCalls[1].shown \in ShownStatus
           /\ boardCalls[1].move = "publish" => boardCalls[1].shown = "VERIFIED"
<1>1. boardCalls \in Seq(BoardCall)
  BY TheBoard
<1>2. 1 \in DOMAIN boardCalls /\ Head(boardCalls) = boardCalls[1] /\ boardCalls[1] \in BoardCall
  BY <1>1
<1>3. QED
  BY <1>2, BoardCallFields, TheBoard

LEMMA FirstCallGoesOn ==
    ASSUME CaseworkInv, boardCalls # <<>>, NEW at \in {"asked", "done", "refused"},
           boardCalls' = [boardCalls EXCEPT ![1].at = at]
    PROVE  /\ boardCalls' \in Seq(BoardCall) /\ DOMAIN boardCalls' = DOMAIN boardCalls
           /\ \A i \in DOMAIN boardCalls : i # 1 => boardCalls'[i] = boardCalls[i]
           /\ boardCalls'[1].case = boardCalls[1].case /\ boardCalls'[1].at = at
           /\ \A i \in DOMAIN boardCalls' : boardCalls'[i].move = "publish" => boardCalls'[i].shown = "VERIFIED"
<1>1. PICK k : k = boardCalls[1]
  OBVIOUS
<1>2. PICK new : new = [k EXCEPT !.at = at]
  OBVIOUS
<1>3. boardCalls' = [boardCalls EXCEPT ![1] = new]
  BY <1>1, <1>2
<1>4. /\ k \in BoardCall /\ 1 \in DOMAIN boardCalls
      /\ k.case \in Case /\ k.move \in DOMAIN Moves /\ k.shown \in ShownStatus
  BY <1>1, FirstCall
<1>5. k = [case |-> k.case, move |-> k.move, shown |-> k.shown, at |-> k.at]
  BY <1>4, BoardCallFields
<1>6. new = [case |-> k.case, move |-> k.move, shown |-> k.shown, at |-> at]
  BY <1>2, <1>5
<1>7. new \in BoardCall /\ new.case = k.case /\ new.move = k.move /\ new.shown = k.shown /\ new.at = at
  BY <1>4, <1>6, BoardCallIsMade
<1>8. boardCalls \in Seq(BoardCall)
  BY TheBoard
<1>9. /\ boardCalls' \in Seq(BoardCall) /\ DOMAIN boardCalls' = DOMAIN boardCalls /\ boardCalls'[1] = new
      /\ \A i \in DOMAIN boardCalls : i # 1 => boardCalls'[i] = boardCalls[i]
  BY <1>3, <1>4, <1>7, <1>8
<1>10. ASSUME NEW i \in DOMAIN boardCalls', boardCalls'[i].move = "publish" PROVE boardCalls'[i].shown = "VERIFIED"
  <2>1. CASE i = 1
    BY <1>1, <1>7, <1>9, <1>10, <2>1, FirstCall
  <2>2. CASE i # 1
    BY <1>9, <1>10, <2>2, TheBoard
  <2>3. QED
    BY <2>1, <2>2
<1>11. QED
  BY <1>1, <1>7, <1>9, <1>10

LEMMA DeskServedDone ==
    ASSUME CaseworkInv, boardCalls # <<>>, Head(boardCalls).at = "asked", NEW k, k = Head(boardCalls), Allowed(k),
           caseRow' = [caseRow EXCEPT ![k.case].status = Moves[k.move]],
           raised' = IF k.move = "publish"
                     THEN raised \cup {[shown |-> k.shown, was |-> caseRow[k.case].status, by |-> grants]}
                     ELSE raised,
           boardCalls' = [boardCalls EXCEPT ![1].at = "done"],
           UNCHANGED <<grants, board, pressed, cards, elsewhere, changes>>
    PROVE  CaseworkInv'
<1>1. PICK at \in {"asked", "done", "refused"} : at = "done"
  OBVIOUS
<1>2. boardCalls' = [boardCalls EXCEPT ![1].at = at]
  BY <1>1
<1>3. /\ boardCalls' \in Seq(BoardCall) /\ DOMAIN boardCalls' = DOMAIN boardCalls
      /\ \A i \in DOMAIN boardCalls : i # 1 => boardCalls'[i] = boardCalls[i]
      /\ boardCalls'[1].case = boardCalls[1].case /\ boardCalls'[1].at = at
      /\ \A i \in DOMAIN boardCalls' : boardCalls'[i].move = "publish" => boardCalls'[i].shown = "VERIFIED"
  BY <1>2, FirstCallGoesOn
<1>4. /\ k = boardCalls[1] /\ k.case \in Case /\ k.move \in DOMAIN Moves /\ 1 \in DOMAIN boardCalls
      /\ k.move = "publish" => k.shown = "VERIFIED"
  BY FirstCall
<1>5. PICK to : to = Moves[k.move]
  OBVIOUS
<1>6. Life!CanTransition(caseRow[k.case].status, to) /\ Needs[k.move] \in grants
  BY <1>5 DEF Allowed
<1>7. /\ caseRow' \in [Case -> CaseRecord] /\ CardsStand'
      /\ \A d \in Case : d # k.case => Rows'[d] = Rows[d]
  BY <1>4, <1>5, <1>6, StatusMoves
<1>8. CaseworkTyped'
  BY <1>3, <1>7 DEF CaseworkInv, CaseworkTyped
<1>9. PublishedAsShown'
  <2>1. k.move = "publish" => k.shown = "VERIFIED" /\ caseRow[k.case].status = "VERIFIED" /\ "publish" \in grants
    BY <1>4, <1>5, <1>6, MoveFacts, TableFacts
  <2>2. ASSUME NEW r \in raised' PROVE r.shown = "VERIFIED" /\ r.was = "VERIFIED" /\ "publish" \in r.by
    <3>1. CASE r \in raised
      BY <3>1 DEF CaseworkInv, PublishingIsShown, PublishedAsShown
    <3>2. CASE r \notin raised
      <4>1. k.move = "publish" /\ r = [shown |-> k.shown, was |-> caseRow[k.case].status, by |-> grants]
        BY <3>2
      <4>2. QED
        BY <2>1, <4>1
    <3>3. QED
      BY <3>1, <3>2
  <2>3. QED
    BY <2>2, TheBoard DEF PublishedAsShown
<1>10. PublishingIsShown'
  BY <1>3, <1>9 DEF PublishingIsShown
<1>11. BoardStands'
  <2>1. ASSUME board.open, NEW d \in Case \ elsewhere,
               \A i \in DOMAIN boardCalls' : boardCalls'[i].at = "done" => boardCalls'[i].case # d
        PROVE  board.rows[d] = Rows'[d]
    <3>1. d # k.case
      BY <1>1, <1>3, <1>4, <2>1
    <3>2. boardCalls[1].at # "done"
      BY <1>4
    <3>3. \A i \in DOMAIN boardCalls : boardCalls[i].at = "done" => boardCalls[i].case # d
      BY <1>3, <2>1, <3>2
    <3>4. QED
      BY <1>7, <2>1, <3>1, <3>3 DEF CaseworkInv, BoardStands
  <2>2. QED
    BY <2>1 DEF BoardStands
<1>12. QED
  BY <1>7, <1>8, <1>10, <1>11 DEF CaseworkInv

LEMMA DeskServedKeeps ==
    ASSUME CaseworkInv, DeskServed
    PROVE  CaseworkInv'
<1>1. boardCalls # <<>> /\ Head(boardCalls).at = "asked" /\ UNCHANGED <<grants, board, pressed, cards, elsewhere, changes>>
  BY DEF DeskServed
<1>2. PICK k : k = Head(boardCalls)
  OBVIOUS
<1>3. CASE /\ Allowed(k)
           /\ caseRow' = [caseRow EXCEPT ![k.case].status = Moves[k.move]]
           /\ raised' = IF k.move = "publish"
                        THEN raised \cup {[shown |-> k.shown, was |-> caseRow[k.case].status, by |-> grants]}
                        ELSE raised
           /\ boardCalls' = [boardCalls EXCEPT ![1].at = "done"]
  BY <1>1, <1>2, <1>3, DeskServedDone
<1>4. CASE boardCalls' = [boardCalls EXCEPT ![1].at = "refused"] /\ UNCHANGED <<caseRow, raised>>
  <2>1. PICK at \in {"asked", "done", "refused"} : at = "refused"
    OBVIOUS
  <2>2. boardCalls' = [boardCalls EXCEPT ![1].at = at]
    BY <1>4, <2>1
  <2>3. /\ boardCalls' \in Seq(BoardCall) /\ DOMAIN boardCalls' = DOMAIN boardCalls
        /\ \A i \in DOMAIN boardCalls : i # 1 => boardCalls'[i] = boardCalls[i]
        /\ \A i \in DOMAIN boardCalls' : boardCalls'[i].move = "publish" => boardCalls'[i].shown = "VERIFIED"
    BY <1>1, <2>2, FirstCallGoesOn
  <2>4. boardCalls[1].at # "done"
    BY <1>1, FirstCall
  <2>5. \A i \in DOMAIN boardCalls : boardCalls[i].at = "done" =>
            \E j \in DOMAIN boardCalls' : boardCalls'[j].at = "done" /\ boardCalls'[j].case = boardCalls[i].case
    BY <2>3, <2>4
  <2>6. /\ board.asks \in [Case -> Question] /\ board.waits \in [Case -> BOOLEAN] /\ pressed' \in 0..PressedBound
        /\ board' = [open |-> board.open, rows |-> board.rows, can |-> board.can, asks |-> board.asks,
                     waits |-> board.waits]
        /\ \A c \in Case : board.asks[c] = "publish" => board.rows[c] = "VERIFIED"
    BY <1>1, TheBoard
  <2>7. QED
    BY <1>1, <1>4, <2>3, <2>5, <2>6, BoardTurns
<1>5. QED
  BY <1>2, <1>3, <1>4 DEF DeskServed

LEMMA CallsAfterTheFirst ==
    ASSUME CaseworkInv, boardCalls # <<>>, boardCalls' = Tail(boardCalls)
    PROVE  /\ boardCalls' \in Seq(BoardCall)
           /\ \A i \in DOMAIN boardCalls' : boardCalls'[i].move = "publish" => boardCalls'[i].shown = "VERIFIED"
           /\ \A i \in DOMAIN boardCalls : i # 1 => \E j \in DOMAIN boardCalls' : boardCalls'[j] = boardCalls[i]
<1>1. boardCalls \in Seq(BoardCall)
  BY TheBoard
<1>2. Len(boardCalls) \in Nat /\ DOMAIN boardCalls = 1..Len(boardCalls) /\ Len(boardCalls) # 0
  BY <1>1
<1>3. /\ boardCalls' \in Seq(BoardCall) /\ DOMAIN boardCalls' = 1..(Len(boardCalls) - 1)
      /\ \A i \in 1..(Len(boardCalls) - 1) : boardCalls'[i] = boardCalls[i + 1]
  BY <1>1, <1>2
<1>4. \A i \in 1..(Len(boardCalls) - 1) : i + 1 \in DOMAIN boardCalls
  BY <1>2
<1>5. ASSUME NEW i \in DOMAIN boardCalls', boardCalls'[i].move = "publish" PROVE boardCalls'[i].shown = "VERIFIED"
  <2>1. PICK j \in DOMAIN boardCalls : boardCalls'[i] = boardCalls[j]
    BY <1>3, <1>4
  <2>2. QED
    BY <1>5, <2>1, TheBoard
<1>6. ASSUME NEW i \in DOMAIN boardCalls, i # 1 PROVE \E j \in DOMAIN boardCalls' : boardCalls'[j] = boardCalls[i]
  <2>1. PICK j : j = i - 1
    OBVIOUS
  <2>2. j \in 1..(Len(boardCalls) - 1) /\ j + 1 = i
    BY <1>2, <1>6, <2>1
  <2>3. boardCalls'[j] = boardCalls[i]
    BY <1>3, <2>2
  <2>4. QED
    BY <1>3, <2>2, <2>3
<1>7. QED
  BY <1>3, <1>5, <1>6

LEMMA HearNoKeeps ==
    ASSUME CaseworkInv, HearNo
    PROVE  CaseworkInv'
<1>1. /\ boardCalls # <<>> /\ Head(boardCalls).at = "refused" /\ boardCalls' = Tail(boardCalls)
      /\ UNCHANGED <<caseRow, grants, pressed, cards, raised, elsewhere, changes>>
  BY DEF HearNo
<1>2. PICK c : c = Head(boardCalls).case
  OBVIOUS
<1>3. PICK w \in BOOLEAN : w = FALSE
  OBVIOUS
<1>4. PICK waits : waits = [board.waits EXCEPT ![c] = w]
  OBVIOUS
<1>5. board' = [board EXCEPT !.waits = waits]
  BY <1>2, <1>3, <1>4 DEF HearNo
<1>6. c \in Case
  BY <1>1, <1>2, FirstCall
<1>7. waits \in [Case -> BOOLEAN]
  BY <1>4, <1>6, TheBoard
<1>8. board' = [open |-> board.open, rows |-> board.rows, can |-> board.can, asks |-> board.asks, waits |-> waits]
  BY <1>5, TheBoard
<1>9. /\ boardCalls' \in Seq(BoardCall)
      /\ \A i \in DOMAIN boardCalls' : boardCalls'[i].move = "publish" => boardCalls'[i].shown = "VERIFIED"
      /\ \A i \in DOMAIN boardCalls : i # 1 => \E j \in DOMAIN boardCalls' : boardCalls'[j] = boardCalls[i]
  BY <1>1, CallsAfterTheFirst
<1>10. boardCalls[1].at # "done"
  BY <1>1, FirstCall
<1>11. \A i \in DOMAIN boardCalls : boardCalls[i].at = "done" =>
           \E j \in DOMAIN boardCalls' : boardCalls'[j].at = "done" /\ boardCalls'[j].case = boardCalls[i].case
  BY <1>9, <1>10
<1>12. /\ board.asks \in [Case -> Question] /\ pressed' \in 0..PressedBound
       /\ \A d \in Case : board.asks[d] = "publish" => board.rows[d] = "VERIFIED"
  BY <1>1, TheBoard
<1>13. QED
  BY <1>1, <1>7, <1>8, <1>9, <1>11, <1>12, BoardTurns

LEMMA HearDoneKeeps ==
    ASSUME CaseworkInv, HearDone
    PROVE  CaseworkInv'
<1>1. /\ boardCalls # <<>> /\ elsewhere' = {}
      /\ boardCalls' = (IF "verify" \in grants THEN Tail(boardCalls) ELSE <<>>)
      /\ UNCHANGED <<caseRow, grants, pressed, cards, raised, changes>>
  BY DEF HearDone
<1>2. CASE "verify" \notin grants
  <2>1. board' = NoDesk /\ boardCalls' = <<>> /\ elsewhere' \subseteq Case
    BY <1>1, <1>2 DEF HearDone
  <2>2. QED
    BY <1>1, <2>1, DeskIsLeft
<1>3. CASE "verify" \in grants
  <2>1. PICK c : c = Head(boardCalls).case
    OBVIOUS
  <2>2. PICK q : q = "nothing"
    OBVIOUS
  <2>3. PICK w \in BOOLEAN : w = FALSE
    OBVIOUS
  <2>4. PICK asks : asks = [board.asks EXCEPT ![c] = q]
    OBVIOUS
  <2>5. PICK waits : waits = [board.waits EXCEPT ![c] = w]
    OBVIOUS
  <2>6. board' = Rendered(asks, waits)
    BY <1>3, <2>1, <2>2, <2>3, <2>4, <2>5 DEF HearDone
  <2>7. c \in Case /\ q \in Question /\ q # "publish"
    BY <1>1, <2>1, <2>2, FirstCall DEF Question
  <2>8. /\ asks \in [Case -> Question] /\ waits \in [Case -> BOOLEAN] /\ asks[c] = q
        /\ \A d \in Case : d # c => asks[d] = board.asks[d]
    BY <2>4, <2>5, <2>7, TheBoard
  <2>9. /\ board' \in BoardPage /\ board'.rows = Rows
        /\ \A d \in Case : board'.asks[d] = "nothing" \/ (board'.asks[d] = asks[d] /\ board.rows[d] = Rows[d])
    BY <2>6, <2>8, RenderedFacts
  <2>10. \A d \in Case : board'.asks[d] = "publish" => board'.rows[d] = "VERIFIED"
    <3>1. ASSUME NEW d \in Case, board'.asks[d] = "publish" PROVE board'.rows[d] = "VERIFIED"
      <4>1. board.asks[d] = "publish" /\ board.rows[d] = Rows[d]
        BY <2>7, <2>8, <2>9, <3>1
      <4>2. QED
        BY <2>9, <4>1, TheBoard
    <3>2. QED
      BY <3>1
  <2>11. Rows' = Rows
    BY <1>1 DEF Rows, Queued
  <2>12. BoardStands'
    BY <2>9, <2>11 DEF BoardStands
  <2>13. /\ boardCalls' \in Seq(BoardCall) /\ pressed' \in 0..PressedBound /\ elsewhere' \subseteq Case
         /\ \A i \in DOMAIN boardCalls' : boardCalls'[i].move = "publish" => boardCalls'[i].shown = "VERIFIED"
    BY <1>1, <1>3, CallsAfterTheFirst, TheBoard
  <2>14. QED
    BY <1>1, <2>9, <2>10, <2>12, <2>13, BoardOnly
<1>4. QED
  BY <1>2, <1>3

LEMMA CaseworkInitInv ==
    ASSUME CaseworkInit
    PROVE  CaseworkInv
<1>1. /\ caseRow \in [Case -> {[status |-> "NONE", anonymous |-> FALSE]} \cup
                            [status : {"VERIFIED"}, anonymous : BOOLEAN]]
      /\ grants = {"verify", "publish", "resolve"} /\ board = NoDesk /\ boardCalls = <<>> /\ pressed = 0
      /\ changes = 0 /\ cards = {} /\ raised = {} /\ elsewhere = {}
  BY DEF CaseworkInit
<1>2. ASSUME NEW r \in {[status |-> "NONE", anonymous |-> FALSE]} \cup [status : {"VERIFIED"}, anonymous : BOOLEAN]
      PROVE  r \in CaseRecord
  <2>1. PICK s \in Life!Statuses \cup {"NONE"}, a \in BOOLEAN : r = [status |-> s, anonymous |-> a]
    <3>1. CASE r = [status |-> "NONE", anonymous |-> FALSE]
      BY <3>1
    <3>2. CASE r \in [status : {"VERIFIED"}, anonymous : BOOLEAN]
      <4>1. r = [status |-> r.status, anonymous |-> r.anonymous] /\ r.status = "VERIFIED" /\ r.anonymous \in BOOLEAN
        BY <3>2
      <4>2. "VERIFIED" \in Life!Statuses
        BY DEF Life!Statuses
      <4>3. QED
        BY <4>1, <4>2
    <3>3. QED
      BY <1>2, <3>1, <3>2
  <2>2. QED
    BY <2>1, CaseIsMade
<1>3. caseRow \in [Case -> CaseRecord]
  BY <1>1, <1>2
<1>4. boardCalls \in Seq(BoardCall) /\ DOMAIN boardCalls = {}
  BY <1>1
<1>5. pressed \in 0..PressedBound /\ changes \in 0..ChangeBound
  BY <1>1, CaseworkAssumption
<1>6. CaseworkTyped
  BY <1>1, <1>3, <1>4, <1>5, NoDeskFacts DEF CaseworkTyped, Rights
<1>7. CardsStand
  BY <1>1 DEF CardsStand
<1>8. PublishingIsShown
  BY <1>1, <1>4, NoDeskFacts DEF PublishingIsShown, PublishedAsShown
<1>9. BoardStands
  BY <1>1, NoDeskFacts DEF BoardStands
<1>10. QED
  BY <1>6, <1>7, <1>8, <1>9 DEF CaseworkInv

LEMMA CaseworkNextInv ==
    ASSUME CaseworkInv, CaseworkNext
    PROVE  CaseworkInv'
BY FileCaseKeeps, MoveElsewhereKeeps, CancelAskedKeeps, AnswerAskedKeeps, PressMoveKeeps, AskFirstKeeps,
   SetGrantsKeeps, ShowListKeeps, OpenDeskKeeps, LeaveDeskKeeps, DeskServedKeeps, HearDoneKeeps, HearNoKeeps,
   DeskLostKeeps DEF CaseworkNext

LEMMA CaseworkInvImplies ==
    ASSUME CaseworkInv
    PROVE  CaseworkTypeOK /\ CaseworkHolds
<1>1. CaseworkTypeOK
  <2>1. \A c \in Case : caseRow[c].status \in Life!Statuses \cup {"NONE"} /\ caseRow[c].anonymous \in BOOLEAN
    BY CaseFields DEF CaseworkInv, CaseworkTyped
  <2>2. \A c \in Case : /\ board.rows[c] \in {"NONE", "SUBMITTED", "UNDER_REVIEW", "VERIFIED"}
                        /\ board.asks[c] \in Questions \cup {"nothing"}
    BY TheBoard DEF ShownStatus, Question
  <2>3. \A i \in DOMAIN boardCalls : boardCalls[i].at \in {"asked", "done", "refused"}
    <3>1. \A i \in DOMAIN boardCalls : boardCalls[i] \in BoardCall
      BY TheBoard
    <3>2. QED
      BY <3>1, BoardCallFields
  <2>4. QED
    BY <2>1, <2>2, <2>3 DEF CaseworkInv, CaseworkTyped, CaseworkTypeOK
<1>2. CardsLeadToReports
  <2>1. ASSUME NEW k \in cards PROVE ReportPage("stranger", k.case) = [opens |-> TRUE, by |-> k.by, described |-> TRUE]
    <3>1. caseRow[k.case].status \in Life!PublicStatuses /\ k.by = Byline(k.case)
      BY DEF CaseworkInv, CardsStand
    <3>2. Opens("stranger", k.case) = TRUE
      BY <3>1 DEF Opens
    <3>3. QED
      BY <3>1, <3>2 DEF ReportPage
  <2>2. QED
    BY <2>1 DEF CardsLeadToReports
<1>3. PublishedAsShown
  BY DEF CaseworkInv, PublishingIsShown
<1>4. DeskIsCurrent
  BY DEF CaseworkInv, BoardStands, DeskIsCurrent
<1>5. QED
  BY <1>1, <1>2, <1>3, <1>4 DEF CaseworkHolds

\* A card shows a report that is public, signed as its reporter asked, and is
\* published from a row that showed it as checked.
THEOREM CaseworkIsTrue == CaseworkSpec => []CaseworkInv
<1>1. CaseworkInv /\ [CaseworkNext]_caseVars => CaseworkInv'
  <2>1. CaseworkInv /\ UNCHANGED caseVars => CaseworkInv'
    BY DEF caseVars, CaseworkInv, CaseworkTyped, CardsStand, Byline, PublishingIsShown, PublishedAsShown,
           BoardStands, Rows, Queued
  <2>2. QED
    BY <2>1, CaseworkNextInv
<1>2. QED
  BY <1>1, CaseworkInitInv, PTL DEF CaseworkSpec

---------------------------------------------------------------------------
(* The whole                                                             *)

\* A behaviour that exercises one part is a behaviour of that part, and the
\* others stand still.
LEMMA NewsroomPartsBehave ==
    NewsroomSpec => /\ ArticlesSpec /\ SourcesSpec /\ EditorSpec /\ UploadsSpec /\ SurfacesSpec
                    /\ TranslationsSpec /\ FormsSpec /\ CreditsSpec /\ FilingSpec /\ CaseworkSpec
<1>1. NewsroomInit => /\ ArticlesInit /\ SourcesInit /\ EditorInit /\ UploadsInit /\ SurfacesInit
                      /\ TranslationsInit /\ FormsInit /\ CreditsInit /\ FilingInit /\ CaseworkInit
  BY DEF NewsroomInit
<1>2. [NewsroomNext]_newsroomVars => [ArticlesNext]_articleVars
  BY DEF NewsroomNext, newsroomVars, OnlyAt
<1>3. [NewsroomNext]_newsroomVars => [SourcesNext]_sourceVars
  BY DEF NewsroomNext, newsroomVars, OnlyAt
<1>4. [NewsroomNext]_newsroomVars => [EditorNext]_editorVars
  BY DEF NewsroomNext, newsroomVars, OnlyAt
<1>5. [NewsroomNext]_newsroomVars => [UploadsNext]_uploadVars
  BY DEF NewsroomNext, newsroomVars, OnlyAt
<1>6. [NewsroomNext]_newsroomVars => [SurfacesNext]_surfaceVars
  BY DEF NewsroomNext, newsroomVars, OnlyAt
<1>7. [NewsroomNext]_newsroomVars => [TranslationsNext]_taleVars
  BY DEF NewsroomNext, newsroomVars, OnlyAt
<1>8. [NewsroomNext]_newsroomVars => [FormsNext]_formVars
  BY DEF NewsroomNext, newsroomVars, OnlyAt
<1>9. [NewsroomNext]_newsroomVars => [CreditsNext]_creditVars
  BY DEF NewsroomNext, newsroomVars, OnlyAt
<1>10. [NewsroomNext]_newsroomVars => [FilingNext]_filingVars
  BY DEF NewsroomNext, newsroomVars, OnlyAt
<1>11. [NewsroomNext]_newsroomVars => [CaseworkNext]_caseVars
  BY DEF NewsroomNext, newsroomVars, OnlyAt
<1>12. QED
  BY <1>1, <1>2, <1>3, <1>4, <1>5, <1>6, <1>7, <1>8, <1>9, <1>10, <1>11, PTL
     DEF NewsroomSpec, ArticlesSpec, SourcesSpec, EditorSpec, UploadsSpec, SurfacesSpec,
         TranslationsSpec, FormsSpec, CreditsSpec, FilingSpec, CaseworkSpec

\* The inductive invariants of the parts.
NewsroomInv ==
    /\ ArticlesInv /\ SourcesInv /\ EditorInv /\ UploadsInv /\ SurfacesInv
    /\ TranslationsInv /\ FormsInv /\ CreditsInv /\ FilingInv /\ CaseworkInv

\* They hold together on the whole desk.
THEOREM NewsroomIsInOrder == NewsroomSpec => []NewsroomInv
<1> QED
  BY NewsroomPartsBehave, ArticlesAreRight, SourcesAreInOrder, FormKeepsTheStory, UploadsStaySafe,
     SurfacesAreRight, TranslationsAreRight, FormsAnswerTruly, CreditsAreTrue, FilingIsWhole, CaseworkIsTrue, PTL
     DEF NewsroomInv

\* Every part keeps its state where its code can put it: NewsroomTypeOK, for
\* every number of stories, files, desks, rows and texts.
THEOREM NewsroomTypeInvariance == NewsroomSpec => []NewsroomTypeOK
<1>1. NewsroomInit => concern \in NewsroomConcerns
  BY DEF NewsroomInit
<1>2. concern \in NewsroomConcerns /\ [NewsroomNext]_newsroomVars => (concern \in NewsroomConcerns)'
  BY DEF NewsroomNext, newsroomVars, OnlyAt
<1>3. NewsroomInv /\ concern \in NewsroomConcerns => NewsroomTypeOK
  BY ArticlesInvImplies, SourcesInvImplies, EditorInvImplies, UploadsInvImplies, SurfacesInvImplies,
     TranslationsInvImplies, FormsInvImplies, CreditsInvImplies, FilingInvImplies, CaseworkInvImplies
     DEF NewsroomInv, NewsroomTypeOK
<1>4. QED
  BY <1>1, <1>2, <1>3, NewsroomIsInOrder, PTL DEF NewsroomSpec

\* What was taken down stays down, what is up is cleared, credited and
\* announced, sources keep their order, versions name each other and cards
\* lead to reports: StoriesStandAsDecided, for every number of stories, desks,
\* files, writers, languages and reports.
THEOREM NewsroomStoriesStand == NewsroomSpec => []StoriesStandAsDecided
<1>1. NewsroomInv => StoriesStandAsDecided
  BY ArticlesInvImplies, SourcesInvImplies, SurfacesInvImplies, TranslationsInvImplies, CreditsInvImplies,
     CaseworkInvImplies
     DEF NewsroomInv, StoriesStandAsDecided
<1>2. QED
  BY <1>1, NewsroomIsInOrder, PTL

\* A story in its form, files in the media store, reports with their photos
\* and what is written into the forms are kept whole, and once: WorkIsKept,
\* for every number of texts, saves, uploads, photos and presses.
THEOREM NewsroomKeepsWork == NewsroomSpec => []WorkIsKept
<1>1. NewsroomInv => WorkIsKept
  BY EditorInvImplies, UploadsInvImplies, FormsInvImplies, FilingInvImplies DEF NewsroomInv, WorkIsKept
<1>2. QED
  BY <1>1, NewsroomIsInOrder, PTL
=============================================================================
