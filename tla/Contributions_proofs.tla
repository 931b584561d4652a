------------------------ MODULE Contributions_proofs ------------------------
(***************************************************************************)
(* Proofs about Contributions, for any number of accounts, pledges, tiers  *)
(* and requests in flight and whatever may crash: the types, that money    *)
(* which counts arrived, that memberships are whole, and that what was     *)
(* recorded is never rewritten.  With one request at a time: the ledger,   *)
(* and that books in which no process died are complete.                   *)
(***************************************************************************)
EXTENDS Contributions, FiniteSetTheorems, TLAPS

---------------------------------------------------------------------------
(* The inductive invariant                                                 *)

Request == PledgeRequest \cup SettleRequest \cup RetireRequest \cup {Idle}

\* A pledge on its way writes to a row that nobody else writes to; it knows
\* what it costs once it has passed its tier.
PledgesAreSound ==
    \A q \in Req :
        /\ req[q].pc \in {"readTier", "create"} =>
               /\ ~Exists(req[q].con)
               /\ \A p \in Req : req[p].pc \in {"readTier", "create"} /\ req[p].con = req[q].con => p = q
        /\ req[q].pc = "readTier" => req[q].tier \in Tier
        /\ req[q].pc = "create" => req[q].amount \in Amount

\* A settlement that has passed its check relies on nothing that a competing
\* one takes away: the row is there, and a refund's row was confirmed.
SettlementsAreSound ==
    \A q \in Req :
        req[q].pc = "settle" =>
            /\ Exists(req[q].con)
            /\ req[q].to = "REFUNDED" => contribution[req[q].con].confirmed

RequestsAreSound ==
    req \in [Req -> Request] /\ PledgesAreSound /\ SettlementsAreSound

RowsAreSound ==
    CountedMoneyArrived /\ PaidMembershipHasItsTerm /\ TierReferencesResolve

BooksInv == TypeOK /\ RowsAreSound /\ RequestsAreSound

---------------------------------------------------------------------------
(* Requests                                                                *)

\* The step a request is at tells what kind of request it is.
LEMMA KindOfRequest ==
    ASSUME req \in [Req -> Request], NEW q \in Req
    PROVE  /\ req[q].pc \in {"readTier", "create", "auditPledge"} => req[q] \in PledgeRequest
           /\ req[q].pc \in {"settle", "auditSettle"} => req[q] \in SettleRequest
           /\ req[q].pc = "retire" => req[q] \in RetireRequest
BY DEF Request, PledgeRequest, SettleRequest, RetireRequest, Idle

\* A request that ends leaves the others as they were.
LEMMA FinishKeepsRequests ==
    ASSUME RequestsAreSound, NEW q \in Req, Finish(q), UNCHANGED contribution
    PROVE  RequestsAreSound'
<1>1. req' \in [Req -> Request]
  BY DEF RequestsAreSound, Finish, Request
<1>2. \A p \in Req : req'[p] = req[p] \/ req'[p].pc = "idle"
  BY DEF RequestsAreSound, Finish, Idle
<1>3. PledgesAreSound'
  BY <1>2 DEF RequestsAreSound, PledgesAreSound, Exists
<1>4. SettlementsAreSound'
  BY <1>2 DEF RequestsAreSound, SettlementsAreSound, Exists
<1>5. QED
  BY <1>1, <1>3, <1>4 DEF RequestsAreSound

\* Rows that are not written keep what holds of them.
LEMMA RowsStand ==
    ASSUME RowsAreSound, UNCHANGED <<tier, contribution, now>>
    PROVE  RowsAreSound'
BY DEF RowsAreSound, CountedMoneyArrived, PaidMembershipHasItsTerm, TierReferencesResolve,
       TierExists, Exists

\* A row is there or it is blank.
LEMMA BlankOrThere ==
    ASSUME TypeOK, NEW c \in Contribution
    PROVE  /\ Exists(c) => contribution[c] \in ContributionRow
           /\ ~Exists(c) => contribution[c] = NoContribution
BY DEF TypeOK, Exists, ContributionRow, NoContribution, Statuses

\* So with a tier.
LEMMA TierOrNone ==
    ASSUME TypeOK, NEW t \in Tier
    PROVE  /\ TierExists(t) => tier[t] \in TierRow
           /\ tier[t].isActive => TierExists(t)
BY DEF TypeOK, TierExists, TierRow, NoTier

---------------------------------------------------------------------------
(* The steps of a pledge                                                   *)

LEMMA BeginPledgeKeeps ==
    ASSUME ConstantsAssumption, BooksInv,
           NEW q \in Req, NEW c \in Contribution, NEW u \in User \cup {Null},
           NEW kind \in Kinds, NEW t \in Tier \cup {Null},
           NEW amount \in Amount \cup {0}, NEW named \in BOOLEAN,
           BeginPledge(q, c, u, kind, t, amount, named)
    PROVE  BooksInv'
<1> DEFINE r == [pc |-> IF kind = "MEMBERSHIP" THEN "readTier" ELSE "create",
                 con |-> c, user |-> u, kind |-> kind, tier |-> t,
                 amount |-> amount, named |-> named]
<1>1. r \in PledgeRequest
  BY DEF PledgeRequest
<1>2. req' = [req EXCEPT ![q] = r] /\ r.pc \in {"readTier", "create"} /\ r.con = c
  BY DEF BeginPledge
<1>3. /\ r.pc = "readTier" => r.tier \in Tier
      /\ r.pc = "create" => r.amount \in Amount
  BY DEF BeginPledge
<1> HIDE DEF r
<1>4. req' \in [Req -> Request]
  BY <1>1, <1>2 DEF BooksInv, RequestsAreSound, Request
<1>5. UNCHANGED contribution
  BY DEF BeginPledge
<1>6. req'[q] = r /\ \A p \in Req \ {q} : req'[p] = req[p]
  BY <1>2 DEF BooksInv, RequestsAreSound
<1>7. PledgesAreSound'
  BY <1>2, <1>3, <1>5, <1>6 DEF BeginPledge, Fresh, BooksInv, RequestsAreSound, PledgesAreSound, Exists
<1>8. SettlementsAreSound'
  BY <1>2, <1>5, <1>6 DEF BooksInv, RequestsAreSound, SettlementsAreSound, Exists
<1>9. TypeOK'
  BY <1>4, <1>5 DEF BeginPledge, BooksInv, TypeOK, Request
<1>10. RowsAreSound'
  BY RowsStand DEF BooksInv, BeginPledge
<1>11. QED
  BY <1>4, <1>7, <1>8, <1>9, <1>10 DEF BooksInv, RequestsAreSound

LEMMA ReadTierKeeps ==
    ASSUME ConstantsAssumption, BooksInv, NEW q \in Req, ReadTier(q)
    PROVE  BooksInv'
<1> DEFINE t == req[q].tier
<1>1. req \in [Req -> Request] /\ req[q] \in PledgeRequest /\ t \in Tier
  BY KindOfRequest DEF BooksInv, RequestsAreSound, PledgesAreSound, ReadTier
<1>2. UNCHANGED <<tier, contribution, now>>
  BY DEF ReadTier
<1>3. RowsAreSound'
  BY <1>2, RowsStand DEF BooksInv
<1>4. CASE Finish(q)
  <2>1. RequestsAreSound'
    BY <1>2, <1>4, FinishKeepsRequests DEF BooksInv
  <2>2. TypeOK'
    BY <2>1 DEF RequestsAreSound, Request, ReadTier, BooksInv, TypeOK
  <2>3. QED
    BY <1>3, <2>1, <2>2 DEF BooksInv
<1>5. CASE tier[t].isActive /\ req' = [req EXCEPT ![q].pc = "create", ![q].amount = tier[t].price]
  <2>1. tier[t].price \in Amount
    BY <1>1, <1>5, TierOrNone DEF BooksInv, TierRow
  <2> DEFINE r == [req[q] EXCEPT !.pc = "create", !.amount = tier[t].price]
  <2>2. r \in PledgeRequest /\ r.pc = "create" /\ r.amount \in Amount /\ r.con = req[q].con
    BY <1>1, <2>1 DEF PledgeRequest
  <2>3. req' = [req EXCEPT ![q] = r]
    BY <1>5
  <2> HIDE DEF r
  <2>4. req' \in [Req -> Request]
    BY <1>1, <2>2, <2>3 DEF Request
  <2>5. req'[q] = r /\ \A p \in Req \ {q} : req'[p] = req[p]
    BY <1>1, <2>3
  <2>6. PledgesAreSound'
    BY <1>2, <2>2, <2>5 DEF ReadTier, BooksInv, RequestsAreSound, PledgesAreSound, Exists
  <2>7. SettlementsAreSound'
    BY <1>2, <2>2, <2>5 DEF BooksInv, RequestsAreSound, SettlementsAreSound, Exists
  <2>8. TypeOK'
    BY <2>4 DEF ReadTier, BooksInv, TypeOK, Request
  <2>9. QED
    BY <1>3, <2>4, <2>6, <2>7, <2>8 DEF BooksInv, RequestsAreSound
<1>6. QED
  BY <1>4, <1>5 DEF ReadTier

LEMMA CreateContributionKeeps ==
    ASSUME ConstantsAssumption, BooksInv, NEW q \in Req, CreateContribution(q)
    PROVE  BooksInv'
<1> DEFINE r == req[q]
           c == r.con
           row == [NoContribution EXCEPT
                       !.status = "PENDING", !.kind = r.kind, !.user = r.user,
                       !.named = r.named, !.amount = r.amount, !.tier = r.tier]
<1>1. req \in [Req -> Request] /\ r \in PledgeRequest /\ c \in Contribution
  BY KindOfRequest DEF BooksInv, RequestsAreSound, CreateContribution, PledgeRequest
<1>2. r.pc = "create" /\ ~Exists(c) /\ r.amount \in Amount
  BY <1>1 DEF BooksInv, RequestsAreSound, PledgesAreSound, CreateContribution
<1>3. CASE Finish(q) /\ UNCHANGED contribution
  <2>1. RequestsAreSound'
    BY <1>3, FinishKeepsRequests DEF BooksInv
  <2>2. RowsAreSound'
    BY <1>3, RowsStand DEF BooksInv, CreateContribution
  <2>3. TypeOK'
    BY <1>3, <2>1 DEF RequestsAreSound, Request, CreateContribution, BooksInv, TypeOK
  <2>4. QED
    BY <2>1, <2>2, <2>3 DEF BooksInv
<1>4. CASE /\ r.tier # Null => TierExists(r.tier)
           /\ contribution' = [contribution EXCEPT ![c] = row]
           /\ Goto(q, "auditPledge")
  <2>1. /\ row \in ContributionRow /\ row.status = "PENDING" /\ ~row.refunded
        /\ row.end = 0 /\ row.tier = r.tier
    BY <1>1, <1>2 DEF ContributionRow, NoContribution, PledgeRequest, Statuses, Kinds
  <2> HIDE DEF row
  <2>2. /\ contribution' \in [Contribution -> ContributionRow \cup {NoContribution}]
        /\ contribution'[c] = row
        /\ \A d \in Contribution \ {c} : contribution'[d] = contribution[d]
    BY <1>1, <1>4, <2>1 DEF BooksInv, TypeOK
  <2>3. UNCHANGED <<tier, now>>
    BY DEF CreateContribution
  <2>4. CountedMoneyArrived'
    BY <2>1, <2>2 DEF BooksInv, RowsAreSound, CountedMoneyArrived, Settlements
  <2>5. PaidMembershipHasItsTerm'
    BY <2>1, <2>2, <2>3 DEF BooksInv, RowsAreSound, PaidMembershipHasItsTerm
  <2>6. TierReferencesResolve'
    BY <1>4, <2>1, <2>2, <2>3 DEF BooksInv, RowsAreSound, TierReferencesResolve, TierExists
  <2>7. [r EXCEPT !.pc = "auditPledge"] \in PledgeRequest
    BY <1>1 DEF PledgeRequest
  <2>8. req' \in [Req -> Request]
    BY <1>1, <1>4, <2>7 DEF Goto, Request
  <2>9. req'[q].pc = "auditPledge" /\ \A p \in Req \ {q} : req'[p] = req[p]
    BY <1>1, <1>4, <2>7 DEF Goto, PledgeRequest
  <2>10. PledgesAreSound'
    <3>1. SUFFICES ASSUME NEW p \in Req, req'[p].pc \in {"readTier", "create"}
                   PROVE  /\ ~Exists(req[p].con)'
                          /\ \A o \in Req : req'[o].pc \in {"readTier", "create"} /\ req'[o].con = req'[p].con => o = p
                          /\ req'[p].pc = "readTier" => req'[p].tier \in Tier
                          /\ req'[p].pc = "create" => req'[p].amount \in Amount
      BY DEF PledgesAreSound
    <3>2. p # q /\ req'[p] = req[p] /\ req[p].con # c /\ req[p] \in PledgeRequest
      BY <1>1, <1>2, <2>9, <3>1, KindOfRequest DEF BooksInv, RequestsAreSound, PledgesAreSound
    <3>3. ~Exists(req[p].con)'
      BY <2>2, <3>1, <3>2 DEF BooksInv, RequestsAreSound, PledgesAreSound, Exists, PledgeRequest
    <3>4. QED
      BY <2>9, <3>1, <3>2, <3>3 DEF BooksInv, RequestsAreSound, PledgesAreSound
  <2>11. SettlementsAreSound'
    <3>1. SUFFICES ASSUME NEW p \in Req, req'[p].pc = "settle"
                   PROVE  /\ Exists(req[p].con)'
                          /\ req'[p].to = "REFUNDED" => contribution'[req'[p].con].confirmed
      BY DEF SettlementsAreSound
    <3>2. p # q /\ req'[p] = req[p] /\ Exists(req[p].con) /\ req[p] \in SettleRequest
      BY <1>1, <2>9, <3>1, KindOfRequest DEF BooksInv, RequestsAreSound, SettlementsAreSound
    <3>3. req[p].con \in Contribution \ {c}
      BY <1>2, <3>2 DEF SettleRequest
    <3>4. QED
      BY <2>2, <3>1, <3>2, <3>3 DEF BooksInv, RequestsAreSound, SettlementsAreSound, Exists
  <2>12. TypeOK'
    BY <2>2, <2>8 DEF CreateContribution, BooksInv, TypeOK, Request
  <2>13. QED
    BY <2>4, <2>5, <2>6, <2>8, <2>10, <2>11, <2>12 DEF BooksInv, RowsAreSound, RequestsAreSound
<1>5. QED
  BY <1>3, <1>4 DEF CreateContribution

LEMMA AnswerPledgeKeeps ==
    ASSUME ConstantsAssumption, BooksInv, NEW q \in Req, AnswerPledge(q)
    PROVE  BooksInv'
<1>1. req[q] \in PledgeRequest
  BY KindOfRequest DEF BooksInv, RequestsAreSound, AnswerPledge
<1>2. RequestsAreSound'
  BY FinishKeepsRequests DEF BooksInv, AnswerPledge
<1>3. RowsAreSound'
  BY RowsStand DEF BooksInv, AnswerPledge
<1>4. TypeOK'
  BY <1>1, <1>2 DEF RequestsAreSound, Request, AnswerPledge, BooksInv, TypeOK, PledgeRequest
<1>5. QED
  BY <1>2, <1>3, <1>4 DEF BooksInv

---------------------------------------------------------------------------
(* The steps of a settlement                                               *)

\* A membership of the tier as it is, or of twelve months: the tier is there.
LEMMA TermIsMonths ==
    ASSUME BooksInv, NEW c \in Contribution, Exists(c)
    PROVE  TermOf(c) \in Months \cup {DefaultMonths}
<1>1. CASE contribution[c].tier = Null
  BY <1>1 DEF TermOf
<1>2. CASE contribution[c].tier # Null
  <2>1. contribution[c].tier \in Tier /\ TierExists(contribution[c].tier)
    BY <1>2, BlankOrThere DEF BooksInv, RowsAreSound, TierReferencesResolve, ContributionRow
  <2>2. tier[contribution[c].tier] \in TierRow
    BY <2>1, TierOrNone DEF BooksInv
  <2>3. QED
    BY <1>2, <2>2 DEF TermOf, TierRow
<1>3. QED
  BY <1>1, <1>2

LEMMA BeginSettleKeeps ==
    ASSUME ConstantsAssumption, BooksInv,
           NEW q \in Req, NEW u \in User, NEW c \in Contribution, NEW to \in Settlements,
           BeginSettle(q, u, c, to)
    PROVE  BooksInv'
<1> DEFINE r == [pc |-> "settle", con |-> c, user |-> u, to |-> to, months |-> TermOf(c)]
<1>1. Exists(c) /\ (to = "REFUNDED" => contribution[c].confirmed)
  BY DEF BeginSettle, Required, Exists, BooksInv, RowsAreSound, CountedMoneyArrived
<1>2. r \in SettleRequest /\ r.pc = "settle" /\ r.con = c /\ r.to = to
  BY <1>1, TermIsMonths DEF SettleRequest
<1>3. req' = [req EXCEPT ![q] = r] /\ UNCHANGED <<tier, contribution, now>>
  BY DEF BeginSettle
<1> HIDE DEF r
<1>4. req' \in [Req -> Request]
  BY <1>2, <1>3 DEF BooksInv, RequestsAreSound, Request
<1>5. req'[q] = r /\ \A p \in Req \ {q} : req'[p] = req[p]
  BY <1>3 DEF BooksInv, RequestsAreSound
<1>6. PledgesAreSound'
  BY <1>2, <1>3, <1>5 DEF BooksInv, RequestsAreSound, PledgesAreSound, Exists
<1>7. SettlementsAreSound'
  BY <1>1, <1>2, <1>3, <1>5 DEF BooksInv, RequestsAreSound, SettlementsAreSound, Exists
<1>8. TypeOK'
  BY <1>4 DEF BeginSettle, BooksInv, TypeOK, Request, ConstantsAssumption
<1>9. QED
  BY <1>3, <1>4, <1>6, <1>7, <1>8, RowsStand DEF BooksInv, RequestsAreSound

\* What a settlement writes: the outcome and who saw to it, and a term if it
\* is a membership that is confirmed; never the amount, the kind or the donor,
\* nor that it was confirmed once.
LEMMA SettledRow ==
    ASSUME ConstantsAssumption, now \in Nat,
           NEW row \in ContributionRow, NEW to \in Settlements, NEW u \in User,
           NEW months \in Months \cup {DefaultMonths}
    PROVE  LET new == Settled(row, to, u, months) IN
           /\ new \in ContributionRow
           /\ new.status = to /\ new.confirmedBy = u
           /\ new.amount = row.amount /\ new.kind = row.kind
           /\ new.user = row.user /\ new.tier = row.tier
           /\ new.confirmed = (row.confirmed \/ to = "CONFIRMED")
           /\ new.refunded = (row.refunded \/ to = "REFUNDED")
           /\ IF to = "CONFIRMED" /\ row.kind = "MEMBERSHIP"
                THEN new.start = now /\ new.end = now + months
                ELSE new.start = row.start /\ new.end = row.end
<1> DEFINE a == row.confirmed \/ to = "CONFIRMED"
           b == row.refunded \/ to = "REFUNDED"
           s == IF to = "CONFIRMED" /\ row.kind = "MEMBERSHIP" THEN now ELSE row.start
           e == IF to = "CONFIRMED" /\ row.kind = "MEMBERSHIP" THEN now + months ELSE row.end
<1>1. a \in BOOLEAN /\ b \in BOOLEAN
  OBVIOUS
<1>2. months \in Nat
  BY DEF ConstantsAssumption, DefaultMonths
<1>3. s \in Nat /\ e \in Nat
  BY <1>2 DEF ContributionRow
<1>4. Settled(row, to, u, months) =
        [row EXCEPT !.status = to, !.confirmedBy = u, !.confirmed = a, !.refunded = b,
                    !.start = s, !.end = e]
  BY DEF Settled
<1>5. /\ IF to = "CONFIRMED" /\ row.kind = "MEMBERSHIP" THEN s = now /\ e = now + months
                                                      ELSE s = row.start /\ e = row.end
  OBVIOUS
<1> HIDE DEF a, b, s, e
<1>6. LET new == Settled(row, to, u, months) IN
        /\ new \in ContributionRow
        /\ new.status = to /\ new.confirmedBy = u
        /\ new.amount = row.amount /\ new.kind = row.kind
        /\ new.user = row.user /\ new.tier = row.tier
        /\ new.confirmed = a /\ new.refunded = b /\ new.start = s /\ new.end = e
  BY ZenonT(60), <1>1, <1>3, <1>4 DEF ContributionRow, Settlements, Statuses
<1>7. QED
  BY <1>5, <1>6 DEF a, b

LEMMA WriteSettlementKeeps ==
    ASSUME ConstantsAssumption, BooksInv, NEW q \in Req, WriteSettlement(q)
    PROVE  BooksInv'
<1> DEFINE r == req[q]
           c == r.con
           old == contribution[c]
           new == Settled(old, r.to, r.user, r.months)
<1>1. req \in [Req -> Request] /\ r \in SettleRequest /\ r.pc = "settle"
  BY KindOfRequest DEF BooksInv, RequestsAreSound, WriteSettlement
<1>2. /\ c \in Contribution /\ r.to \in Settlements /\ r.user \in User
      /\ r.months \in Months \cup {DefaultMonths}
  BY <1>1 DEF SettleRequest
<1>3. Exists(c) /\ old \in ContributionRow /\ (r.to = "REFUNDED" => old.confirmed)
  BY <1>1, <1>2, BlankOrThere DEF BooksInv, RequestsAreSound, SettlementsAreSound
<1>4. now \in Nat /\ r.months \in Nat /\ r.months > 0
  <2>1. now \in Nat
    BY DEF BooksInv, TypeOK, ConstantsAssumption
  <2>2. r.months \in Nat /\ r.months > 0
    <3>1. \A m \in Months \cup {DefaultMonths} : m \in Nat /\ m > 0
      BY DEF ConstantsAssumption, DefaultMonths
    <3> HIDE DEF r
    <3>2. QED
      BY <1>2, <3>1
  <2>3. QED
    BY <2>1, <2>2
<1>5. /\ new \in ContributionRow /\ new.status = r.to /\ new.confirmedBy = r.user
      /\ new.kind = old.kind /\ new.tier = old.tier
      /\ new.confirmed = (old.confirmed \/ r.to = "CONFIRMED")
      /\ new.refunded = (old.refunded \/ r.to = "REFUNDED")
      /\ IF r.to = "CONFIRMED" /\ old.kind = "MEMBERSHIP"
           THEN new.start = now /\ new.end = now + r.months
           ELSE new.start = old.start /\ new.end = old.end
  BY <1>2, <1>3, <1>4, SettledRow
<1>6. /\ contribution' = [contribution EXCEPT ![c] = new]
      /\ UNCHANGED <<tier, now>> /\ Goto(q, "auditSettle")
  BY DEF WriteSettlement
<1> HIDE DEF new
<1>7. /\ contribution' \in [Contribution -> ContributionRow \cup {NoContribution}]
      /\ contribution'[c] = new
      /\ \A d \in Contribution \ {c} : contribution'[d] = contribution[d]
  BY <1>2, <1>5, <1>6 DEF BooksInv, TypeOK
<1>8. CountedMoneyArrived'
  BY <1>2, <1>3, <1>5, <1>7 DEF BooksInv, RowsAreSound, CountedMoneyArrived, Settlements, Exists, ContributionRow, Statuses
<1>9. PaidMembershipHasItsTerm'
  <2>1. SUFFICES ASSUME NEW d \in Contribution
                 PROVE  LET row == contribution'[d] IN
                        /\ row.end > 0 => /\ row.kind = "MEMBERSHIP" /\ row.confirmed
                                          /\ row.start <= now
                                          /\ row.end - row.start \in Months \cup {DefaultMonths}
                        /\ row.kind = "MEMBERSHIP" /\ row.status = "CONFIRMED" => row.end > 0
    BY <1>6 DEF PaidMembershipHasItsTerm
  <2>2. CASE d # c
    BY <1>7, <2>2 DEF BooksInv, RowsAreSound, PaidMembershipHasItsTerm
  <2>3. CASE d = c /\ r.to = "CONFIRMED" /\ old.kind = "MEMBERSHIP"
    <3>1. /\ new.start = now /\ new.end = now + r.months
          /\ new.kind = "MEMBERSHIP" /\ new.confirmed
      BY <1>5, <2>3
    <3>2. new.end > 0 /\ new.start <= now /\ new.end - new.start = r.months
      BY <1>4, <3>1
    <3>3. QED
      BY <1>2, <1>7, <2>3, <3>1, <3>2
  <2>4. CASE d = c /\ ~(r.to = "CONFIRMED" /\ old.kind = "MEMBERSHIP")
    <3>1. /\ old.end > 0 => /\ old.kind = "MEMBERSHIP" /\ old.confirmed
                            /\ old.start <= now
                            /\ old.end - old.start \in Months \cup {DefaultMonths}
      BY <1>2 DEF BooksInv, RowsAreSound, PaidMembershipHasItsTerm
    <3>2. QED
      BY <1>5, <1>7, <2>4, <3>1
  <2>5. QED
    BY <2>2, <2>3, <2>4
<1>10. TierReferencesResolve'
  BY <1>2, <1>5, <1>6, <1>7 DEF BooksInv, RowsAreSound, TierReferencesResolve, TierExists
<1>11. [r EXCEPT !.pc = "auditSettle"] \in SettleRequest
  BY <1>1 DEF SettleRequest
<1>12. req' \in [Req -> Request]
  BY <1>1, <1>6, <1>11 DEF Goto, Request
<1>13. req'[q].pc = "auditSettle" /\ \A p \in Req \ {q} : req'[p] = req[p]
  BY <1>1, <1>6 DEF Goto, SettleRequest
<1>14. \A d \in Contribution : /\ Exists(d)' <=> Exists(d)
                               /\ contribution[d].confirmed => contribution'[d].confirmed
  <2>1. new.status # "NONE" /\ (old.confirmed => new.confirmed)
    BY <1>2, <1>5 DEF Settlements
  <2>2. QED
    BY <1>2, <1>3, <1>7, <2>1 DEF Exists
<1>15. PledgesAreSound'
  <2>1. \A p \in Req : req[p].pc \in {"readTier", "create"} => req[p].con \in Contribution
    BY <1>1, KindOfRequest DEF PledgeRequest
  <2>2. QED
    BY <1>13, <1>14, <2>1 DEF BooksInv, RequestsAreSound, PledgesAreSound, Exists
<1>16. SettlementsAreSound'
  <2>1. \A p \in Req : req[p].pc = "settle" => req[p].con \in Contribution
    BY <1>1, KindOfRequest DEF SettleRequest
  <2>2. QED
    BY <1>13, <1>14, <2>1 DEF BooksInv, RequestsAreSound, SettlementsAreSound, Exists
<1>17. TypeOK'
  BY <1>2, <1>7, <1>12 DEF WriteSettlement, BooksInv, TypeOK, Request
<1>18. QED
  BY <1>8, <1>9, <1>10, <1>12, <1>15, <1>16, <1>17 DEF BooksInv, RowsAreSound, RequestsAreSound

LEMMA AuditSettlementKeeps ==
    ASSUME ConstantsAssumption, BooksInv, NEW q \in Req, AuditSettlement(q)
    PROVE  BooksInv'
<1>1. req[q] \in SettleRequest
  BY KindOfRequest DEF BooksInv, RequestsAreSound, AuditSettlement
<1>2. RequestsAreSound'
  BY FinishKeepsRequests DEF BooksInv, AuditSettlement
<1>3. RowsAreSound'
  BY RowsStand DEF BooksInv, AuditSettlement
<1>4. TypeOK'
  BY <1>1, <1>2 DEF RequestsAreSound, Request, AuditSettlement, BooksInv, TypeOK, SettleRequest
<1>5. QED
  BY <1>2, <1>3, <1>4 DEF BooksInv

---------------------------------------------------------------------------
(* The steps of the tiers                                                  *)

\* Writing a tier that is there, or was not, leaves every row whole.
LEMMA TierWritten ==
    ASSUME ConstantsAssumption, BooksInv,
           NEW t \in Tier, NEW new \in TierRow,
           tier' = [tier EXCEPT ![t] = new],
           UNCHANGED <<contribution, payable, closed, told, audit, settled, now, req, started>>
    PROVE  BooksInv'
<1>1. new # NoTier
  BY DEF TierRow, NoTier, ConstantsAssumption
<1>2. \A s \in Tier : TierExists(s) => TierExists(s)'
  BY <1>1 DEF BooksInv, TypeOK, TierExists
<1>3. TierReferencesResolve'
  <2>1. \A c \in Contribution : contribution[c].tier # Null => contribution[c].tier \in Tier
    BY BlankOrThere DEF BooksInv, ContributionRow, NoContribution
  <2>2. QED
    BY <1>2, <2>1 DEF BooksInv, RowsAreSound, TierReferencesResolve, TierExists
<1>4. CountedMoneyArrived' /\ PaidMembershipHasItsTerm'
  BY DEF BooksInv, RowsAreSound, CountedMoneyArrived, PaidMembershipHasItsTerm
<1>5. RequestsAreSound'
  BY DEF BooksInv, RequestsAreSound, PledgesAreSound, SettlementsAreSound, Exists
<1>6. TypeOK'
  BY DEF BooksInv, TypeOK
<1>7. QED
  BY <1>3, <1>4, <1>5, <1>6 DEF BooksInv, RowsAreSound

LEMMA CreateTierKeeps ==
    ASSUME ConstantsAssumption, BooksInv,
           NEW t \in Tier, NEW price \in Amount, NEW months \in Months,
           CreateTier(t, price, months)
    PROVE  BooksInv'
<1> DEFINE new == [isActive |-> TRUE, price |-> price, months |-> months]
<1>1. new \in TierRow
  BY DEF TierRow
<1>2. QED
  BY <1>1, TierWritten DEF CreateTier

LEMMA UpdateTierKeeps ==
    ASSUME ConstantsAssumption, BooksInv,
           NEW t \in Tier, NEW price \in Amount, NEW months \in Months,
           NEW isActive \in BOOLEAN, UpdateTier(t, price, months, isActive)
    PROVE  BooksInv'
<1> DEFINE new == [isActive |-> isActive, price |-> price, months |-> months]
<1>1. new \in TierRow
  BY DEF TierRow
<1>2. QED
  BY <1>1, TierWritten DEF UpdateTier

LEMMA BeginRetireKeeps ==
    ASSUME ConstantsAssumption, BooksInv, NEW q \in Req, NEW t \in Tier, BeginRetire(q, t)
    PROVE  BooksInv'
<1> DEFINE sold == Cardinality({c \in Contribution : contribution[c].tier = t})
           r == [pc |-> "retire", tier |-> t, sold |-> sold]
<1>1. sold \in Nat
  BY FS_Subset, FS_CardinalityType, {c \in Contribution : contribution[c].tier = t} \subseteq Contribution
     DEF ConstantsAssumption
<1>2. r \in RetireRequest /\ r.pc = "retire"
  BY <1>1 DEF RetireRequest
<1>3. req' = [req EXCEPT ![q] = r] /\ UNCHANGED <<tier, contribution, now>>
  BY DEF BeginRetire
<1> HIDE DEF r, sold
<1>4. req' \in [Req -> Request]
  BY <1>2, <1>3 DEF BooksInv, RequestsAreSound, Request
<1>5. req'[q] = r /\ \A p \in Req \ {q} : req'[p] = req[p]
  BY <1>3 DEF BooksInv, RequestsAreSound
<1>6. PledgesAreSound' /\ SettlementsAreSound'
  BY <1>2, <1>3, <1>5 DEF BooksInv, RequestsAreSound, PledgesAreSound, SettlementsAreSound, Exists
<1>7. TypeOK'
  BY <1>4 DEF BeginRetire, BooksInv, TypeOK, Request
<1>8. QED
  BY <1>3, <1>4, <1>6, <1>7, RowsStand DEF BooksInv, RequestsAreSound

\* Deleting a tier blanks it in the rows that name it and changes nothing else
\* about them.
LEMMA WriteRetireKeeps ==
    ASSUME ConstantsAssumption, BooksInv, NEW q \in Req, WriteRetire(q)
    PROVE  BooksInv'
<1> DEFINE t == req[q].tier
<1>1. req \in [Req -> Request] /\ req[q] \in RetireRequest /\ t \in Tier
  BY KindOfRequest DEF BooksInv, RequestsAreSound, WriteRetire, RetireRequest
<1>2. Finish(q) /\ UNCHANGED <<payable, closed, told, audit, settled, now, started>>
  BY DEF WriteRetire
<1>3. CASE UNCHANGED contribution /\ tier' = IF TierExists(t) THEN [tier EXCEPT ![t].isActive = FALSE] ELSE tier
  <2>1. RequestsAreSound'
    BY <1>2, <1>3, FinishKeepsRequests DEF BooksInv
  <2>2. /\ tier' \in [Tier -> TierRow \cup {NoTier}]
        /\ \A s \in Tier : TierExists(s) => tier'[s] # NoTier
    <3>1. CASE ~TierExists(t)
      BY <1>3, <3>1 DEF BooksInv, TypeOK, TierExists
    <3>2. CASE TierExists(t)
      <4> DEFINE new == [tier[t] EXCEPT !.isActive = FALSE]
      <4>1. new \in TierRow
        BY <1>1, <3>2, TierOrNone DEF BooksInv, TierRow
      <4>2. new # NoTier
        BY <4>1 DEF TierRow, NoTier, ConstantsAssumption
      <4>3. tier' = [tier EXCEPT ![t] = new]
        BY <1>3, <3>2
      <4> HIDE DEF new
      <4>4. QED
        BY <1>1, <4>1, <4>2, <4>3 DEF BooksInv, TypeOK, TierExists
    <3>3. QED
      BY <3>1, <3>2
  <2>3. TierReferencesResolve'
    <3>1. \A c \in Contribution : contribution[c].tier # Null => contribution[c].tier \in Tier
      BY BlankOrThere DEF BooksInv, ContributionRow, NoContribution
    <3>2. QED
      BY <1>3, <2>2, <3>1 DEF BooksInv, RowsAreSound, TierReferencesResolve, TierExists
  <2>4. CountedMoneyArrived' /\ PaidMembershipHasItsTerm'
    BY <1>2, <1>3 DEF BooksInv, RowsAreSound, CountedMoneyArrived, PaidMembershipHasItsTerm
  <2>5. TypeOK'
    BY <1>2, <1>3, <2>1, <2>2 DEF RequestsAreSound, Request, BooksInv, TypeOK
  <2>6. QED
    BY <2>1, <2>3, <2>4, <2>5 DEF BooksInv, RowsAreSound
<1>4. CASE /\ tier' = [tier EXCEPT ![t] = NoTier]
           /\ contribution' = [c \in Contribution |->
                  IF contribution[c].tier = t THEN [contribution[c] EXCEPT !.tier = Null]
                                              ELSE contribution[c]]
  <2>1. \A c \in Contribution :
            /\ contribution'[c] \in ContributionRow \cup {NoContribution}
            /\ Exists(c)' <=> Exists(c)
            /\ contribution'[c].confirmed = contribution[c].confirmed
            /\ contribution'[c].status = contribution[c].status
            /\ contribution'[c].refunded = contribution[c].refunded
            /\ contribution'[c].confirmedBy = contribution[c].confirmedBy
            /\ contribution'[c].kind = contribution[c].kind
            /\ contribution'[c].start = contribution[c].start
            /\ contribution'[c].end = contribution[c].end
            /\ contribution'[c].tier # Null =>
                   contribution'[c].tier = contribution[c].tier /\ contribution[c].tier # t
    <3>1. SUFFICES ASSUME NEW c \in Contribution
                   PROVE  LET old == contribution[c]
                              new == contribution'[c]
                          IN /\ new \in ContributionRow \cup {NoContribution}
                             /\ new.status = old.status /\ new.confirmed = old.confirmed
                             /\ new.refunded = old.refunded /\ new.confirmedBy = old.confirmedBy
                             /\ new.kind = old.kind /\ new.start = old.start /\ new.end = old.end
                             /\ new.tier # Null => new.tier = old.tier /\ old.tier # t
      BY DEF Exists
    <3>2. CASE contribution[c].tier # t
      BY <1>4, <3>2 DEF BooksInv, TypeOK
    <3>3. CASE contribution[c].tier = t
      <4>1. t # Null
        BY <1>1 DEF ConstantsAssumption
      <4>2. contribution[c] \in ContributionRow
        BY <3>3, <4>1, BlankOrThere DEF BooksInv, NoContribution
      <4>3. contribution'[c] = [contribution[c] EXCEPT !.tier = Null]
        BY <1>4, <3>3
      <4>4. QED
        BY <4>2, <4>3 DEF ContributionRow
    <3>4. QED
      BY <3>2, <3>3
  <2>2. contribution' \in [Contribution -> ContributionRow \cup {NoContribution}]
    BY <1>4, <2>1
  <2>3. tier' \in [Tier -> TierRow \cup {NoTier}] /\ \A s \in Tier \ {t} : tier'[s] = tier[s]
    BY <1>1, <1>4 DEF BooksInv, TypeOK
  <2>4. TierReferencesResolve'
    <3>1. \A c \in Contribution : contribution[c].tier # Null => contribution[c].tier \in Tier
      BY BlankOrThere DEF BooksInv, ContributionRow, NoContribution
    <3>2. QED
      BY <2>1, <2>3, <3>1 DEF BooksInv, RowsAreSound, TierReferencesResolve, TierExists
  <2>5. CountedMoneyArrived'
    BY <2>1 DEF BooksInv, RowsAreSound, CountedMoneyArrived
  <2>6. PaidMembershipHasItsTerm'
    BY <1>2, <2>1 DEF BooksInv, RowsAreSound, PaidMembershipHasItsTerm
  <2>7. req' \in [Req -> Request] /\ \A p \in Req : req'[p] = req[p] \/ req'[p].pc = "idle"
    BY <1>1, <1>2 DEF Finish, Request, Idle
  <2>8. \A p \in Req : req[p].pc \in {"readTier", "create", "settle"} => req[p].con \in Contribution
    BY <1>1, KindOfRequest DEF PledgeRequest, SettleRequest
  <2>9. PledgesAreSound'
    BY <2>1, <2>7, <2>8 DEF BooksInv, RequestsAreSound, PledgesAreSound, Exists
  <2>10. SettlementsAreSound'
    BY <2>1, <2>7, <2>8 DEF BooksInv, RequestsAreSound, SettlementsAreSound, Exists
  <2>11. TypeOK'
    BY <1>2, <2>2, <2>3, <2>7 DEF BooksInv, TypeOK, Request
  <2>12. QED
    BY <2>4, <2>5, <2>6, <2>7, <2>9, <2>10, <2>11 DEF BooksInv, RowsAreSound, RequestsAreSound
<1>5. QED
  BY <1>3, <1>4 DEF WriteRetire

---------------------------------------------------------------------------
(* All steps                                                               *)

LEMMA CrashKeeps ==
    ASSUME BooksInv, NEW q \in Req, Crash(q)
    PROVE  BooksInv'
<1>1. RequestsAreSound'
  BY FinishKeepsRequests DEF BooksInv, Crash
<1>2. QED
  BY <1>1, RowsStand DEF Crash, RequestsAreSound, Request, BooksInv, TypeOK

LEMMA TickKeeps ==
    ASSUME ConstantsAssumption, BooksInv, Tick
    PROVE  BooksInv'
<1>1. now \in Nat /\ now' \in 0..MaxTime /\ now' = now + 1
  BY DEF Tick, BooksInv, TypeOK, ConstantsAssumption
<1>2. PaidMembershipHasItsTerm'
  <2>1. \A c \in Contribution : contribution[c].start \in Nat
    BY BlankOrThere DEF BooksInv, ContributionRow, NoContribution
  <2>2. \A c \in Contribution : contribution[c].start <= now => contribution[c].start <= now'
    BY <1>1, <2>1
  <2>3. QED
    BY <2>2 DEF Tick, BooksInv, RowsAreSound, PaidMembershipHasItsTerm
<1>3. CountedMoneyArrived' /\ TierReferencesResolve'
  BY DEF Tick, BooksInv, RowsAreSound, CountedMoneyArrived, TierReferencesResolve, TierExists
<1>4. RequestsAreSound'
  BY DEF Tick, BooksInv, RequestsAreSound, PledgesAreSound, SettlementsAreSound, Exists
<1>5. TypeOK'
  BY <1>1 DEF Tick, BooksInv, TypeOK
<1>6. QED
  BY <1>2, <1>3, <1>4, <1>5 DEF BooksInv, RowsAreSound

\* Steps that write no row and move no request.
LEMMA OthersKeep ==
    ASSUME ConstantsAssumption, BooksInv, payable' \in BOOLEAN, closed' \subseteq User,
           UNCHANGED <<tier, contribution, told, audit, settled, now, req, started>>
    PROVE  BooksInv'
<1>1. RequestsAreSound'
  BY DEF BooksInv, RequestsAreSound, PledgesAreSound, SettlementsAreSound, Exists
<1>2. QED
  BY <1>1, RowsStand DEF BooksInv, TypeOK

LEMMA InitHolds ==
    ASSUME ConstantsAssumption, Init
    PROVE  BooksInv
<1>1. TypeOK
  <2>1. tier \in [Tier -> TierRow \cup {NoTier}]
    BY DEF Init
  <2>2. contribution \in [Contribution -> ContributionRow \cup {NoContribution}]
    BY DEF Init
  <2>3. payable \in BOOLEAN /\ closed \subseteq User /\ told \subseteq Contribution
    BY DEF Init
  <2>4. now \in 0..MaxTime /\ started \in 0..MaxStarted
    BY DEF Init, ConstantsAssumption
  <2>5. req \in [Req -> Request]
    BY DEF Init, Request
  <2>6. QED
    BY <2>1, <2>2, <2>3, <2>4, <2>5 DEF Init, TypeOK
<1>2. RowsAreSound
  BY DEF Init, RowsAreSound, CountedMoneyArrived, PaidMembershipHasItsTerm,
         TierReferencesResolve, NoContribution, Settlements
<1>3. RequestsAreSound
  BY DEF Init, RequestsAreSound, PledgesAreSound, SettlementsAreSound, Request, Idle
<1>4. QED
  BY <1>1, <1>2, <1>3 DEF BooksInv

LEMMA StepKeeps ==
    ASSUME ConstantsAssumption, BooksInv, [Next]_vars
    PROVE  BooksInv'
<1>1. CASE \E q \in Req, c \in Contribution, u \in User \cup {Null}, kind \in Kinds,
              t \in Tier \cup {Null}, amount \in Amount \cup {0}, named \in BOOLEAN :
                 BeginPledge(q, c, u, kind, t, amount, named)
  BY <1>1, BeginPledgeKeeps
<1>2. CASE \E q \in Req, u \in User, c \in Contribution, to \in Settlements :
                 BeginSettle(q, u, c, to)
  BY <1>2, BeginSettleKeeps
<1>3. CASE \E q \in Req, t \in Tier : BeginRetire(q, t)
  BY <1>3, BeginRetireKeeps
<1>4. CASE \E q \in Req : RequestStep(q)
  <2>1. PICK q \in Req : RequestStep(q)
    BY <1>4
  <2>2. QED
    BY <2>1, ReadTierKeeps, CreateContributionKeeps, AnswerPledgeKeeps,
       WriteSettlementKeeps, AuditSettlementKeeps, WriteRetireKeeps DEF RequestStep
<1>5. CASE \E q \in Req : Crash(q)
  BY <1>5, CrashKeeps
<1>6. CASE \E t \in Tier, price \in Amount, months \in Months : CreateTier(t, price, months)
  BY <1>6, CreateTierKeeps
<1>7. CASE \E t \in Tier, price \in Amount, months \in Months, isActive \in BOOLEAN :
                 UpdateTier(t, price, months, isActive)
  BY <1>7, UpdateTierKeeps
<1>8. CASE \E enabled \in BOOLEAN : SaveSettings(enabled)
  BY <1>8, OthersKeep DEF SaveSettings, BooksInv, TypeOK
<1>9. CASE \E u \in User : CloseAccount(u)
  BY <1>9, OthersKeep DEF CloseAccount, BooksInv, TypeOK
<1>10. CASE Tick
  BY <1>10, TickKeeps
<1>11. CASE UNCHANGED vars
  <2>1. payable' \in BOOLEAN /\ closed' \subseteq User
    BY <1>11 DEF vars, BooksInv, TypeOK
  <2>2. QED
    BY <1>11, <2>1, OthersKeep DEF vars
<1>12. QED
  BY <1>1, <1>2, <1>3, <1>4, <1>5, <1>6, <1>7, <1>8, <1>9, <1>10, <1>11 DEF Next

\* What the books rest on holds in every reachable state.
THEOREM BooksInvariance == ConstantsAssumption => (Spec => []BooksInv)
<1>1. ASSUME ConstantsAssumption PROVE Spec => []BooksInv
  <2>1. Init => BooksInv
    BY <1>1, InitHolds
  <2>2. BooksInv /\ [Next]_vars => BooksInv'
    BY <1>1, StepKeeps
  <2>3. QED
    BY <2>1, <2>2, PTL DEF Spec
<1>2. QED
  BY <1>1

\* The tables, the requests and the calendar keep their types, whatever pledges,
\* settlements, tiers and crashes interleave.
THEOREM TypeInvariance == Spec => []TypeOK
<1>1. BooksInv => TypeOK
  BY DEF BooksInv
<1>2. QED
  BY <1>1, BooksInvariance, ConstantsAssumption, PTL

\* Money counts, or was given back, only after somebody said that it arrived,
\* and the row names who settled it (confirmContribution, refundContribution).
THEOREM MoneyArrived == Spec => []CountedMoneyArrived
<1>1. BooksInv => CountedMoneyArrived
  BY DEF BooksInv, RowsAreSound
<1>2. QED
  BY <1>1, BooksInvariance, ConstantsAssumption, PTL

\* A membership that counts has its term, and no row names a tier that is gone,
\* however pledge, retirement and confirmation overlap.
THEOREM MembershipsStayWhole == Spec => []MembershipsAreWhole
<1>1. BooksInv => MembershipsAreWhole
  BY DEF BooksInv, RowsAreSound, MembershipsAreWhole
<1>2. QED
  BY <1>1, BooksInvariance, ConstantsAssumption, PTL

---------------------------------------------------------------------------
(* What was recorded                                                       *)

\* Nothing about what was pledged is different after a step.
Kept(c) ==
    /\ contribution'[c].amount = contribution[c].amount
    /\ contribution'[c].kind = contribution[c].kind
    /\ contribution'[c].user = contribution[c].user
    /\ contribution'[c].status # "NONE"

\* So what was pledged is in the row as before, whatever was settled.
LEMMA SettledKeepsPledge ==
    ASSUME ConstantsAssumption, now \in Nat,
           NEW row \in ContributionRow, NEW to \in Settlements, NEW u \in User,
           NEW months \in Months \cup {DefaultMonths}
    PROVE  /\ Settled(row, to, u, months).amount = row.amount
           /\ Settled(row, to, u, months).kind = row.kind
           /\ Settled(row, to, u, months).user = row.user
           /\ Settled(row, to, u, months).status # "NONE"
<1>1. to # "NONE"
  BY DEF Settlements
<1> DEFINE new == Settled(row, to, u, months)
<1>2. /\ new.amount = row.amount /\ new.kind = row.kind
      /\ new.user = row.user /\ new.status = to
  BY SettledRow
<1>3. QED
  BY <1>1, <1>2

LEMMA RecordedIsKept ==
    ASSUME ConstantsAssumption, BooksInv, [Next]_vars,
           NEW c \in Contribution, Exists(c)
    PROVE  Kept(c)
<1>1. contribution[c] \in ContributionRow /\ contribution[c].status # "NONE"
  BY BlankOrThere DEF BooksInv, Exists
<1>2. CASE contribution' = contribution
  BY <1>1, <1>2 DEF Kept
<1>3. ASSUME NEW q \in Req, CreateContribution(q), contribution' # contribution
      PROVE  Kept(c)
  <2>1. req \in [Req -> Request] /\ req[q].con \in Contribution /\ ~Exists(req[q].con)
    BY <1>3, KindOfRequest DEF CreateContribution, BooksInv, RequestsAreSound, PledgesAreSound, PledgeRequest
  <2>2. contribution'[c] = contribution[c]
    BY <1>3, <2>1 DEF CreateContribution, BooksInv, TypeOK
  <2>3. QED
    BY <1>1, <2>2 DEF Kept
<1>4. ASSUME NEW q \in Req, WriteSettlement(q)
      PROVE  Kept(c)
  <2>1. req \in [Req -> Request] /\ req[q] \in SettleRequest
    BY <1>4, KindOfRequest DEF WriteSettlement, BooksInv, RequestsAreSound
  <2>2. CASE req[q].con # c
    BY <1>1, <1>4, <2>2 DEF WriteSettlement, BooksInv, TypeOK, Kept
  <2>3. CASE req[q].con = c
    <3>1. /\ req[q].to \in Settlements /\ req[q].user \in User
          /\ req[q].months \in Months \cup {DefaultMonths}
      BY <2>1 DEF SettleRequest
    <3>2. now \in Nat
      BY DEF BooksInv, TypeOK, ConstantsAssumption
    <3>3. contribution'[c] = Settled(contribution[c], req[q].to, req[q].user, req[q].months)
      BY <1>4, <2>3 DEF WriteSettlement, BooksInv, TypeOK
    <3>4. \A row \in ContributionRow, to \in Settlements, u \in User,
             months \in Months \cup {DefaultMonths} :
             /\ Settled(row, to, u, months).amount = row.amount
             /\ Settled(row, to, u, months).kind = row.kind
             /\ Settled(row, to, u, months).user = row.user
             /\ Settled(row, to, u, months).status # "NONE"
      BY <3>2, SettledKeepsPledge
    <3>5. PICK row \in ContributionRow : row = contribution[c]
      BY <1>1
    <3>6. PICK to \in Settlements : to = req[q].to
      BY <3>1
    <3>7. PICK u \in User : u = req[q].user
      BY <3>1
    <3>8. PICK months \in Months \cup {DefaultMonths} : months = req[q].months
      BY <3>1
    <3>9. contribution'[c] = Settled(row, to, u, months)
      BY <3>3, <3>5, <3>6, <3>7, <3>8
    <3>10. /\ contribution'[c].amount = row.amount
           /\ contribution'[c].kind = row.kind
           /\ contribution'[c].user = row.user
           /\ contribution'[c].status # "NONE"
      BY <3>4, <3>9
    <3>11. QED
      BY <3>5, <3>10 DEF Kept
  <2>4. QED
    BY <2>2, <2>3
<1>5. ASSUME NEW q \in Req, WriteRetire(q), contribution' # contribution
      PROVE  Kept(c)
  <2>1. contribution'[c] = [contribution[c] EXCEPT !.tier = Null] \/ contribution'[c] = contribution[c]
    BY <1>5 DEF WriteRetire
  <2>2. QED
    BY <1>1, <2>1 DEF Kept, ContributionRow
<1>6. contribution' = contribution \/ \E q \in Req : CreateContribution(q) \/ WriteSettlement(q) \/ WriteRetire(q)
  BY ZenonT(60) DEF Next, vars, RequestStep, BeginPledge, BeginSettle, BeginRetire, ReadTier, AnswerPledge,
         AuditSettlement, Crash, CreateTier, UpdateTier, SaveSettings, CloseAccount, Tick
<1>7. QED
  BY <1>2, <1>3, <1>4, <1>5, <1>6

\* Editing or retiring a tier, and settling, never rewrite what was pledged:
\* amount, kind and donor of a recorded contribution stay, and it stays recorded.
THEOREM HistoryIsKept == Spec => HistoryIsNotRewritten
<1>1. BooksInv /\ [Next]_vars => [\A c \in Contribution : Exists(c) => Kept(c)]_vars
  BY ConstantsAssumption, RecordedIsKept
<1>2. QED
  BY <1>1, BooksInvariance, ConstantsAssumption, PTL DEF Spec, HistoryIsNotRewritten, Kept
---------------------------------------------------------------------------
(* One request at a time keeps the ledger                                  *)

OneAtATime == \A p, q \in Req : p = q

\* What a request has read is still so when it writes: the status a settlement
\* asks for, and how often a tier was sold.
ReadsStand ==
    \A q \in Req :
        LET r == req[q] IN
        /\ r.pc = "settle" => contribution[r.con].status = Required(r.to)
        /\ r.pc = "retire" =>
               r.sold = Cardinality({c \in Contribution : contribution[c].tier = r.tier})
        /\ r.pc \in {"readTier", "create"} /\ r.kind = "MEMBERSHIP" => r.tier # Null

RefundsStand ==
    \A c \in Contribution : contribution[c].refunded => contribution[c].status = "REFUNDED"

LedgerInv == ReadsStand /\ RefundsStand /\ SoldTierIsKept

\* Steps that write no contribution and begin no request keep it; so do those
\* that only end one or move it on.
LEMMA QuietKeepsLedger ==
    ASSUME LedgerInv, UNCHANGED contribution,
           \A q \in Req : req'[q] = req[q] \/ req'[q].pc \in {"idle", "auditPledge", "auditSettle"}
    PROVE  LedgerInv'
<1>1. ReadsStand'
  BY DEF LedgerInv, ReadsStand
<1>2. RefundsStand' /\ SoldTierIsKept'
  BY DEF LedgerInv, RefundsStand, SoldTierIsKept
<1>3. QED
  BY <1>1, <1>2 DEF LedgerInv

LEMMA BeginningsKeepLedger ==
    ASSUME ConstantsAssumption, BooksInv, LedgerInv, NEW q \in Req,
           \/ \E c \in Contribution, u \in User \cup {Null}, kind \in Kinds, t \in Tier \cup {Null},
                 amount \in Amount \cup {0}, named \in BOOLEAN :
                    BeginPledge(q, c, u, kind, t, amount, named)
           \/ \E u \in User, c \in Contribution, to \in Settlements : BeginSettle(q, u, c, to)
           \/ \E t \in Tier : BeginRetire(q, t)
    PROVE  LedgerInv'
<1>1. req \in [Req -> Request]
  BY DEF BooksInv, RequestsAreSound
<1>2. UNCHANGED contribution /\ \A p \in Req \ {q} : req'[p] = req[p]
  BY ZenonT(60), <1>1 DEF BeginPledge, BeginSettle, BeginRetire
<1>3. RefundsStand' /\ SoldTierIsKept'
  BY <1>2 DEF LedgerInv, RefundsStand, SoldTierIsKept
<1>4. CASE \E c \in Contribution, u \in User \cup {Null}, kind \in Kinds, t \in Tier \cup {Null},
              amount \in Amount \cup {0}, named \in BOOLEAN :
                 BeginPledge(q, c, u, kind, t, amount, named)
  <2>1. PICK c \in Contribution, u \in User \cup {Null}, kind \in Kinds, t \in Tier \cup {Null},
             amount \in Amount \cup {0}, named \in BOOLEAN :
                BeginPledge(q, c, u, kind, t, amount, named)
    BY <1>4
  <2>2. /\ req'[q].pc \in {"readTier", "create"}
        /\ req'[q].kind = "MEMBERSHIP" => req'[q].tier # Null
    BY <1>1, <2>1 DEF BeginPledge
  <2>3. ReadsStand'
    BY <1>2, <2>2 DEF LedgerInv, ReadsStand
  <2>4. QED
    BY <1>3, <2>3 DEF LedgerInv
<1>5. CASE \E u \in User, c \in Contribution, to \in Settlements : BeginSettle(q, u, c, to)
  <2>1. PICK u \in User, c \in Contribution, to \in Settlements : BeginSettle(q, u, c, to)
    BY <1>5
  <2>2. /\ req'[q].pc = "settle" /\ req'[q].con = c /\ req'[q].to = to
        /\ contribution[c].status = Required(to)
    BY <1>1, <2>1 DEF BeginSettle
  <2>3. ReadsStand'
    BY <1>2, <2>2 DEF LedgerInv, ReadsStand
  <2>4. QED
    BY <1>3, <2>3 DEF LedgerInv
<1>6. CASE \E t \in Tier : BeginRetire(q, t)
  <2>1. PICK t \in Tier : BeginRetire(q, t)
    BY <1>6
  <2>2. req'[q].pc = "retire" /\ req'[q].tier = t
    BY <1>1, <2>1 DEF BeginRetire
  <2>3. PICK sold : sold = {c \in Contribution : contribution[c].tier = t}
    OBVIOUS
  <2>4. req'[q].sold = Cardinality(sold)
    BY <1>1, <2>1, <2>3 DEF BeginRetire
  <2>5. sold = {c \in Contribution : contribution'[c].tier = req'[q].tier}
    BY <1>2, <2>2, <2>3
  <2>6. req'[q].sold = Cardinality({c \in Contribution : contribution'[c].tier = req'[q].tier})
    BY <2>4, <2>5
  <2>7. ReadsStand'
    <3>1. ASSUME NEW p \in Req \ {q}
          PROVE  req'[p].pc = "retire" =>
                    req'[p].sold = Cardinality({c \in Contribution : contribution'[c].tier = req'[p].tier})
      BY <1>2 DEF LedgerInv, ReadsStand
    <3>2. ASSUME NEW p \in Req
          PROVE  /\ req'[p].pc = "settle" => contribution'[req'[p].con].status = Required(req'[p].to)
                 /\ req'[p].pc \in {"readTier", "create"} /\ req'[p].kind = "MEMBERSHIP" =>
                        req'[p].tier # Null
      BY <1>2, <2>2 DEF LedgerInv, ReadsStand
    <3>3. QED
      BY <2>6, <3>1, <3>2 DEF ReadsStand
  <2>8. QED
    BY <1>3, <2>7 DEF LedgerInv
<1>7. QED
  BY <1>4, <1>5, <1>6

LEMMA ReadTierKeepsLedger ==
    ASSUME BooksInv, LedgerInv, NEW q \in Req, ReadTier(q)
    PROVE  LedgerInv'
<1>1. req \in [Req -> Request] /\ req[q] \in PledgeRequest /\ UNCHANGED contribution
  BY KindOfRequest DEF BooksInv, RequestsAreSound, ReadTier
<1>2. CASE Finish(q)
  BY <1>1, <1>2, QuietKeepsLedger DEF Finish, Idle
<1>3. CASE req' = [req EXCEPT ![q].pc = "create", ![q].amount = tier[req[q].tier].price]
  <2>1. /\ req'[q].pc = "create" /\ req'[q].kind = req[q].kind /\ req'[q].tier = req[q].tier
        /\ \A p \in Req \ {q} : req'[p] = req[p]
    BY <1>1, <1>3 DEF PledgeRequest
  <2>2. ReadsStand'
    BY <1>1, <2>1 DEF LedgerInv, ReadsStand, ReadTier
  <2>3. RefundsStand' /\ SoldTierIsKept'
    BY <1>1 DEF LedgerInv, RefundsStand, SoldTierIsKept
  <2>4. QED
    BY <2>2, <2>3 DEF LedgerInv
<1>4. QED
  BY <1>2, <1>3 DEF ReadTier

\* The new row is a pledge of the amount the request knows.
LEMMA CreateContributionIsAPledge ==
    ASSUME ConstantsAssumption, BooksInv, NEW q \in Req, CreateContribution(q),
           contribution' # contribution
    PROVE  \E c \in Contribution, a \in Amount :
              /\ req[q].con = c /\ ~Exists(c)
              /\ contribution'[c].status = "PENDING" /\ contribution'[c].amount = a
              /\ contribution'[c].kind = req[q].kind /\ contribution'[c].tier = req[q].tier
              /\ ~contribution'[c].refunded
              /\ \A d \in Contribution \ {c} : contribution'[d] = contribution[d]
              /\ Goto(q, "auditPledge")
<1>1. /\ req[q] \in PledgeRequest /\ req[q].con \in Contribution
      /\ req[q].amount \in Amount /\ ~Exists(req[q].con)
  BY KindOfRequest DEF BooksInv, RequestsAreSound, PledgesAreSound, CreateContribution, PledgeRequest
<1> DEFINE c == req[q].con
           row == [NoContribution EXCEPT
                      !.status = "PENDING", !.kind = req[q].kind, !.user = req[q].user,
                      !.named = req[q].named, !.amount = req[q].amount, !.tier = req[q].tier]
<1>2. contribution' = [contribution EXCEPT ![c] = row] /\ Goto(q, "auditPledge")
  BY DEF CreateContribution
<1>3. /\ row.status = "PENDING" /\ row.amount = req[q].amount
      /\ row.kind = req[q].kind /\ row.tier = req[q].tier /\ ~row.refunded
  BY DEF NoContribution
<1> HIDE DEF row
<1>4. contribution'[c] = row /\ \A d \in Contribution \ {c} : contribution'[d] = contribution[d]
  BY <1>1, <1>2 DEF BooksInv, TypeOK
<1>5. QED
  BY <1>1, <1>2, <1>3, <1>4

\* A settlement writes its outcome over the status it has read.
LEMMA SettlementIsAnOutcome ==
    ASSUME ConstantsAssumption, BooksInv, LedgerInv, NEW q \in Req, WriteSettlement(q)
    PROVE  \E c \in Contribution, to \in Settlements :
              /\ contribution[c].status = Required(to)
              /\ contribution'[c].status = to
              /\ contribution'[c].amount = contribution[c].amount
              /\ contribution'[c].kind = contribution[c].kind
              /\ contribution'[c].tier = contribution[c].tier
              /\ contribution'[c].refunded = (contribution[c].refunded \/ to = "REFUNDED")
              /\ \A d \in Contribution \ {c} : contribution'[d] = contribution[d]
              /\ Goto(q, "auditSettle")
<1>1. req[q] \in SettleRequest /\ Exists(req[q].con) /\ now \in Nat
  BY KindOfRequest DEF WriteSettlement, BooksInv, RequestsAreSound, SettlementsAreSound,
     TypeOK, ConstantsAssumption
<1>2. PICK c \in Contribution, to \in Settlements, u \in User, months \in Months \cup {DefaultMonths} :
             req[q].con = c /\ req[q].to = to /\ req[q].user = u /\ req[q].months = months
  BY <1>1 DEF SettleRequest
<1>3. contribution[c] \in ContributionRow /\ contribution[c].status = Required(to)
  BY <1>1, <1>2, BlankOrThere DEF BooksInv, LedgerInv, ReadsStand, WriteSettlement
<1> DEFINE row == contribution[c]
           new == Settled(row, to, u, months)
<1>4. /\ new.status = to /\ new.amount = row.amount /\ new.kind = row.kind
      /\ new.tier = row.tier /\ new.refunded = (row.refunded \/ to = "REFUNDED")
  BY <1>1, <1>3, SettledRow
<1>5. contribution' = [contribution EXCEPT ![c] = new] /\ Goto(q, "auditSettle")
  BY <1>2 DEF WriteSettlement
<1> HIDE DEF new
<1>6. contribution'[c] = new /\ \A d \in Contribution \ {c} : contribution'[d] = contribution[d]
  BY <1>5 DEF BooksInv, TypeOK
<1>7. QED
  BY <1>3, <1>4, <1>5, <1>6

LEMMA CreateContributionKeepsLedger ==
    ASSUME ConstantsAssumption, OneAtATime, BooksInv, LedgerInv, NEW q \in Req,
           CreateContribution(q)
    PROVE  LedgerInv'
<1>1. req \in [Req -> Request] /\ req[q] \in PledgeRequest
  BY KindOfRequest DEF BooksInv, RequestsAreSound, CreateContribution
<1>2. req'[q].pc \in {"idle", "auditPledge"} /\ \A p \in Req : p = q
  <2>1. Finish(q) \/ Goto(q, "auditPledge")
    BY DEF CreateContribution
  <2>2. QED
    BY <1>1, <2>1 DEF OneAtATime, Finish, Goto, Idle, PledgeRequest
<1>3. CASE contribution' = contribution
  BY <1>2, <1>3, QuietKeepsLedger
<1>4. CASE contribution' # contribution
  <2>1. ReadsStand'
    BY <1>2 DEF ReadsStand
  <2>2. PICK c \in Contribution, a \in Amount :
              /\ contribution'[c].status = "PENDING"
              /\ contribution'[c].kind = req[q].kind /\ contribution'[c].tier = req[q].tier
              /\ ~contribution'[c].refunded
              /\ \A d \in Contribution \ {c} : contribution'[d] = contribution[d]
    BY <1>4, CreateContributionIsAPledge
  <2>3. req[q].kind = "MEMBERSHIP" => req[q].tier # Null
    BY DEF LedgerInv, ReadsStand, CreateContribution
  <2>4. RefundsStand' /\ SoldTierIsKept'
    BY <2>2, <2>3 DEF LedgerInv, RefundsStand, SoldTierIsKept
  <2>5. QED
    BY <2>1, <2>4 DEF LedgerInv
<1>5. QED
  BY <1>3, <1>4

LEMMA WriteSettlementKeepsLedger ==
    ASSUME ConstantsAssumption, OneAtATime, BooksInv, LedgerInv, NEW q \in Req,
           WriteSettlement(q)
    PROVE  LedgerInv'
<1>1. PICK c \in Contribution, to \in Settlements :
              /\ contribution[c].status = Required(to)
              /\ contribution'[c].status = to
              /\ contribution'[c].kind = contribution[c].kind
              /\ contribution'[c].tier = contribution[c].tier
              /\ contribution'[c].refunded = (contribution[c].refunded \/ to = "REFUNDED")
              /\ \A d \in Contribution \ {c} : contribution'[d] = contribution[d]
              /\ Goto(q, "auditSettle")
  BY SettlementIsAnOutcome
<1>2. req'[q].pc = "auditSettle" /\ \A p \in Req : p = q
  <2>1. req \in [Req -> Request] /\ req[q] \in SettleRequest
    BY KindOfRequest DEF BooksInv, RequestsAreSound, WriteSettlement
  <2>2. QED
    BY <1>1, <2>1 DEF OneAtATime, Goto, SettleRequest
<1>3. ReadsStand'
  BY <1>2 DEF ReadsStand
<1>4. contribution[c].status # "REFUNDED"
  BY <1>1 DEF Required
<1>5. RefundsStand' /\ SoldTierIsKept'
  BY <1>1, <1>4 DEF LedgerInv, RefundsStand, SoldTierIsKept
<1>6. QED
  BY <1>3, <1>5 DEF LedgerInv

\* Nothing was sold of a tier that is deleted, so nothing loses its tier.
LEMMA WriteRetireKeepsLedger ==
    ASSUME ConstantsAssumption, OneAtATime, BooksInv, LedgerInv, NEW q \in Req,
           WriteRetire(q)
    PROVE  LedgerInv' /\ UNCHANGED contribution
<1> DEFINE sold == {c \in Contribution : contribution[c].tier = req[q].tier}
<1>1. req \in [Req -> Request] /\ req[q].sold = Cardinality(sold)
  BY DEF BooksInv, RequestsAreSound, LedgerInv, ReadsStand, WriteRetire
<1>2. IsFiniteSet(sold)
  BY FS_Subset DEF ConstantsAssumption
<1>3. req[q].sold = 0 => sold = {}
  BY <1>1, <1>2, FS_EmptySet
<1>4. contribution' = contribution
  <2>1. CASE contribution' = [c \in Contribution |->
                 IF contribution[c].tier = req[q].tier THEN [contribution[c] EXCEPT !.tier = Null]
                                                       ELSE contribution[c]] /\ req[q].sold = 0
    BY <1>3, <2>1 DEF BooksInv, TypeOK
  <2>2. QED
    BY <2>1 DEF WriteRetire
<1>5. \A p \in Req : req'[p] = req[p] \/ req'[p].pc = "idle"
  BY <1>1 DEF WriteRetire, Finish, Idle
<1>6. QED
  BY <1>4, <1>5, QuietKeepsLedger

LEMMA StepKeepsLedger ==
    ASSUME ConstantsAssumption, OneAtATime, BooksInv, LedgerInv, [Next]_vars
    PROVE  LedgerInv'
<1>0. req \in [Req -> Request]
  BY DEF BooksInv, RequestsAreSound
<1>1. CASE \E q \in Req :
           \/ \E c \in Contribution, u \in User \cup {Null}, kind \in Kinds, t \in Tier \cup {Null},
                 amount \in Amount \cup {0}, named \in BOOLEAN :
                    BeginPledge(q, c, u, kind, t, amount, named)
           \/ \E u \in User, c \in Contribution, to \in Settlements : BeginSettle(q, u, c, to)
           \/ \E t \in Tier : BeginRetire(q, t)
  BY <1>1, BeginningsKeepLedger
<1>2. ASSUME NEW q \in Req, RequestStep(q)
      PROVE  LedgerInv'
  <2>1. CASE AnswerPledge(q) \/ AuditSettlement(q)
    <3>1. UNCHANGED contribution /\ Finish(q)
      BY <2>1 DEF AnswerPledge, AuditSettlement
    <3>2. QED
      BY <1>0, <3>1, QuietKeepsLedger DEF Finish, Idle
  <2>2. QED
    BY <1>2, <2>1, ReadTierKeepsLedger, CreateContributionKeepsLedger,
       WriteSettlementKeepsLedger, WriteRetireKeepsLedger DEF RequestStep
<1>3. ASSUME NEW q \in Req, Crash(q)
      PROVE  LedgerInv'
  BY <1>0, <1>3, QuietKeepsLedger DEF Crash, Finish, Idle
<1>4. ASSUME UNCHANGED <<contribution, req>>
      PROVE  LedgerInv'
  BY <1>4, QuietKeepsLedger
<1>5. QED
  BY <1>1, <1>2, <1>3, <1>4
     DEF Next, vars, CreateTier, UpdateTier, SaveSettings, CloseAccount, Tick

\* A step of the code is a line of the ledger, or leaves it.
LEMMA StepKeepsTheLedger ==
    ASSUME ConstantsAssumption, OneAtATime, BooksInv, LedgerInv, [Next]_vars
    PROVE  [L!Next]_(<<[c \in Contribution |-> contribution[c].status],
                       [c \in Contribution |-> contribution[c].amount]>>)
<1> DEFINE state == [c \in Contribution |-> contribution[c].status]
           amount == [c \in Contribution |-> contribution[c].amount]
<1>1. CASE UNCHANGED contribution
  BY <1>1
<1>2. ASSUME NEW q \in Req, CreateContribution(q), ~UNCHANGED contribution
      PROVE  L!Next
  <2>1. PICK c \in Contribution, a \in Amount :
              /\ ~Exists(c)
              /\ contribution'[c].status = "PENDING" /\ contribution'[c].amount = a
              /\ \A d \in Contribution \ {c} : contribution'[d] = contribution[d]
    BY <1>2, CreateContributionIsAPledge
  <2>2. /\ state[c] = "NONE" /\ state' = [state EXCEPT ![c] = "PENDING"]
        /\ amount' = [amount EXCEPT ![c] = a]
    BY <2>1 DEF Exists
  <2>3. L!Pledge(c, a)
    BY <2>2 DEF L!Pledge, L!None
  <2>4. QED
    BY <2>3 DEF L!Next
<1>3. ASSUME NEW q \in Req, WriteSettlement(q)
      PROVE  L!Next
  <2>1. PICK c \in Contribution, to \in Settlements :
              /\ contribution[c].status = Required(to)
              /\ contribution'[c].status = to
              /\ contribution'[c].amount = contribution[c].amount
              /\ \A d \in Contribution \ {c} : contribution'[d] = contribution[d]
    BY <1>3, SettlementIsAnOutcome
  <2>2. /\ state[c] = Required(to) /\ state' = [state EXCEPT ![c] = to] /\ amount' = amount
    BY <2>1
  <2> HIDE DEF state, amount
  <2>3. CASE to = "REFUNDED"
    BY <2>2, <2>3 DEF L!Next, L!Refund, Required, state, amount
  <2>4. CASE to # "REFUNDED"
    BY <2>2, <2>4 DEF L!Next, L!Settle, Required, Settlements, state, amount
  <2>5. QED
    BY <2>3, <2>4
<1>4. ASSUME NEW q \in Req, WriteRetire(q)
      PROVE  UNCHANGED contribution
  BY <1>4, WriteRetireKeepsLedger
<1>5. QED
  BY ZenonT(60), <1>1, <1>2, <1>3, <1>4
     DEF Next, vars, RequestStep, BeginPledge, BeginSettle, BeginRetire, ReadTier, AnswerPledge,
         AuditSettlement, Crash, CreateTier, UpdateTier, SaveSettings, CloseAccount, Tick

\* What one request at a time keeps beyond the books.
THEOREM LedgerInvariance == OneAtATime => (Spec => []LedgerInv)
<1>1. ASSUME OneAtATime PROVE Spec => []LedgerInv
  <2>1. Init => LedgerInv
    BY DEF Init, LedgerInv, ReadsStand, RefundsStand, SoldTierIsKept, NoContribution, Idle
  <2>2. BooksInv /\ LedgerInv /\ [Next]_vars => LedgerInv'
    BY <1>1, StepKeepsLedger, ConstantsAssumption
  <2>3. QED
    BY <2>1, <2>2, BooksInvariance, ConstantsAssumption, PTL DEF Spec
<1>2. QED
  BY <1>1

\* If no two requests overlap, the code keeps the ledger of docs/support.md: a
\* pledge is settled once, only what was confirmed is given back, no amount
\* changes and no row disappears.
THEOREM KeepsTheLedgerOneAtATime == OneAtATime => (Spec => KeepsTheLedger)
<1>1. ASSUME OneAtATime PROVE Spec => KeepsTheLedger
  <2>1. Init => L!Init
    BY DEF Init, L!Init, L!None, NoContribution
  <2>2. BooksInv /\ LedgerInv /\ [Next]_vars =>
            [L!Next]_(<<[c \in Contribution |-> contribution[c].status],
                        [c \in Contribution |-> contribution[c].amount]>>)
    BY <1>1, StepKeepsTheLedger, ConstantsAssumption
  <2>3. QED
    BY <1>1, <2>1, <2>2, BooksInvariance, LedgerInvariance, ConstantsAssumption, PTL
       DEF Spec, KeepsTheLedger, L!Spec
<1>2. QED
  BY <1>1

\* Without overlap no total is inflated either: what makes the counterexample is
\* a second settlement between the check and the write of the first, nothing else.
THEOREM NothingIsInflatedOneAtATime == OneAtATime => (Spec => []RefundedMoneyIsNotCounted)
<1>1. ASSUME OneAtATime PROVE Spec => []RefundedMoneyIsNotCounted
  <2>1. LedgerInv => RefundedMoneyIsNotCounted
    BY DEF LedgerInv, RefundsStand, RefundedMoneyIsNotCounted
  <2>2. QED
    BY <1>1, <2>1, LedgerInvariance, PTL
<1>2. QED
  BY <1>1

\* A tier that was sold is not deleted from under the record of it, if nothing is
\* pledged between the count and the delete of retireTier.
THEOREM SoldTierStaysOneAtATime == OneAtATime => (Spec => []SoldTierIsKept)
<1>1. ASSUME OneAtATime PROVE Spec => []SoldTierIsKept
  <2>1. LedgerInv => SoldTierIsKept
    BY DEF LedgerInv
  <2>2. QED
    BY <1>1, <2>1, LedgerInvariance, PTL
<1>2. QED
  BY <1>1
---------------------------------------------------------------------------
(* While no request is lost, every settlement is in the log                *)

\* A request that has written a settlement and not yet logged it.
Owes(q, s) == req[q].pc = "auditSettle" /\ <<req[q].user, req[q].to, req[q].con>> = s

\* A step that settles nothing and disturbs no request that owes.
LEMMA OwedStaysOwed ==
    ASSUME EverySettlementIsAudited, UNCHANGED <<settled, audit>>,
           \A q \in Req : req[q].pc = "auditSettle" => req'[q] = req[q]
    PROVE  EverySettlementIsAudited'
BY DEF EverySettlementIsAudited

LEMMA WriteSettlementKeepsOwed ==
    ASSUME req \in [Req -> Request], EverySettlementIsAudited, NEW q \in Req, WriteSettlement(q)
    PROVE  EverySettlementIsAudited'
<1>1. req[q] \in SettleRequest /\ req[q].pc = "settle"
  BY KindOfRequest DEF WriteSettlement
<1>2. PICK s : s = <<req[q].user, req[q].to, req[q].con>>
  OBVIOUS
<1>3. settled' = settled \cup {s} /\ UNCHANGED audit /\ Goto(q, "auditSettle")
  BY <1>2 DEF WriteSettlement
<1>4. /\ req'[q].pc = "auditSettle" /\ req'[q].user = req[q].user
      /\ req'[q].to = req[q].to /\ req'[q].con = req[q].con
      /\ \A p \in Req \ {q} : req'[p] = req[p]
  BY <1>1, <1>3 DEF Goto, SettleRequest
<1>5. Owes(q, s)'
  BY <1>2, <1>4 DEF Owes
<1>6. \A x \in settled : x \in audit' \/ \E p \in Req : Owes(p, x)'
  <2>1. ASSUME NEW x \in settled, x \notin audit
        PROVE  \E p \in Req : Owes(p, x)'
    <3>1. PICK p \in Req : Owes(p, x)
      BY <2>1 DEF EverySettlementIsAudited, Owes
    <3>2. p # q
      BY <1>1, <3>1 DEF Owes
    <3>3. Owes(p, x)'
      BY <1>4, <3>1, <3>2 DEF Owes
    <3>4. QED
      BY <3>3
  <2>2. QED
    BY <1>3, <2>1
<1>7. QED
  BY <1>3, <1>5, <1>6 DEF EverySettlementIsAudited, Owes

LEMMA AuditSettlementKeepsOwed ==
    ASSUME req \in [Req -> Request], EverySettlementIsAudited, NEW q \in Req, AuditSettlement(q)
    PROVE  EverySettlementIsAudited'
<1>1. PICK s : s = <<req[q].user, req[q].to, req[q].con>>
  OBVIOUS
<1>2. /\ audit' = audit \cup {s} /\ UNCHANGED settled
      /\ \A p \in Req \ {q} : req'[p] = req[p]
  BY <1>1 DEF AuditSettlement, Finish
<1>3. ASSUME NEW x \in settled, x \notin audit'
      PROVE  \E p \in Req : Owes(p, x)'
  <2>1. PICK p \in Req : Owes(p, x)
    BY <1>2, <1>3 DEF EverySettlementIsAudited, Owes
  <2>2. p # q
    BY <1>1, <1>2, <1>3, <2>1 DEF Owes
  <2>3. Owes(p, x)'
    BY <1>2, <2>1, <2>2 DEF Owes
  <2>4. QED
    BY <2>3
<1>4. QED
  BY <1>2, <1>3 DEF EverySettlementIsAudited, Owes

LEMMA StepKeepsOwed ==
    ASSUME ~Crashes, req \in [Req -> Request], EverySettlementIsAudited, [Next]_vars
    PROVE  EverySettlementIsAudited'
<1>1. ASSUME NEW q \in Req, UNCHANGED <<settled, audit>>, req[q].pc # "auditSettle",
             \A p \in Req \ {q} : req'[p] = req[p]
      PROVE  EverySettlementIsAudited'
  BY <1>1, OwedStaysOwed
<1>2. ASSUME UNCHANGED <<settled, audit, req>>
      PROVE  EverySettlementIsAudited'
  BY <1>2, OwedStaysOwed
<1>3. ASSUME NEW q \in Req, NEW c \in Contribution, NEW u \in User \cup {Null}, NEW kind \in Kinds,
             NEW t \in Tier \cup {Null}, NEW amount \in Amount \cup {0}, NEW named \in BOOLEAN,
             BeginPledge(q, c, u, kind, t, amount, named)
      PROVE  EverySettlementIsAudited'
  BY <1>1, <1>3 DEF BeginPledge, Idle
<1>4. ASSUME NEW q \in Req, NEW u \in User, NEW c \in Contribution, NEW to \in Settlements,
             BeginSettle(q, u, c, to)
      PROVE  EverySettlementIsAudited'
  BY <1>1, <1>4 DEF BeginSettle, Idle
<1>5. ASSUME NEW q \in Req, NEW t \in Tier, BeginRetire(q, t)
      PROVE  EverySettlementIsAudited'
  BY <1>1, <1>5 DEF BeginRetire, Idle
<1>6. ASSUME NEW q \in Req, ReadTier(q) \/ CreateContribution(q) \/ AnswerPledge(q) \/ WriteRetire(q)
      PROVE  EverySettlementIsAudited'
  <2>1. UNCHANGED <<settled, audit>> /\ req[q].pc # "auditSettle"
    BY <1>6 DEF ReadTier, CreateContribution, AnswerPledge, WriteRetire
  <2>2. \A p \in Req \ {q} : req'[p] = req[p]
    BY <1>6 DEF ReadTier, CreateContribution, AnswerPledge, WriteRetire, Goto, Finish
  <2>3. QED
    BY <1>1, <2>1, <2>2
<1>7. QED
  BY <1>2, <1>3, <1>4, <1>5, <1>6, WriteSettlementKeepsOwed, AuditSettlementKeepsOwed
     DEF Next, vars, RequestStep, Crash, CreateTier, UpdateTier, SaveSettings, CloseAccount, Tick

\* "Who said this money arrived" (run() in dashboard/contributions/actions.ts):
\* however the treasurers' actions interleave, if each of them runs to its end.
THEOREM SettlementsStayAudited == ~Crashes => (Spec => []EverySettlementIsAudited)
<1>1. ASSUME ~Crashes PROVE Spec => []EverySettlementIsAudited
  <2>1. Init => EverySettlementIsAudited
    BY DEF Init, EverySettlementIsAudited
  <2>2. BooksInv /\ EverySettlementIsAudited /\ [Next]_vars => EverySettlementIsAudited'
    BY <1>1, StepKeepsOwed DEF BooksInv, RequestsAreSound
  <2>3. QED
    BY <2>1, <2>2, BooksInvariance, ConstantsAssumption, PTL DEF Spec
<1>2. QED
  BY <1>1

\* The books are complete when nothing overlaps and nothing is lost: what was
\* sold can be named, and so can who settled it (retireTier, run).
THEOREM BooksAreCompleteOneAtATime == OneAtATime /\ ~Crashes => (Spec => []BooksAreComplete)
<1>1. ASSUME OneAtATime, ~Crashes PROVE Spec => []BooksAreComplete
  <2>1. SoldTierIsKept /\ EverySettlementIsAudited => BooksAreComplete
    BY DEF BooksAreComplete
  <2>2. QED
    BY <1>1, <2>1, SoldTierStaysOneAtATime, SettlementsStayAudited, PTL
<1>2. QED
  BY <1>1
=============================================================================
