--------------------------- MODULE Contributions ---------------------------
(***************************************************************************)
(* Membership and donations: pledging (app/(public)/support/actions.ts),   *)
(* the treasurer's three actions (dashboard/contributions/actions.ts), the *)
(* membership tiers and the whole of lib/contributions.ts below them.      *)
(*                                                                         *)
(* Each await on the database is a step.  requirePermission is taken       *)
(* together with the read that follows it: nothing here depends on when a  *)
(* permission is withdrawn (module Accounts does).                         *)
(***************************************************************************)
EXTENDS Naturals, FiniteSets

CONSTANTS
    User,           \* accounts
    Treasurers,     \* accounts holding contribution.confirm
    Contribution,   \* identities of contributions
    Tier,           \* identities of membership tiers
    Amount,         \* acceptable amounts (isAcceptableAmount), in paisa
    Months,         \* membership lengths
    Req,            \* server actions that may be in flight at once
    MaxTime,        \* bound of the model: length of the calendar, in months
    MaxStarted,     \* bound of the model: treasurer's actions in one behaviour
    Crashes,        \* whether the process may die under a request
    Null            \* a null column

DefaultMonths == 12

ASSUME ConstantsAssumption ==
    /\ Treasurers \subseteq User
    /\ Amount \subseteq Nat \ {0} /\ Months \subseteq Nat \ {0}
    /\ MaxTime \in Nat /\ MaxStarted \in Nat /\ Crashes \in BOOLEAN
    /\ Null \notin User \cup Tier
    /\ IsFiniteSet(Contribution)

VARIABLES
    tier,           \* the MembershipTier table
    contribution,   \* the Contribution table
    payable,        \* isPayable of the saved support settings
    closed,         \* accounts anonymiseAccount has erased
    told,           \* contributions whose reference the donor was given
    audit,          \* AuditLog rows about settlements: <<actor, what, which>>
    settled,        \* history: the settlements that were written
    now,            \* the calendar
    req,            \* the server actions in flight
    started         \* history: treasurer's actions begun

vars == <<tier, contribution, payable, closed, told, audit, settled, now, req, started>>

---------------------------------------------------------------------------
(* Rows and requests                                                       *)

Kinds == {"MEMBERSHIP", "ONE_OFF"}
Statuses == {"PENDING", "CONFIRMED", "FAILED", "REFUNDED"}
Settlements == {"CONFIRMED", "FAILED", "REFUNDED"}

TierRow == [isActive : BOOLEAN, price : Amount, months : Months]
NoTier == [isActive |-> FALSE, price |-> 0, months |-> 0]

ContributionRow ==
    [status : Statuses, kind : Kinds, user : User \cup {Null},
     named : BOOLEAN, amount : Amount, tier : Tier \cup {Null},
     confirmedBy : User \cup {Null}, confirmed : BOOLEAN, refunded : BOOLEAN,
     start : Nat, end : Nat]

NoContribution ==
    [status |-> "NONE", kind |-> "ONE_OFF", user |-> Null, named |-> FALSE,
     amount |-> 0, tier |-> Null, confirmedBy |-> Null, confirmed |-> FALSE,
     refunded |-> FALSE, start |-> 0, end |-> 0]

TierExists(t) == tier[t] # NoTier
Exists(c) == contribution[c].status # "NONE"

Idle == [pc |-> "idle"]

PledgeRequest ==
    [pc : {"readTier", "create", "auditPledge"}, con : Contribution,
     user : User \cup {Null}, kind : Kinds, tier : Tier \cup {Null},
     amount : Amount \cup {0}, named : BOOLEAN]
SettleRequest ==
    [pc : {"settle", "auditSettle"}, con : Contribution, user : User, to : Settlements,
     months : Months \cup {DefaultMonths}]
RetireRequest == [pc : {"retire"}, tier : Tier, sold : Nat]

Goto(q, pc) == req' = [req EXCEPT ![q].pc = pc]
Finish(q) == req' = [req EXCEPT ![q] = Idle]

\* Rows being created by a request already have their identity.
Fresh(c) ==
    /\ ~Exists(c)
    /\ \A q \in Req : req[q].pc \in {"readTier", "create"} => req[q].con # c

---------------------------------------------------------------------------

Init ==
    /\ tier = [t \in Tier |-> NoTier]
    /\ contribution = [c \in Contribution |-> NoContribution]
    /\ payable = FALSE
    /\ closed = {}
    /\ told = {}
    /\ audit = {}
    /\ settled = {}
    /\ now = 0
    /\ req = [q \in Req |-> Idle]
    /\ started = 0

---------------------------------------------------------------------------
(* pledgeAction                                                            *)

\* isPayable, the parsed form and auth().  A guest has no user; a one-off
\* names its amount, a membership its tier.
BeginPledge(q, c, u, kind, t, amount, named) ==
    /\ payable
    /\ req[q] = Idle
    /\ Fresh(c)
    /\ u \notin closed
    /\ IF kind = "MEMBERSHIP" THEN t # Null /\ amount = 0
                              ELSE t = Null /\ amount \in Amount
    /\ req' = [req EXCEPT ![q] =
           [pc |-> IF kind = "MEMBERSHIP" THEN "readTier" ELSE "create",
            con |-> c, user |-> u, kind |-> kind, tier |-> t,
            amount |-> amount, named |-> named]]
    /\ UNCHANGED <<tier, contribution, payable, closed, told, audit, settled, now, started>>

\* pledge: the price comes from the tier, not from the form.
ReadTier(q) ==
    LET t == req[q].tier IN
    /\ req[q].pc = "readTier"
    /\ IF tier[t].isActive
         THEN req' = [req EXCEPT ![q].pc = "create", ![q].amount = tier[t].price]
         ELSE Finish(q)
    /\ UNCHANGED <<tier, contribution, payable, closed, told, audit, settled, now, started>>

\* Mutant: the table has no foreign key on tierId.
CreateWithoutForeignKey(q) ==
    LET r == req[q] IN
    /\ r.pc = "create"
    /\ contribution' = [contribution EXCEPT ![r.con] =
           [NoContribution EXCEPT
               !.status = "PENDING", !.kind = r.kind, !.user = r.user,
               !.named = r.named, !.amount = r.amount, !.tier = r.tier]]
    /\ Goto(q, "auditPledge")
    /\ UNCHANGED <<tier, payable, closed, told, audit, settled, now, started>>

\* The foreign key refuses a tier that was deleted after it was read.
CreateContribution(q) ==
    LET r == req[q] IN
    /\ r.pc = "create"
    /\ IF r.tier # Null /\ ~TierExists(r.tier)
         THEN /\ Finish(q)
              /\ UNCHANGED contribution
         ELSE /\ contribution' = [contribution EXCEPT ![r.con] =
                     [NoContribution EXCEPT
                         !.status = "PENDING", !.kind = r.kind, !.user = r.user,
                         !.named = r.named, !.amount = r.amount, !.tier = r.tier]]
              /\ Goto(q, "auditPledge")
    /\ UNCHANGED <<tier, payable, closed, told, audit, settled, now, started>>

\* Mutant: only a donor who is willing to be named is answered.
AnswerNamedPledge(q) ==
    LET r == req[q] IN
    /\ r.pc = "auditPledge"
    /\ told' = IF r.user \in User /\ r.named THEN told \cup {r.con} ELSE told
    /\ Finish(q)
    /\ UNCHANGED <<tier, contribution, payable, closed, audit, settled, now, started>>

\* recordAudit names the user as the actor or, for a guest, the contribution's
\* own id.  AuditLog.actorId is a foreign key into User, so for a guest the
\* insert throws and the reference is never returned.
AnswerPledge(q) ==
    LET r == req[q] IN
    /\ r.pc = "auditPledge"
    /\ told' = IF r.user \in User THEN told \cup {r.con} ELSE told
    /\ Finish(q)
    /\ UNCHANGED <<tier, contribution, payable, closed, audit, settled, now, started>>

---------------------------------------------------------------------------
(* The treasurer: confirmAction, markNotReceivedAction, refundAction       *)

\* Mutant: a refund does not insist on a confirmed contribution.
RequiredPending(to) == IF to = "REFUNDED" THEN "PENDING" ELSE "PENDING"

\* The status each of the three requires of the row it is about to change.
Required(to) == IF to = "REFUNDED" THEN "CONFIRMED" ELSE "PENDING"

\* The interval of the tier as it is now, or twelve months without one.
TermOf(c) ==
    IF contribution[c].tier = Null THEN DefaultMonths
    ELSE tier[contribution[c].tier].months

BeginSettle(q, u, c, to) ==
    /\ req[q] = Idle
    /\ started < MaxStarted
    /\ u \in Treasurers \ closed
    /\ contribution[c].status = Required(to)
    /\ req' = [req EXCEPT ![q] =
           [pc |-> "settle", con |-> c, user |-> u, to |-> to, months |-> TermOf(c)]]
    /\ started' = started + 1
    /\ UNCHANGED <<tier, contribution, payable, closed, told, audit, settled, now>>

\* Mutant: every confirmation sets a period, whatever was bought.
SettledWithPeriod(row, to, u, months) ==
    [row EXCEPT
        !.status = to,
        !.confirmedBy = u,
        !.confirmed = @ \/ to = "CONFIRMED",
        !.refunded = @ \/ to = "REFUNDED",
        !.start = IF to = "CONFIRMED" THEN now ELSE @,
        !.end = IF to = "CONFIRMED" THEN now + months ELSE @]

\* Mutant: a refund takes the money out of the row instead of marking it.
SettledByZeroing(row, to, u, months) ==
    IF to = "REFUNDED" THEN [row EXCEPT !.amount = 0, !.confirmedBy = u]
    ELSE [row EXCEPT
        !.status = to,
        !.confirmedBy = u,
        !.confirmed = @ \/ to = "CONFIRMED",
        !.start = IF to = "CONFIRMED" /\ row.kind = "MEMBERSHIP" THEN now ELSE @,
        !.end = IF to = "CONFIRMED" /\ row.kind = "MEMBERSHIP" THEN now + months ELSE @]

\* The columns each outcome writes; a membership runs from its confirmation.
Settled(row, to, u, months) ==
    [row EXCEPT
        !.status = to,
        !.confirmedBy = u,
        !.confirmed = @ \/ to = "CONFIRMED",
        !.refunded = @ \/ to = "REFUNDED",
        !.start = IF to = "CONFIRMED" /\ row.kind = "MEMBERSHIP" THEN now ELSE @,
        !.end = IF to = "CONFIRMED" /\ row.kind = "MEMBERSHIP" THEN now + months ELSE @]

\* update by id: the status that was read is not a condition of the write.
WriteSettlement(q) ==
    LET r == req[q] IN
    /\ r.pc = "settle"
    /\ contribution' = [contribution EXCEPT ![r.con] = Settled(@, r.to, r.user, r.months)]
    /\ settled' = settled \cup {<<r.user, r.to, r.con>>}
    /\ Goto(q, "auditSettle")
    /\ UNCHANGED <<tier, payable, closed, told, audit, now, started>>

\* Mutant: a contribution marked as not received is not worth an audit row.
AuditMoneyOnly(q) ==
    LET r == req[q] IN
    /\ r.pc = "auditSettle"
    /\ audit' = IF r.to = "FAILED" THEN audit ELSE audit \cup {<<r.user, r.to, r.con>>}
    /\ Finish(q)
    /\ UNCHANGED <<tier, contribution, payable, closed, told, settled, now, started>>

AuditSettlement(q) ==
    LET r == req[q] IN
    /\ r.pc = "auditSettle"
    /\ audit' = audit \cup {<<r.user, r.to, r.con>>}
    /\ Finish(q)
    /\ UNCHANGED <<tier, contribution, payable, closed, told, settled, now, started>>

---------------------------------------------------------------------------
(* Tiers, settings, accounts, time                                         *)

\* An identity is not reused while a request still remembers it.
CreateTier(t, price, months) ==
    /\ ~TierExists(t)
    /\ \A q \in Req : "tier" \in DOMAIN req[q] => req[q].tier # t
    /\ tier' = [tier EXCEPT ![t] = [isActive |-> TRUE, price |-> price, months |-> months]]
    /\ UNCHANGED <<contribution, payable, closed, told, audit, settled, now, req, started>>

\* Mutant: a new price is carried over to the pledges that are still open.
UpdateTierAndPledges(t, price, months, isActive) ==
    /\ TierExists(t)
    /\ tier' = [tier EXCEPT ![t] = [isActive |-> isActive, price |-> price, months |-> months]]
    /\ contribution' = [c \in Contribution |->
           IF contribution[c].tier = t /\ contribution[c].status = "PENDING"
             THEN [contribution[c] EXCEPT !.amount = price] ELSE contribution[c]]
    /\ UNCHANGED <<payable, closed, told, audit, settled, now, req, started>>

\* updateTier writes the tier and no contribution.
UpdateTier(t, price, months, isActive) ==
    /\ TierExists(t)
    /\ tier' = [tier EXCEPT ![t] = [isActive |-> isActive, price |-> price, months |-> months]]
    /\ UNCHANGED <<contribution, payable, closed, told, audit, settled, now, req, started>>

\* retireTier counts in one query and deletes or deactivates in the next.
BeginRetire(q, t) ==
    /\ req[q] = Idle
    /\ TierExists(t)
    /\ req' = [req EXCEPT ![q] =
           [pc |-> "retire", tier |-> t,
            sold |-> Cardinality({c \in Contribution : contribution[c].tier = t})]]
    /\ UNCHANGED <<tier, contribution, payable, closed, told, audit, settled, now, started>>

\* Mutant: the tier is deleted whether or not it has been sold.
WriteRetireAlways(q) ==
    LET t == req[q].tier IN
    /\ req[q].pc = "retire"
    /\ tier' = [tier EXCEPT ![t] = NoTier]
    /\ contribution' = [c \in Contribution |->
           IF contribution[c].tier = t THEN [contribution[c] EXCEPT !.tier = Null]
                                       ELSE contribution[c]]
    /\ Finish(q)
    /\ UNCHANGED <<payable, closed, told, audit, settled, now, started>>

\* Deleting the row sets Contribution.tierId to null (the relation's default).
WriteRetire(q) ==
    LET t == req[q].tier IN
    /\ req[q].pc = "retire"
    /\ \/ /\ req[q].sold > 0
          /\ tier' = IF TierExists(t) THEN [tier EXCEPT ![t].isActive = FALSE] ELSE tier
          /\ UNCHANGED contribution
       \/ /\ req[q].sold = 0
          /\ tier' = [tier EXCEPT ![t] = NoTier]
          /\ contribution' = [c \in Contribution |->
                 IF contribution[c].tier = t THEN [contribution[c] EXCEPT !.tier = Null]
                                             ELSE contribution[c]]
    /\ Finish(q)
    /\ UNCHANGED <<payable, closed, told, audit, settled, now, started>>

\* updateSupportSettings, once its own isPayable check has been passed.
SaveSettings(enabled) ==
    /\ payable # enabled
    /\ payable' = enabled
    /\ UNCHANGED <<tier, contribution, closed, told, audit, settled, now, req, started>>

\* anonymiseAccount: its transaction does not touch the Contribution table.
CloseAccount(u) ==
    /\ u \notin closed
    /\ closed' = closed \cup {u}
    /\ UNCHANGED <<tier, contribution, payable, told, audit, settled, now, req, started>>

\* The process is restarted, or an await throws, part of the way through.
Crash(q) ==
    /\ Crashes
    /\ req[q] # Idle
    /\ Finish(q)
    /\ UNCHANGED <<tier, contribution, payable, closed, told, audit, settled, now, started>>

Tick ==
    /\ now < MaxTime
    /\ now' = now + 1
    /\ UNCHANGED <<tier, contribution, payable, closed, told, audit, settled, req, started>>

---------------------------------------------------------------------------

RequestStep(q) ==
    \/ ReadTier(q) \/ CreateContribution(q) \/ AnswerPledge(q)
    \/ WriteSettlement(q) \/ AuditSettlement(q)
    \/ WriteRetire(q)

Next ==
    \/ \E q \in Req, c \in Contribution, u \in User \cup {Null}, kind \in Kinds,
          t \in Tier \cup {Null}, amount \in Amount \cup {0}, named \in BOOLEAN :
             BeginPledge(q, c, u, kind, t, amount, named)
    \/ \E q \in Req, u \in User, c \in Contribution, to \in Settlements :
             BeginSettle(q, u, c, to)
    \/ \E q \in Req, t \in Tier : BeginRetire(q, t)
    \/ \E q \in Req : RequestStep(q)
    \/ \E q \in Req : Crash(q)
    \/ \E t \in Tier, price \in Amount, months \in Months : CreateTier(t, price, months)
    \/ \E t \in Tier, price \in Amount, months \in Months, isActive \in BOOLEAN :
             UpdateTier(t, price, months, isActive)
    \/ \E enabled \in BOOLEAN : SaveSettings(enabled)
    \/ \E u \in User : CloseAccount(u)
    \/ Tick

Spec == Init /\ [][Next]_vars

\* Every await of a request that has begun is answered.
FairSpec == Spec /\ \A q \in Req : WF_vars(RequestStep(q))

---------------------------------------------------------------------------
(* Properties                                                              *)

TypeOK ==
    /\ tier \in [Tier -> TierRow \cup {NoTier}]
    /\ contribution \in [Contribution -> ContributionRow \cup {NoContribution}]
    /\ payable \in BOOLEAN
    /\ closed \subseteq User
    /\ told \subseteq Contribution
    /\ audit \subseteq User \X Settlements \X Contribution
    /\ settled \subseteq User \X Settlements \X Contribution
    /\ now \in 0..MaxTime
    /\ req \in [Req -> PledgeRequest \cup SettleRequest \cup RetireRequest \cup {Idle}]
    /\ started \in 0..MaxStarted

\* Editing or retiring a tier never rewrites history: once a contribution is
\* recorded its amount, kind and donor stay what they were (updateTier).
HistoryIsNotRewritten ==
    [][\A c \in Contribution :
          Exists(c) =>
              /\ contribution'[c].amount = contribution[c].amount
              /\ contribution'[c].kind = contribution[c].kind
              /\ contribution'[c].user = contribution[c].user
              /\ contribution'[c].status # "NONE"]_vars

\* Money counts, or is given back, only after somebody said it arrived: however
\* the treasurers' requests interleave, the row names who settled it
\* (confirmedTotals counts CONFIRMED only).
CountedMoneyArrived ==
    \A c \in Contribution :
        /\ contribution[c].status \in {"CONFIRMED", "REFUNDED"} \/ contribution[c].refunded
               => contribution[c].confirmed
        /\ contribution[c].status \in Settlements => contribution[c].confirmedBy \in User

\* A membership that currentMembership would find runs for a whole number of
\* months from a confirmation that has happened; nothing else has a period.
PaidMembershipHasItsTerm ==
    \A c \in Contribution :
        LET row == contribution[c] IN
        /\ row.end > 0 => /\ row.kind = "MEMBERSHIP" /\ row.confirmed
                          /\ row.start <= now
                          /\ row.end - row.start \in Months \cup {DefaultMonths}
        /\ row.kind = "MEMBERSHIP" /\ row.status = "CONFIRMED" => row.end > 0

\* A contribution never names a tier that does not exist, whichever of a pledge
\* and a retirement comes first (Contribution_tierId_fkey).
TierReferencesResolve ==
    \A c \in Contribution : contribution[c].tier # Null => TierExists(contribution[c].tier)

\* "Who said this money arrived": every settlement that was written is in the
\* audit log or its request is about to put it there, while no request is lost.
EverySettlementIsAudited ==
    \A s \in settled :
        \/ s \in audit
        \/ \E q \in Req : req[q].pc = "auditSettle" /\ <<req[q].user, req[q].to, req[q].con>> = s

\* Taken one at a time, the treasurer's actions keep the ledger of
\* docs/support.md.
L == INSTANCE Ledger WITH
        state <- [c \in Contribution |-> contribution[c].status],
        amount <- [c \in Contribution |-> contribution[c].amount]
KeepsTheLedger == L!Spec

\* A tier somebody has bought is never deleted from under the record of it
\* (retireTier: "a receipt that cannot say what was bought is not a receipt").
SoldTierIsKept ==
    \A c \in Contribution :
        contribution[c].kind = "MEMBERSHIP" => contribution[c].tier # Null

\* A member whose pledge was recorded is given the reference to quote.
MemberLearnsReference ==
    \A c \in Contribution : contribution[c].user \in User ~> c \in told

\* No total is inflated: money that was given back is not counted among what
\* was received (confirmContribution's refusal is there for this).
RefundedMoneyIsNotCounted ==
    \A c \in Contribution : contribution[c].status = "CONFIRMED" => ~contribution[c].refunded

\* A membership that counts has its tier and its term, however the pledge, the
\* retirement of its tier and the confirmation overlapped.
MembershipsAreWhole == PaidMembershipHasItsTerm /\ TierReferencesResolve

\* The books say what was sold and who said that it was paid.
BooksAreComplete == SoldTierIsKept /\ EverySettlementIsAudited
===========================================================================
