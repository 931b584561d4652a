-------------------------------- MODULE Push --------------------------------
(***************************************************************************)
(* Alerts on one browser: the switch in its tabs (PushToggle.tsx), the     *)
(* worker that renews a subscription (public/sw.js), the rows the server   *)
(* keeps (api/push/subscribe), the fan-out of a story over them            *)
(* (lib/push.ts) and the purge of rows that failed (lib/retention.ts).     *)
(*                                                                         *)
(* A subscription is an endpoint at the push service (external); it ends   *)
(* when the browser gives it up, and a new one is another endpoint.        *)
(***************************************************************************)
EXTENDS Naturals, FiniteSets

CONSTANTS
    Endpoint,       \* 1..n, in the order the push service hands them out
    Tab,            \* tabs of the browser
    Fanout,         \* stories that are sent out at once
    PushBound       \* bound of the model: clicks, stories and changes of the browser

ASSUME PushAssumption == Endpoint \subseteq Nat \ {0} /\ IsFiniteSet(Endpoint)

VARIABLES
    live,           \* the endpoint the browser is subscribed to, or 0
    used,           \* how many the push service has handed out
    born,           \* rows created so far, which numbers them
    subs,           \* PushSubscription rows, by endpoint
    tab,            \* what the switch shows, and what it is doing
    fanout,         \* rows a story is sent to, and what came of each
    pushes,         \* counter of the bound
    broken          \* history: endpoints whose row was lost to a failure or a purge

pushVars == <<live, used, born, subs, tab, fanout, pushes, broken>>

NoRow == [id |-> 0, user |-> "nobody", failed |-> "no"]
SubRow == [id : Nat, user : {"nobody", "reader"}, failed : {"no", "once", "a month"}]
Shows == {"off", "on", "working", "error"}

PushInit ==
    /\ live = 0 /\ used = 0 /\ born = 0
    /\ subs = [e \in Endpoint |-> NoRow]
    /\ tab = [t \in Tab |-> [shows |-> "off", pc |-> "idle", e |-> 0]]
    /\ fanout = [f \in Fanout |-> {}]
    /\ pushes = 0 /\ broken = {}

Counted == pushes < PushBound /\ pushes' = pushes + 1
Shift(t, shows, pc, e) == tab' = [tab EXCEPT ![t] = [shows |-> shows, pc |-> pc, e |-> e]]
InTab(t, pc) == tab[t].pc = pc

\* Another endpoint, if the push service has one left in the model.
Fresh == used + 1 \in Endpoint

---------------------------------------------------------------------------
(* The switch                                                              *)

\* The effect that runs once: what the browser holds is what is shown.
LoadTab(t) ==
    /\ InTab(t, "idle") /\ tab[t].shows # (IF live = 0 THEN "off" ELSE "on")
    /\ Shift(t, IF live = 0 THEN "off" ELSE "on", "idle", 0)
    /\ UNCHANGED <<live, used, born, subs, fanout, pushes, broken>>

\* enable: the subscription there is, or a new one.
Enable(t) ==
    /\ InTab(t, "idle") /\ tab[t].shows \in {"off", "error"} /\ Counted
    /\ \/ /\ live # 0 /\ UNCHANGED <<live, used>>
       \/ /\ live = 0 /\ Fresh
          /\ used' = used + 1 /\ live' = used'
    /\ Shift(t, "working", "post", live')
    /\ UNCHANGED <<born, subs, fanout, broken>>

\* POST: the row of this endpoint, claimed by whoever is signed in.
Upsert(e, user) ==
    /\ born' = IF subs[e].id = 0 THEN born + 1 ELSE born
    /\ subs' = [subs EXCEPT ![e] =
           IF @.id = 0 THEN [id |-> born', user |-> user, failed |-> "no"]
           ELSE [@ EXCEPT !.failed = "no", !.user = IF user = "nobody" THEN subs[e].user ELSE user]]

Subscribe(t) ==
    /\ InTab(t, "post")
    /\ \E user \in {"nobody", "reader"} : Upsert(tab[t].e, user)
    /\ Shift(t, "on", "idle", 0)
    /\ broken' = broken \ {tab[t].e}
    /\ UNCHANGED <<live, used, fanout, pushes>>

\* Refused, or the answer does not come back.
SubscribeFails(t) ==
    /\ InTab(t, "post")
    /\ \/ UNCHANGED <<subs, born>>
       \/ \E user \in {"nobody", "reader"} : Upsert(tab[t].e, user)
    /\ Shift(t, "error", "idle", 0)
    /\ broken' = broken \cup {tab[t].e}
    /\ UNCHANGED <<live, used, fanout, pushes>>

\* disable: first the row, whatever the server answers, then the subscription.
Disable(t) ==
    /\ InTab(t, "idle") /\ tab[t].shows = "on" /\ Counted
    /\ IF live = 0 THEN Shift(t, "off", "idle", 0) ELSE Shift(t, "working", "delete", live)
    /\ UNCHANGED <<live, used, born, subs, fanout, broken>>

DeleteRow(t) ==
    /\ InTab(t, "delete")
    /\ \/ subs' = [subs EXCEPT ![tab[t].e] = NoRow]
       \/ UNCHANGED subs
    /\ Shift(t, "working", "unsubscribe", tab[t].e)
    /\ UNCHANGED <<live, used, born, fanout, pushes, broken>>

Unsubscribe(t) ==
    /\ InTab(t, "unsubscribe")
    /\ live' = IF live = tab[t].e THEN 0 ELSE live
    /\ Shift(t, "off", "idle", 0)
    /\ UNCHANGED <<used, born, subs, fanout, pushes, broken>>

\* Either await of it throws.
DisableFails(t) ==
    /\ tab[t].pc \in {"delete", "unsubscribe"}
    /\ Shift(t, "error", "idle", 0)
    /\ broken' = broken \cup {tab[t].e}
    /\ UNCHANGED <<live, used, born, subs, fanout, pushes>>

\* pushsubscriptionchange: the worker subscribes anew and swallows what fails.
Rotate(stored) ==
    /\ live # 0 /\ Fresh /\ Counted
    /\ used' = used + 1 /\ live' = used'
    /\ IF stored THEN Upsert(live', "nobody") ELSE UNCHANGED <<subs, born>>
    /\ broken' = IF stored THEN broken ELSE broken \cup {live'}
    /\ UNCHANGED <<tab, fanout>>

---------------------------------------------------------------------------
(* The server                                                              *)

\* Mutant: whoever could not be reached is taken for gone.
GiveUp(e) == IF e = live THEN {"sent", "gone"} ELSE {"gone"}

\* The rows there are, and what the push service says of each.
Outcomes(e) == IF e = live THEN {"sent", "failed"} ELSE {"gone", "failed"}

SendOut(f) ==
    /\ fanout[f] = {} /\ Counted
    /\ LET on == {e \in Endpoint : subs[e].id # 0} IN
       /\ on # {}
       /\ \E came \in [on -> {"sent", "gone", "failed"}] :
              /\ \A e \in on : came[e] \in Outcomes(e)
              /\ fanout' = [fanout EXCEPT ![f] = {[e |-> e, id |-> subs[e].id, came |-> came[e]] : e \in on}]
    /\ UNCHANGED <<live, used, born, subs, tab, broken>>

\* The rows are tidied by number, when the last delivery is through.
Tidied(row, sends) ==
    IF \E s \in sends : s.id = row.id /\ s.came = "gone" THEN NoRow
    ELSE IF \E s \in sends : s.id = row.id /\ s.came = "sent" THEN [row EXCEPT !.failed = "no"]
    ELSE IF \E s \in sends : s.id = row.id /\ s.came = "failed" /\ row.failed = "no"
    THEN [row EXCEPT !.failed = "once"] ELSE row

Tidy(f) ==
    /\ fanout[f] # {}
    /\ subs' = [e \in Endpoint |-> IF subs[e].id = 0 THEN NoRow ELSE Tidied(subs[e], fanout[f])]
    /\ fanout' = [fanout EXCEPT ![f] = {}]
    /\ UNCHANGED <<live, used, born, tab, pushes, broken>>

MonthPasses ==
    /\ Counted
    /\ subs' = [e \in Endpoint |-> IF subs[e].failed = "once" THEN [subs[e] EXCEPT !.failed = "a month"] ELSE subs[e]]
    /\ UNCHANGED <<live, used, born, tab, fanout, broken>>

\* runRetention; and the rows that go with an account.
Purge ==
    /\ \E gone \in {{e \in Endpoint : subs[e].failed = "a month"}, {e \in Endpoint : subs[e].user = "reader"}} :
           /\ gone # {}
           /\ subs' = [e \in Endpoint |-> IF e \in gone THEN NoRow ELSE subs[e]]
           /\ broken' = broken \cup gone
    /\ UNCHANGED <<live, used, born, tab, fanout, pushes>>

PushNext ==
    \/ \E t \in Tab :
           \/ LoadTab(t) \/ Enable(t) \/ Subscribe(t) \/ SubscribeFails(t)
           \/ Disable(t) \/ DeleteRow(t) \/ Unsubscribe(t) \/ DisableFails(t)
    \/ \E stored \in BOOLEAN : Rotate(stored)
    \/ \E f \in Fanout : SendOut(f) \/ Tidy(f)
    \/ MonthPasses \/ Purge

PushSpec == PushInit /\ [][PushNext]_pushVars

---------------------------------------------------------------------------
PushTypeOK ==
    /\ live \in Endpoint \cup {0} /\ subs \in [Endpoint -> SubRow]
    /\ \A t \in Tab : tab[t].shows \in Shows

\* The switch keeps its promise: a browser that is subscribed, and whose
\* tabs are at rest, has a row to be reached by, in whatever order its tabs
\* were used, and though stories that were being sent out while it subscribed
\* are tidied up later.  Unless a step failed, or the row was purged.
SubscribedIsReached ==
    live # 0 /\ (\A t \in Tab : InTab(t, "idle")) /\ live \notin broken => subs[live].id # 0
=============================================================================
