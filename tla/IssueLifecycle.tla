-------------------------- MODULE IssueLifecycle --------------------------
(***************************************************************************)
(* The lifecycle of a reported issue as lib/issueVisibility.ts writes it   *)
(* down: six statuses, the transition table, and which statuses the public *)
(* may see.  Spec is what the table promises of one report at a time; the  *)
(* module Issues is the code that is supposed to keep the promise.         *)
(***************************************************************************)
CONSTANT Issue      \* identities of the rows of the Issue table

VARIABLE stage      \* the status of each report, or "NONE" / "DELETED"

Statuses == {"SUBMITTED", "UNDER_REVIEW", "VERIFIED",
             "PUBLISHED", "REJECTED", "RESOLVED"}

PublicStatuses == {"PUBLISHED", "RESOLVED"}

\* A row that was never filed, and one that retention removed.
NoRow == {"NONE", "DELETED"}

Transitions ==
    [s \in Statuses |->
        CASE s = "SUBMITTED"    -> {"UNDER_REVIEW", "REJECTED"}
          [] s = "UNDER_REVIEW" -> {"VERIFIED", "REJECTED", "SUBMITTED"}
          [] s = "VERIFIED"     -> {"PUBLISHED", "REJECTED", "UNDER_REVIEW"}
          [] s = "PUBLISHED"    -> {"RESOLVED"}
          [] s = "REJECTED"     -> {"UNDER_REVIEW"}
          [] s = "RESOLVED"     -> {}]

CanTransition(from, to) == from \in Statuses /\ to \in Transitions[from]

---------------------------------------------------------------------------

Init == stage = [i \in Issue |-> "NONE"]

\* A report enters the table as SUBMITTED and nothing else.
File(i) ==
    /\ stage[i] = "NONE"
    /\ stage' = [stage EXCEPT ![i] = "SUBMITTED"]

\* The only way to change a report that exists.
Move(i, to) ==
    /\ CanTransition(stage[i], to)
    /\ stage' = [stage EXCEPT ![i] = to]

\* Retention deletes what could not be substantiated, and only that; any number
\* of reports go in one pass.
Forget(old) ==
    /\ \A i \in old : stage[i] = "REJECTED"
    /\ stage' = [i \in Issue |-> IF i \in old THEN "DELETED" ELSE stage[i]]

Next ==
    \/ \E i \in Issue : File(i) \/ \E to \in Statuses : Move(i, to)
    \/ \E old \in SUBSET Issue : Forget(old)

Spec == Init /\ [][Next]_stage
===========================================================================
