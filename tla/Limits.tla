------------------------------- MODULE Limits -------------------------------
(***************************************************************************)
(* The limiter that counts in the process's own memory (lib/rateLimit.ts,  *)
(* memoryLimit), which every deployment without Upstash uses: one window   *)
(* for each action and caller, opened by the first request after the last  *)
(* one closed, a sweep of the closed ones every minute, and nothing left   *)
(* of them after a restart.                                                *)
(***************************************************************************)
EXTENDS Naturals, FiniteSets

CONSTANTS
    Limited,        \* the actions that are limited, each with its prefix
    Caller,         \* identifiers: an address, or an address and a name
    Limit,          \* requests of one window
    WindowLength,   \* its length
    ClockBound,     \* bound of the model: the moments of a behaviour
    AttemptBound    \* bound of the model: requests, which numbers them too

ASSUME LimitsAssumption ==
    /\ Limit \in Nat \ {0} /\ WindowLength \in Nat \ {0}
    /\ ClockBound \in Nat \ {0} /\ AttemptBound \in Nat

VARIABLES
    clock,
    windows,        \* memoryStore: by key, count and resetAt, or NoWindow
    passed,         \* history: the requests let through since the last start
    attempts,       \* counter of the bound
    unjust          \* history: one was refused that had not used up its limit

limitVars == <<clock, windows, passed, attempts, unjust>>

NoWindow == [count |-> 0, resetAt |-> 0]
Key == Limited \X Caller

\* Mutant: one bucket for every action of a caller.
SharedKey(action, id) == <<CHOOSE x \in Limited : TRUE, id>>

\* The prefix keeps the actions of one caller apart.
KeyOf(action, id) == <<action, id>>

LimitsInit ==
    /\ clock = 1 /\ attempts = 0 /\ unjust = FALSE
    /\ windows = [k \in Key |-> NoWindow]
    /\ passed = {}

\* The requests of one action and caller let through in one window's length.
Within(action, id, from) ==
    {r \in passed : r.key = <<action, id>> /\ r.at >= from /\ r.at < from + WindowLength}

\* Mutant: every request moves the end of its window.
ExtendWindow(w) == [count |-> w.count + 1, resetAt |-> clock + WindowLength]

\* The window stays where it is, and counts the refused ones too.
CountIn(w) == [w EXCEPT !.count = @ + 1]

Closed(w) == w = NoWindow \/ w.resetAt <= clock

Hit(action, id) ==
    LET k == KeyOf(action, id)
        w == IF Closed(windows[k]) THEN [count |-> 1, resetAt |-> clock + WindowLength]
             ELSE CountIn(windows[k]) IN
    /\ attempts < AttemptBound
    /\ attempts' = attempts + 1
    /\ windows' = [windows EXCEPT ![k] = w]
    /\ IF w.count <= Limit
       THEN /\ passed' = passed \cup {[key |-> <<action, id>>, at |-> clock, n |-> attempts]}
            /\ UNCHANGED unjust
       ELSE /\ unjust' = (unjust \/ Cardinality(Within(action, id,
                              (clock + 1) - (IF clock < WindowLength THEN clock ELSE WindowLength))) < Limit)
            /\ UNCHANGED passed
    /\ UNCHANGED clock

\* The sweep: setInterval drops what has closed.
Sweep ==
    /\ \E k \in Key : windows[k] # NoWindow /\ windows[k].resetAt <= clock
    /\ windows' = [k \in Key |-> IF windows[k].resetAt <= clock THEN NoWindow ELSE windows[k]]
    /\ UNCHANGED <<clock, passed, attempts, unjust>>

TimePasses ==
    /\ clock < ClockBound
    /\ clock' = clock + 1
    /\ UNCHANGED <<windows, passed, attempts, unjust>>

\* A deploy or a crash: the counts are gone, and this history starts again.
ProcessRestarts ==
    /\ \E k \in Key : windows[k] # NoWindow
    /\ windows' = [k \in Key |-> NoWindow] /\ passed' = {}
    /\ UNCHANGED <<clock, attempts, unjust>>

LimitsNext ==
    \/ \E action \in Limited, id \in Caller : Hit(action, id)
    \/ Sweep \/ TimePasses \/ ProcessRestarts

LimitsSpec == LimitsInit /\ [][LimitsNext]_limitVars

---------------------------------------------------------------------------
LimitsTypeOK ==
    /\ clock \in 1..ClockBound /\ attempts \in 0..AttemptBound /\ unjust \in BOOLEAN
    /\ \A k \in Key : windows[k].count \in 0..AttemptBound
    /\ \A r \in passed : r.key \in Key /\ r.at \in 1..clock

\* No stretch of one window's length, wherever it starts, lets through twice
\* the limit; and nobody is refused before the action asked for has itself
\* let through the limit within the last window's length.
LimitsHold ==
    /\ \A k \in Key, from \in 1..ClockBound :
           Cardinality(Within(k[1], k[2], from)) <= 2 * Limit - 1
    /\ ~unjust
=============================================================================
