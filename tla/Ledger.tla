------------------------------ MODULE Ledger ------------------------------
(***************************************************************************)
(* What docs/support.md promises of the record of money: a pledge is       *)
(* settled once, only a confirmed contribution can be refunded, the amount *)
(* never changes and no row ever disappears.  The module Contributions is  *)
(* the code that keeps the record.                                         *)
(***************************************************************************)
CONSTANTS Contribution, Amount

VARIABLES state, amount

None == "NONE"

Init ==
    /\ state = [c \in Contribution |-> None]
    /\ amount \in [Contribution -> Amount \cup {0}]
    /\ \A c \in Contribution : amount[c] = 0

Pledge(c, a) ==
    /\ state[c] = None
    /\ state' = [state EXCEPT ![c] = "PENDING"]
    /\ amount' = [amount EXCEPT ![c] = a]

Settle(c, outcome) ==
    /\ state[c] = "PENDING"
    /\ state' = [state EXCEPT ![c] = outcome]
    /\ UNCHANGED amount

Refund(c) ==
    /\ state[c] = "CONFIRMED"
    /\ state' = [state EXCEPT ![c] = "REFUNDED"]
    /\ UNCHANGED amount

Next ==
    \E c \in Contribution :
        \/ \E a \in Amount : Pledge(c, a)
        \/ \E outcome \in {"CONFIRMED", "FAILED"} : Settle(c, outcome)
        \/ Refund(c)

Spec == Init /\ [][Next]_<<state, amount>>
===========================================================================
