---------------------------- MODULE MC_Newsroom ----------------------------
(***************************************************************************)
(* Instance of Newsroom: one story with one file and two people at desks,  *)
(* or two or three stories on the pages.                                   *)
(***************************************************************************)
EXTENDS Newsroom

CONSTANTS s1, f1, d1, d2, c1, c2, ada, bo

Input(shows, breaking, time) == [body |-> shows, isBreaking |-> breaking, scheduledFor |-> time]

\* Breaking news at once and later, and a text without files for later.
MCInputs == {Input({f1}, TRUE, "none"), Input({f1}, TRUE, "later"), Input({}, FALSE, "later")}
=============================================================================
