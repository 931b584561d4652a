------------------------------ MODULE Reading ------------------------------
(***************************************************************************)
(* How the reading of one article is counted: the writes that follow the   *)
(* answer to a view (lib/viewCount.ts, lib/analyticsCapture.ts), and the   *)
(* one beacon of each open page (components/articles/ReadingBeacon.tsx,    *)
(* api/analytics/read/route.ts).  Nothing waits for a count, and each may  *)
(* be lost: the database fails, the process goes down between two writes,  *)
(* the article is withdrawn before the beacon comes.                       *)
(***************************************************************************)
EXTENDS Naturals, FiniteSets, Sequences

CONSTANTS
    Sheet,          \* pages that are opened, each once
    Shortest,       \* a reading of fewer seconds is not reported
    ReadingBound    \* bound of the model: seconds of one page, and times it is hidden or shown

ASSUME ReadingAssumption == IsFiniteSet(Sheet) /\ Shortest \in Nat /\ ReadingBound \in Nat

VARIABLES
    public,         \* the article is published
    totals,         \* viewCount and the buckets of the day: views, daily, device, country, referrer
    reads,          \* ArticleReadDaily: reads and activeSeconds
    open,           \* by page, what the script knows and the reader does
    counting,       \* by page, the writes that are left of counting its view
    beacons         \* what was sent and has not arrived

readingVars == <<public, totals, reads, open, counting, beacons>>

Bucket == {"views", "daily", "device", "country", "referrer"}
Unopened == [pc |-> "unopened", shown |-> FALSE, timed |-> FALSE, active |-> 0, real |-> 0,
             turns |-> 0, sent |-> 0]

ReadingInit ==
    /\ public = TRUE
    /\ totals = [b \in Bucket |-> 0]
    /\ reads = [reads |-> 0, seconds |-> 0]
    /\ open = [p \in Sheet |-> Unopened]
    /\ counting = [p \in Sheet |-> <<>>]
    /\ beacons = {}

---------------------------------------------------------------------------
\* The server.

TakeOffline ==
    /\ public /\ public' = FALSE
    /\ UNCHANGED <<totals, reads, open, counting, beacons>>

\* The article is served; what is to be counted is written afterwards.
View(p) ==
    /\ public /\ open[p].pc = "unopened"
    /\ \E bot, shown \in BOOLEAN :
           /\ open' = [open EXCEPT ![p] = [Unopened EXCEPT !.pc = "open",
                                               !.shown = shown, !.timed = shown]]
           /\ counting' = [counting EXCEPT ![p] =
                  IF bot THEN <<"views", "daily", "device">>
                  ELSE <<"views", "daily", "device", "country", "referrer">>]
    /\ UNCHANGED <<public, totals, reads, beacons>>

\* Mutant: a write whose answer is lost is made again.
CountUntilAnswered(p) ==
    /\ counting[p] # <<>>
    /\ totals' = [totals EXCEPT ![Head(counting[p])] = @ + 1]
    /\ \/ counting' = [counting EXCEPT ![p] = Tail(@)]
       \/ UNCHANGED counting
    /\ UNCHANGED <<public, reads, open, beacons>>

\* One write, which may fail: then the rest is left.
CountOne(p) ==
    /\ counting[p] # <<>>
    /\ \/ /\ totals' = [totals EXCEPT ![Head(counting[p])] = @ + 1]
          /\ counting' = [counting EXCEPT ![p] = Tail(@)]
       \/ /\ counting' = [counting EXCEPT ![p] = <<>>]
          /\ UNCHANGED totals
    /\ UNCHANGED <<public, reads, open, beacons>>

\* A beacon arrives, or is lost; the article must still be published.
BeaconArrives ==
    /\ \E b \in beacons :
           /\ beacons' = beacons \ {b}
           /\ \/ public /\ reads' = [reads |-> reads.reads + 1, seconds |-> reads.seconds + b.seconds]
              \/ UNCHANGED reads
    /\ UNCHANGED <<public, totals, open, counting>>

---------------------------------------------------------------------------
\* The page.  Its clock is visibleSince, which runs while it is timed.

SecondPasses(p) ==
    /\ open[p].pc = "open" /\ open[p].shown /\ open[p].real < ReadingBound
    /\ open' = [open EXCEPT ![p].real = @ + 1, ![p].active = IF open[p].timed THEN @ + 1 ELSE @]
    /\ UNCHANGED <<public, totals, reads, counting, beacons>>

\* Mutant: every leaving reports the page.
SendsAgain(o) == o.active >= Shortest

Sends(o) == o.sent = 0 /\ o.active >= Shortest

\* send, which stops the clock too if nothing was sent before.
Report(p, o) ==
    /\ open' = [open EXCEPT ![p] = [o EXCEPT !.timed = IF o.sent = 0 THEN FALSE ELSE @,
                                             !.sent = IF Sends(o) THEN @ + 1 ELSE @]]
    /\ beacons' = IF Sends(o) THEN beacons \cup {[page |-> p, n |-> o.sent, seconds |-> o.active, real |-> o.real]}
                  ELSE beacons
    /\ UNCHANGED <<public, totals, reads, counting>>

\* onVisibility, to another tab.
Hide(p) ==
    /\ open[p].pc = "open" /\ open[p].shown
    /\ Report(p, [open[p] EXCEPT !.shown = FALSE, !.timed = FALSE])

Show(p) ==
    /\ open[p].pc = "open" /\ ~open[p].shown /\ open[p].turns < ReadingBound
    /\ open' = [open EXCEPT ![p].shown = TRUE, ![p].timed = TRUE, ![p].turns = @ + 1]
    /\ UNCHANGED <<public, totals, reads, counting, beacons>>

\* The page is left, and kept by the browser for the way back.
PageHide(p) ==
    /\ open[p].pc = "open"
    /\ Report(p, [open[p] EXCEPT !.shown = FALSE])

\* Another page of the site: the effect is cleaned up.
Unmount(p) ==
    /\ open[p].pc = "open"
    /\ Report(p, [open[p] EXCEPT !.pc = "left", !.shown = FALSE])

ReadingNext ==
    \/ TakeOffline \/ BeaconArrives
    \/ \E p \in Sheet :
           View(p) \/ CountOne(p) \/ SecondPasses(p) \/ Hide(p) \/ Show(p) \/ PageHide(p) \/ Unmount(p)

ReadingSpec == ReadingInit /\ [][ReadingNext]_readingVars

---------------------------------------------------------------------------
ReadingTypeOK ==
    /\ public \in BOOLEAN
    /\ totals \in [Bucket -> 0..Cardinality(Sheet)]
    /\ \A p \in Sheet : open[p].active \in 0..ReadingBound

\* What is lost is lost from the end: no bucket holds more than the one it
\* is a part of.
BucketsAgree ==
    /\ totals.views >= totals.daily /\ totals.daily >= totals.device
    /\ totals.device >= totals.country /\ totals.country >= totals.referrer
    /\ totals.views <= Cardinality({p \in Sheet : open[p].pc # "unopened"})

\* A page is read once, however often it is hidden and shown, and for no
\* longer than it was on the screen.
ReadOnce ==
    /\ reads.reads + Cardinality(beacons) <= Cardinality({p \in Sheet : open[p].pc # "unopened"})
    /\ \A b \in beacons : b.seconds = b.real

\* The figures of an article never tell of more reading than there was.
ReadingIsCounted == BucketsAgree /\ ReadOnce
=============================================================================
