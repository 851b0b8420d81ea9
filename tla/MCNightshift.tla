---------------------------- MODULE MCNightshift ----------------------------
(* Instances of Nightshift for TLC.                                           *)
EXTENDS Nightshift

CONSTANTS c1, c2

OneCard == <<c1>>
TwoCards == <<c1, c2>>
\* Who opens the run: the clock, or the operator's "Run now".
Clock == {"scheduler"}
Operator == {"manual"}
\* The directory listing shows the watchdog's artifact after the cards' own.
SummaryLast == [x \in Titles |-> CASE x = c1 -> 1 [] x = c2 -> 2 [] OTHER -> 3]
Room0or1 == {0, 1}
On == {TRUE}
OnOrOff == {TRUE, FALSE}
=============================================================================
