------------------------- MODULE MCBackgroundDelivery -------------------------
(* Small instances of BackgroundDelivery for TLC: the sub-agents of one    *)
(* chat session.                                                           *)
EXTENDS BackgroundDelivery, TLC

CONSTANTS s1, th1

OneSession == [t \in Tasks |-> s1]
OneThread == [s \in Sessions |-> th1]
OneTurn == [s \in Sessions |-> 1]
TwoTurns == [s \in Sessions |-> 2]
ThreeTurns == [s \in Sessions |-> 3]

(* Attempts are alike, and so are the sub-agents of one session.           *)
Alike == Permutations(Attempts) \cup Permutations(Tasks)
=============================================================================
