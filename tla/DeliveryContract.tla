--------------------------- MODULE DeliveryContract ---------------------------
(***************************************************************************)
(* What the delivery of background results promises: a result that was     *)
(* handed in waits until it is carried to the chat of its session, with    *)
(* whatever else waits for that session, one batch of a session at a time. *)
(* A batch is delivered as a whole, or its results are put back one by     *)
(* one.  A result leaves otherwise only because the parent collected it or *)
(* its thread was deleted, and does not come back then.                    *)
(***************************************************************************)
EXTENDS Naturals

CONSTANTS Tasks, Sessions, Threads, SessionOf, ThreadOf

VARIABLES
    waiting,    \* results handed in
    carried,    \* the batch under way to each session
    delivered,  \* how often a result has reached the chat
    collected,  \* results the parent has fetched itself
    gone,       \* threads deleted
    closed      \* threads whose results were discarded

vars == <<waiting, carried, delivered, collected, gone, closed>>

Init ==
    /\ waiting = {} /\ collected = {} /\ gone = {} /\ closed = {}
    /\ carried = [s \in Sessions |-> {}]
    /\ delivered = [t \in Tasks |-> 0]

Of(s)   == {t \in Tasks : SessionOf[t] = s}
On(th)  == {t \in Tasks : ThreadOf[SessionOf[t]] = th}
Open(t) == t \notin collected /\ ThreadOf[SessionOf[t]] \notin closed
Carry(s, batch) == carried' = [carried EXCEPT ![s] = batch]

Accept(t) ==
    /\ Open(t)
    /\ waiting' = waiting \cup {t}
    /\ UNCHANGED <<carried, delivered, collected, gone, closed>>

Take(s) ==
    /\ carried[s] = {}
    /\ Carry(s, waiting \cap Of(s))
    /\ waiting' = waiting \ Of(s)
    /\ UNCHANGED <<delivered, collected, gone, closed>>

Deliver(s) ==
    /\ delivered' = [t \in Tasks |-> IF t \in carried[s] THEN delivered[t] + 1
                                                         ELSE delivered[t]]
    /\ Carry(s, {})
    /\ UNCHANGED <<waiting, collected, gone, closed>>

PutBack(s, t) ==
    /\ t \in carried[s]
    /\ Carry(s, carried[s] \ {t})
    /\ waiting' = IF Open(t) THEN waiting \cup {t} ELSE waiting
    /\ UNCHANGED <<delivered, collected, gone, closed>>

Collect(t) ==
    /\ collected' = collected \cup {t} /\ waiting' = waiting \ {t}
    /\ UNCHANGED <<carried, delivered, gone, closed>>

Delete(S) ==
    /\ gone' = gone \cup S
    /\ UNCHANGED <<waiting, carried, delivered, collected, closed>>

(* Only what belongs to deleted threads is discarded.                      *)
Close(th) ==
    /\ th \in gone
    /\ closed' = closed \cup {th} /\ waiting' = waiting \ On(th)
    /\ UNCHANGED <<carried, delivered, collected, gone>>

Clear ==
    /\ gone = Threads
    /\ waiting' = {}
    /\ UNCHANGED <<carried, delivered, collected, gone, closed>>

Next ==
    \/ \E t \in Tasks : Accept(t) \/ Collect(t)
    \/ \E s \in Sessions : Take(s) \/ Deliver(s) \/ \E t \in Tasks : PutBack(s, t)
    \/ \E S \in SUBSET Threads : Delete(S)
    \/ \E th \in Threads : Close(th)
    \/ Clear

Spec == Init /\ [][Next]_vars
===============================================================================
