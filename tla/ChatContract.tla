------------------------------ MODULE ChatContract ------------------------------
(***************************************************************************)
(* What the web channel promises for a message: it starts a turn, or joins *)
(* one that nobody has stopped, to be heard by that turn, cleared by the   *)
(* user, or sent on to a turn of its own once the turn it joined has been  *)
(* answered.  No turn is over before it is answered, or owed an answer by  *)
(* the stop that hit it, and no turn is stopped twice.                     *)
(***************************************************************************)
CONSTANTS Messages, NULL

VARIABLES
    stage,      \* unsent, called, joined, heard, cleared, turn or over
    owner,      \* the turn a message joined last
    answered,   \* turns whose client had a terminal event
    owed,       \* turns a stop hit and has yet to tell
    stopped     \* turns that were superseded or stopped

vars == <<stage, owner, answered, owed, stopped>>

Init ==
    /\ stage = [m \in Messages |-> "unsent"]
    /\ owner = [m \in Messages |-> NULL]
    /\ answered = {} /\ owed = {} /\ stopped = {}

Started   == {m \in Messages : stage[m] \in {"turn", "over"}}
Joined(h) == {m \in Messages : stage[m] = "joined" /\ owner[m] = h}
Settle(S, to) == [m \in Messages |-> IF m \in S THEN to ELSE stage[m]]

Send(m) ==
    /\ stage[m] = "unsent"
    /\ stage' = [stage EXCEPT ![m] = "called"]
    /\ UNCHANGED <<owner, answered, owed, stopped>>

Join(m, h) ==
    /\ stage[m] = "called" /\ h \in Started \ stopped
    /\ stage' = [stage EXCEPT ![m] = "joined"]
    /\ owner' = [owner EXCEPT ![m] = h]
    /\ UNCHANGED <<answered, owed, stopped>>

Hear(h, S) ==
    /\ stage[h] = "turn" /\ S \subseteq Joined(h)
    /\ stage' = Settle(S, "heard")
    /\ UNCHANGED <<owner, answered, owed, stopped>>

Clear(h, S) ==
    /\ h \in Started \ stopped /\ S \subseteq Joined(h)
    /\ stage' = Settle(S, "cleared")
    /\ UNCHANGED <<owner, answered, owed, stopped>>

(* The turn of m begins, in the place of at most one other, which is told. *)
Begin(m, old) ==
    /\ stage[m] = "called" /\ owner[m] \in {NULL} \cup answered
    /\ old \subseteq Started \ stopped /\ \A x, y \in old : x = y
    /\ stage' = [stage EXCEPT ![m] = "turn"]
    /\ answered' = answered \cup old
    /\ stopped' = stopped \cup old
    /\ UNCHANGED <<owner, owed>>

Answer(m) ==
    /\ stage[m] = "turn"
    /\ answered' = answered \cup {m}
    /\ UNCHANGED <<stage, owner, owed, stopped>>

(* A stop hits some turns, and later tells exactly those.                  *)
Stop(X) ==
    /\ X \subseteq Started \ stopped
    /\ owed' = owed \cup X /\ stopped' = stopped \cup X
    /\ UNCHANGED <<stage, owner, answered>>

Tell(X) ==
    /\ X \subseteq owed
    /\ owed' = owed \ X /\ answered' = answered \cup X
    /\ UNCHANGED <<stage, owner, stopped>>

(* A turn is over, and may send on what still waits on it.                 *)
End(m, S) ==
    /\ stage[m] = "turn" /\ m \in answered \cup owed
    /\ S \subseteq Joined(m) /\ (S # {} => m \in answered)
    /\ stage' = [Settle(S, "called") EXCEPT ![m] = "over"]
    /\ UNCHANGED <<owner, answered, owed, stopped>>

Next ==
    \/ \E m \in Messages : Send(m) \/ Answer(m)
    \/ \E m, h \in Messages : Join(m, h)
    \/ \E m \in Messages, S \in SUBSET Messages :
         Hear(m, S) \/ Clear(m, S) \/ Begin(m, S) \/ End(m, S)
    \/ \E X \in SUBSET Messages : Stop(X) \/ Tell(X)

Spec == Init /\ [][Next]_vars
===============================================================================
