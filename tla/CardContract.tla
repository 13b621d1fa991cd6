----------------------------- MODULE CardContract -----------------------------
(***************************************************************************)
(* What the dispatcher promises for the cards of a board.  A card is       *)
(* claimed while it may be worked on and no other card is in progress, by  *)
(* a run of its own, for good.  The claim gives the run two credits: its   *)
(* outcome moves the card once, and so does a reclaim of the run; either   *)
(* may lapse unused, none comes back.  Until its outcome is written a run  *)
(* may block its card.  Nothing else the machine does moves a card that is *)
(* in progress, but for a triage that rejects it.                          *)
(***************************************************************************)
CONSTANTS Cards, Runs, NULL

VARIABLES
    card,       \* the status of each card
    claim,      \* the card of each run
    credit      \* the moves a run has left

vars == <<card, claim, credit>>

Init ==
    /\ card = [c \in Cards |-> "todo"]
    /\ claim = [r \in Runs |-> NULL]
    /\ credit = [r \in Runs |-> {}]

SetCard(c, status) == card' = [card EXCEPT ![c] = status]

Claim(c, r) ==
    /\ card[c] \in {"todo", "ready"}
    /\ \A b \in Cards : card[b] # "in_progress"
    /\ claim[r] = NULL
    /\ SetCard(c, "in_progress")
    /\ claim' = [claim EXCEPT ![r] = c]
    /\ credit' = [credit EXCEPT ![r] = {"outcome", "reclaim"}]

Spend(r, move, ways) ==
    /\ move \in credit[r]
    /\ credit' = [credit EXCEPT ![r] = @ \ {move}]
    /\ \E status \in ways : SetCard(claim[r], status)
    /\ UNCHANGED claim

WriteBack(r) == Spend(r, "outcome", {"done", "blocked"})
Reclaim(r)   == Spend(r, "reclaim", {"todo", "blocked"})

Lapse ==
    /\ DOMAIN credit' = Runs
    /\ \A r \in Runs : credit'[r] \subseteq credit[r]
    /\ UNCHANGED <<card, claim>>

SelfBlock(r) ==
    /\ "outcome" \in credit[r]
    /\ SetCard(claim[r], "blocked")
    /\ UNCHANGED <<claim, credit>>

(* The moves of a card that has no run at work.                            *)
Move(c, before, after) ==
    /\ card[c] \in before
    /\ \E status \in after : SetCard(c, status)
    /\ UNCHANGED <<claim, credit>>
Park(c)    == Move(c, {"todo"}, {"awaiting"})
Decide(c)  == Move(c, {"awaiting"}, {"ready", "rejected"})
Requeue(c) == Move(c, {"blocked", "rejected"}, {"todo"})

(* A triage that drops a trigger looked at the card before.                *)
Reject(c) ==
    /\ SetCard(c, "rejected")
    /\ UNCHANGED <<claim, credit>>

Next ==
    \/ \E c \in Cards, r \in Runs : Claim(c, r)
    \/ \E r \in Runs : WriteBack(r) \/ Reclaim(r) \/ SelfBlock(r)
    \/ \E c \in Cards : Park(c) \/ Decide(c) \/ Requeue(c) \/ Reject(c)
    \/ Lapse

Spec == Init /\ [][Next]_vars
===============================================================================
