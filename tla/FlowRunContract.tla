---------------------------- MODULE FlowRunContract ----------------------------
(***************************************************************************)
(* What the lifecycle of flow runs promises: the status of a run, who      *)
(* executes it, and how often its end was announced.  A run is begun once  *)
(* and paused by who executes it; a paused run is taken up by one call and *)
(* by nobody else; a settled run stays as it was settled until its row is  *)
(* pruned, and is announced at most once: as it is settled, or later.      *)
(* Runs are independent, and one step may concern several (a crash, a      *)
(* prune).                                                                 *)
(***************************************************************************)
CONSTANTS Runs, Calls

VARIABLES status, executors, announced

vars == <<status, executors, announced>>

Live    == {"running", "pending_approval"}
Settled == {"completed", "failed", "cancelled", "interrupted"}

Init ==
    /\ status = [r \in Runs |-> "none"]
    /\ executors = [r \in Runs |-> {}]
    /\ announced = [r \in Runs |-> 0]

Quiet(r) == announced'[r] = announced[r]

(* The row is best effort: a run may execute without one.                  *)
Begin(r) ==
    /\ status[r] = "none" /\ executors[r] = {}
    /\ status'[r] \in {"none", "running"}
    /\ \E a \in Calls : executors'[r] = {a}
    /\ Quiet(r)

Pause(r) ==
    /\ status[r] = "running" /\ status'[r] = "pending_approval"
    /\ executors[r] # {} /\ executors'[r] = {}
    /\ Quiet(r)

TakeUp(r) ==
    /\ status[r] = "pending_approval" /\ status'[r] = "running"
    /\ executors[r] = {} /\ \E a \in Calls : executors'[r] = {a}
    /\ Quiet(r)

(* By who executes it, or over its head.                                   *)
Settle(r) ==
    /\ status[r] \in Live /\ status'[r] \in Settled
    /\ executors'[r] \in {{}, executors[r]}
    /\ announced[r] = 0 /\ announced'[r] \in {0, 1}

(* Whoever executed it is gone and left the row as it was.                 *)
Stop(r) ==
    /\ executors[r] # {} /\ executors'[r] = {}
    /\ status'[r] = status[r] /\ Quiet(r)

(* Late, and of a run whose row may be pruned by then.                     *)
Announce(r) ==
    /\ status[r] \in Settled \cup {"pruned"} /\ status'[r] = status[r]
    /\ executors'[r] = executors[r]
    /\ announced[r] = 0 /\ announced'[r] = 1

Forget(r) ==
    /\ status[r] \in Settled /\ status'[r] = "pruned"
    /\ executors'[r] = executors[r] /\ Quiet(r)

Rest(r) == status'[r] = status[r] /\ executors'[r] = executors[r] /\ Quiet(r)

RunStep(r) ==
    \/ Begin(r) \/ Pause(r) \/ TakeUp(r) \/ Settle(r) \/ Stop(r)
    \/ Announce(r) \/ Forget(r) \/ Rest(r)

Next ==
    /\ DOMAIN status' = Runs /\ DOMAIN executors' = Runs /\ DOMAIN announced' = Runs
    /\ \A r \in Runs : RunStep(r)

Spec == Init /\ [][Next]_vars
===============================================================================
