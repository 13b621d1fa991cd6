--------------------------- MODULE ApprovalContract ---------------------------
(***************************************************************************)
(* What the approval gate promises about the calls that have to ask, with  *)
(* no waiters, routes, timers or deciders: a request is opened once, its   *)
(* row is decided once, only an approved request is permitted, and only a  *)
(* permitted one is ever recorded as executed, once.                       *)
(***************************************************************************)
CONSTANTS Requests, Decisions, Approvals

VARIABLES row,        \* "none", "pending", or the decision
          permitted,  \* requests whose call was let through
          executed    \* requests recorded as executed

vars == <<row, permitted, executed>>

Init == /\ row = [r \in Requests |-> "none"]
        /\ permitted = {}
        /\ executed = [r \in Requests |-> FALSE]

Ask(r) == /\ row[r] = "none"
          /\ row' = [row EXCEPT ![r] = "pending"]
          /\ UNCHANGED <<permitted, executed>>

Decide(r, d) == /\ row[r] = "pending"
                /\ row' = [row EXCEPT ![r] = d]
                /\ UNCHANGED <<permitted, executed>>

(* Open requests are closed without an answer, several at a time.          *)
Expire(S) == /\ \A r \in S : row[r] = "pending"
             /\ row' = [r \in Requests |-> IF r \in S THEN "deny" ELSE row[r]]
             /\ UNCHANGED <<permitted, executed>>

Permit(r) == /\ row[r] \in Approvals /\ r \notin permitted
             /\ permitted' = permitted \cup {r}
             /\ UNCHANGED <<row, executed>>

Execute(r) == /\ r \in permitted /\ ~executed[r]
              /\ executed' = [executed EXCEPT ![r] = TRUE]
              /\ UNCHANGED <<row, permitted>>

Next == \/ \E r \in Requests : Ask(r) \/ Permit(r) \/ Execute(r)
        \/ \E r \in Requests, d \in Decisions : Decide(r, d)
        \/ \E S \in SUBSET Requests : Expire(S)

Spec == Init /\ [][Next]_vars

(* A recorded execution was permitted, and approved.                       *)
ExecutedWasApproved ==
    \A r \in Requests : executed[r] => r \in permitted /\ row[r] \in Approvals
===============================================================================
