---------------------------- MODULE MCApprovalGate ----------------------------
(* Small instances of the approval gate for TLC.                           *)
EXTENDS ApprovalGate, TLC

CONSTANTS t1, m1, f1, f2, x1

Chat(origin, thread, meeting, bounded) ==
    [origin |-> origin, tool |-> x1, flow |-> NULL, thread |-> thread,
     meeting |-> meeting, bounded |-> bounded]
OfFlow(origin, f) ==
    [origin |-> origin, tool |-> x1, flow |-> f, thread |-> NULL,
     meeting |-> NULL, bounded |-> FALSE]

(* A chat turn whose caller bounds the park, and a live meeting with the   *)
(* thread its card is shown on.                                            *)
ChatCalls    == {Chat("web_chat", t1, NULL, TRUE), Chat("external_channel", t1, m1, FALSE)}
BoundedCalls == {Chat("web_chat", t1, NULL, b) : b \in BOOLEAN}

(* What forces a review.                                                   *)
ReviewCalls == {Chat("goal", NULL, NULL, FALSE), OfFlow("review_flow", f1),
                OfFlow("review_flow", f2)}

Symmetry == Permutations(Requests) \cup Permutations(Handlers)
===============================================================================
