------------------------- MODULE ApprovalGateProofs -------------------------
(***************************************************************************)
(* Proofs about the approval gate, for every set of requests, deciders,    *)
(* threads, meetings, flows and tools, with and without store faults.      *)
(***************************************************************************)
EXTENDS ApprovalGate, TLAPS

RowStates == {"none", "pending"} \cup Decisions

-------------------------------------------------------------------------------
(* The store keeps the shape of its table, and a decided row.              *)
LEMMA SweptType ==
    ASSUME row \in [Requests -> RowStates]
    PROVE  /\ Swept \in [Requests -> RowStates]
           /\ \A r \in Requests : /\ row[r] # "pending" => Swept[r] = row[r]
                                  /\ row[r] = "pending" => Swept[r] \in {"pending", "deny"}
BY DEF Swept, RowStates, Decisions

LEMMA DeniedIfOpenType ==
    ASSUME row \in [Requests -> RowStates], NEW q \in Requests
    PROVE  /\ DeniedIfOpen(q) \in [Requests -> RowStates]
           /\ \A r \in Requests :
                /\ row[r] # "pending" => DeniedIfOpen(q)[r] = row[r]
                /\ row[r] = "pending" => DeniedIfOpen(q)[r] \in {"pending", "deny"}
           /\ row[q] = "pending" => DeniedIfOpen(q)[q] = "deny"
BY SweptType DEF DeniedIfOpen, RowStates, Decisions

(* Sweeping, and closing an open row, leave every other row as it is.      *)
RowsKept ==
    \A r \in Requests : /\ row[r] # "pending" => row'[r] = row[r]
                        /\ row[r] = "pending" => row'[r] \in {"pending", "deny"}

LEMMA RowKept ==
    ASSUME row \in [Requests -> RowStates],
           \/ row' \in {row, Swept}
           \/ \E q \in Requests : row' \in {row, Swept, DeniedIfOpen(q)}
    PROVE  RowsKept
BY SweptType, DeniedIfOpenType DEF RowsKept, RowStates

-------------------------------------------------------------------------------
(* The inductive invariant.                                                *)

(* Whatever names a request names one that was intercepted.                *)
Known ==
    /\ \A r \in Requests : call[r] = NULL <=> phase[r] = "unused"
    /\ \A r \in Requests : call[r] = NULL => row[r] = "none"
    /\ \A t \in Threads  : threadRoute[t] # NULL => call[threadRoute[t]] # NULL
    /\ \A m \in Meetings : meetingRoute[m] # NULL => call[meetingRoute[m]] # NULL
    /\ \A h \in Handlers : handler[h].at # "idle" => call[handler[h].req] # NULL

(* Before its row exists a request has a waiter and no outcome.            *)
Undecided == {"unused", "registered", "parked", "expired", "rereading"}
Phased ==
    \A r \in Requests :
        /\ phase[r] \in {"unused", "registered"} => row[r] = "none"
        /\ phase[r] \in Undecided => outcome[r] = NULL
        /\ phase[r] = "registered" => r \in waiters
        /\ phase[r] = "ran" => outcome[r] = "allow"

(* A decider that notifies, or grants, decided the row itself.             *)
Heard ==
    \A h \in Handlers : handler[h].at \in {"notify", "holding", "grant"}
                           => row[handler[h].req] = handler[h].dec

IInv == /\ TypeOK /\ Known /\ Phased /\ Heard
        /\ DeliveredIsDurable /\ SenderNeverLost /\ AllowNeedsApproval
        /\ NoDeadRouting /\ TrustProvenance

-------------------------------------------------------------------------------
(* A decider at work has a request and a decision.                         *)
LEMMA HandlerShape ==
    ASSUME TypeOK, NEW h \in Handlers
    PROVE  /\ handler[h] = Idle <=> handler[h].at = "idle"
           /\ handler[h].at # "idle" =>
                handler[h].req \in Requests /\ handler[h].dec \in Decisions
BY DEF TypeOK, HandlerType, Idle

(* Where a step of one decider takes it; the others stay.                  *)
LEMMA FinishStep ==
    ASSUME TypeOK, NEW h \in Handlers, Finish(h)
    PROVE  /\ handler'[h].at = "idle"
           /\ \A k \in Handlers \ {h} : handler'[k] = handler[k]
BY DEF TypeOK, Finish, Idle

LEMMA GotoStep ==
    ASSUME TypeOK, NEW h \in Handlers, NEW p, Goto(h, p), handler[h].at # "idle"
    PROVE  /\ handler'[h].at = p
           /\ handler'[h].req = handler[h].req /\ handler'[h].dec = handler[h].dec
           /\ \A k \in Handlers \ {h} : handler'[k] = handler[k]
BY DEF TypeOK, Goto, HandlerType, Idle

(* However its target was chosen, a decider starts on a known request.     *)
LEMMA NextCases ==
    ASSUME TypeOK, Known, NEW h \in Handlers,
           \/ \E r \in Requests, d \in Offered : CardDecision(h, r, d)
           \/ \E t \in Threads, d \in Replies : ThreadReply(h, t, d)
           \/ \E m \in Meetings, d \in Replies : MeetingReply(h, m, d)
    PROVE  \E r \in Requests, d \in Decisions, g \in BOOLEAN :
               Target(h, r, d, g) /\ call[r] # NULL
<1>1. CASE \E r \in Requests, d \in Offered : CardDecision(h, r, d)
    <2> PICK r \in Requests, d \in Offered : CardDecision(h, r, d)
        BY <1>1
    <2>1. d \in Decisions /\ (d \in Standing) \in BOOLEAN
        BY OfferedAssumption
    <2>2. Target(h, r, d, d \in Standing) /\ call[r] # NULL
        BY DEF CardDecision, Known
    <2> QED
        BY <2>1, <2>2
<1>2. CASE \E t \in Threads, d \in Replies : ThreadReply(h, t, d)
    <2> PICK t \in Threads, d \in Replies : ThreadReply(h, t, d)
        BY <1>2
    <2>1. threadRoute[t] \in Requests /\ call[threadRoute[t]] # NULL
        BY DEF ThreadReply, TypeOK, Known
    <2> QED
        BY <2>1 DEF ThreadReply, Replies, Decisions
<1>3. CASE \E m \in Meetings, d \in Replies : MeetingReply(h, m, d)
    <2> PICK m \in Meetings, d \in Replies : MeetingReply(h, m, d)
        BY <1>3
    <2>1. meetingRoute[m] \in Requests /\ call[meetingRoute[m]] # NULL
        BY DEF MeetingReply, TypeOK, Known
    <2> QED
        BY <2>1 DEF MeetingReply, Replies, Decisions
<1> QED
    BY <1>1, <1>2, <1>3

-------------------------------------------------------------------------------
(* Type correctness.                                                       *)
LEMMA TypeStep == TypeOK /\ Known /\ [Next]_vars => TypeOK'
<1> SUFFICES ASSUME TypeOK, Known, [Next]_vars PROVE TypeOK'
    OBVIOUS
<1> USE DEF TypeOK, memoryVars, futureVars, storeVars, trustVars
<1>1. ASSUME NEW r \in Requests, NEW c \in Calls, Answer(r, c) PROVE TypeOK'
    BY <1>1, CallsAssumption DEF Answer, Phases, Outcomes
<1>2. ASSUME NEW r \in Requests, NEW c \in Calls, Register(r, c) PROVE TypeOK'
    BY <1>2, CallsAssumption DEF Register, Phases, Waiting
<1>3. ASSUME NEW r \in Requests, Persist(r) PROVE TypeOK'
    BY <1>3 DEF Persist, Phases, Waiting
<1>4. ASSUME NEW r \in Requests, PersistFails(r) PROVE TypeOK'
    BY <1>4 DEF PersistFails, Phases, Tearing, Outcomes
<1>5. ASSUME NEW r \in Requests, Wake(r) PROVE TypeOK'
    BY <1>5 DEF Wake, Close, Phases, Tearing, Outcomes
<1>6. ASSUME NEW r \in Requests, BoundElapses(r) PROVE TypeOK'
    BY <1>6 DEF BoundElapses, Close, Phases, Tearing, Outcomes
<1>7. ASSUME NEW r \in Requests, TtlElapses(r) PROVE TypeOK'
    BY <1>7 DEF TtlElapses, Phases, Tearing
<1>8. ASSUME NEW r \in Requests, DenyExpired(r) PROVE TypeOK'
    BY <1>8, DeniedIfOpenType DEF DenyExpired, Phases, Tearing, RowStates
<1>9. ASSUME NEW r \in Requests, Reread(r) PROVE TypeOK'
    BY <1>9 DEF Reread, Close, Phases, Tearing, Outcomes
<1>10. ASSUME NEW r \in Requests, ExpiryFails(r) PROVE TypeOK'
    BY <1>10, DeniedIfOpenType, SweptType
    DEF ExpiryFails, Close, Phases, Tearing, Outcomes, RowStates
<1>11. ASSUME NEW r \in Requests, ClearRoutes(r) PROVE TypeOK'
    BY <1>11 DEF ClearRoutes, ClearedRoute, Phases
<1>12. ASSUME NEW r \in Requests, TearDown(r) PROVE TypeOK'
    BY <1>12 DEF TearDown, Phases, Tearing, Outcomes
<1>13. ASSUME NEW r \in Requests, DenyTorn(r) PROVE TypeOK'
    BY <1>13, DeniedIfOpenType, SweptType DEF DenyTorn, Phases, RowStates
<1>14. ASSUME NEW r \in Requests, RunTool(r) PROVE TypeOK'
    BY <1>14 DEF RunTool, Phases
<1>15. ASSUME NEW r \in Requests, RecordExecution(r) PROVE TypeOK'
    BY <1>15 DEF RecordExecution, Phases
<1>16. ASSUME NEW r \in Requests, Deadline(r) PROVE TypeOK'
    BY <1>16 DEF Deadline
<1>17. ASSUME NEW h \in Handlers, NEW r \in Requests, NEW d \in Decisions,
              NEW g \in BOOLEAN, Target(h, r, d, g), call[r] # NULL
       PROVE  TypeOK'
    BY <1>17 DEF Target, HandlerType
<1>18. ASSUME NEW h \in Handlers, DecideSweep(h) PROVE TypeOK'
    BY <1>18, SweptType DEF DecideSweep, Goto, Finish, HandlerType, Idle, RowStates
<1>19. ASSUME NEW h \in Handlers, DecideCommit(h) PROVE TypeOK'
    BY <1>19 DEF DecideCommit, Goto, Finish, HandlerType, Idle
<1>20. ASSUME NEW h \in Handlers, TakeWaiter(h) PROVE TypeOK'
    BY <1>20 DEF TakeWaiter, AfterNotify, Goto, Finish, HandlerType, Idle
<1>21. ASSUME NEW h \in Handlers, Send(h) PROVE TypeOK'
    BY <1>21 DEF Send, AfterNotify, Goto, Finish, HandlerType, Idle
<1>22. ASSUME NEW h \in Handlers, GrantStanding(h) PROVE TypeOK'
    BY <1>22, HandlerShape
    DEF GrantStanding, NewTools, NewTrust, Grant, Finish, HandlerType, Idle, Known, CallType
<1>23. ASSUME ListPending PROVE TypeOK'
    BY <1>23, SweptType DEF ListPending, RowStates
<1>24. ASSUME NEW list \in SUBSET Tools, NEW all \in BOOLEAN, ApplySettings(list, all)
       PROVE  TypeOK'
    BY <1>24, BoundsAssumption DEF ApplySettings, Edit
<1>25. ASSUME NEW f \in Flows, NEW x \in Tools, Preauthorize(f, x) PROVE TypeOK'
    BY <1>25, BoundsAssumption DEF Preauthorize, Edit
<1>26. ASSUME NEW f \in Flows, DeleteFlow(f) PROVE TypeOK'
    BY <1>26, BoundsAssumption DEF DeleteFlow, Edit
<1>27. ASSUME Restart PROVE TypeOK'
    BY <1>27, BoundsAssumption DEF Restart, Phases, HandlerType
<1>28. CASE UNCHANGED vars
    BY <1>28 DEF vars
<1> QED
    BY NextCases, <1>1, <1>2, <1>3, <1>4, <1>5, <1>6, <1>7, <1>8, <1>9,
       <1>10, <1>11, <1>12, <1>13, <1>14, <1>15, <1>16, <1>17, <1>18, <1>19,
       <1>20, <1>21, <1>22, <1>23, <1>24, <1>25, <1>26, <1>27, <1>28
    DEF Next, Progress, Decide

-------------------------------------------------------------------------------
(* Every step keeps the rest of the invariant.                             *)
LEMMA SafetyStep == IInv /\ [Next]_vars => IInv'
<1> SUFFICES ASSUME IInv, [Next]_vars PROVE IInv'
    OBVIOUS
<1>0. TypeOK'
    BY TypeStep DEF IInv
<1> USE <1>0, NullDecision DEF IInv, RowStates, TypeOK, Decisions, Approvals,
        futureVars, memoryVars, storeVars, trustVars
<1>1. ASSUME NEW r \in Requests, NEW c \in Calls, Answer(r, c) PROVE IInv'
  <2>1. Known'
    BY <1>1, CallsAssumption DEF Answer, Known
  <2>2. Phased'
    BY <1>1, CallsAssumption DEF Answer, Phased, Undecided
  <2>3. SenderNeverLost'
    BY <1>1, CallsAssumption DEF Answer, SenderNeverLost
  <2>4. AllowNeedsApproval'
    BY <1>1, CallsAssumption DEF Answer, AllowNeedsApproval, AskedAndAllowed, Phased,
       Undecided
  <2>5. NoDeadRouting'
    BY <1>1, CallsAssumption DEF Answer, NoDeadRouting, Waiting, Tearing
  <2>6. TrustProvenance'
    BY <1>1, CallsAssumption DEF Answer, TrustProvenance, Phased, Undecided
  <2>7. Heard' /\ DeliveredIsDurable'
    BY <1>1 DEF Answer, Heard, DeliveredIsDurable
  <2> QED
    BY <2>1, <2>2, <2>3, <2>4, <2>5, <2>6, <2>7
<1>2. ASSUME NEW r \in Requests, NEW c \in Calls, Register(r, c) PROVE IInv'
  <2>1. Known'
    BY <1>2, CallsAssumption DEF Register, Known
  <2>2. Phased'
    BY <1>2, CallsAssumption DEF Register, Phased, Undecided
  <2>3. SenderNeverLost'
    BY <1>2, CallsAssumption DEF Register, SenderNeverLost
  <2>4. NoDeadRouting'
    BY <1>2, CallsAssumption DEF Register, NoDeadRouting, Waiting, Tearing
  <2>5. TrustProvenance'
    BY <1>2, CallsAssumption DEF Register, TrustProvenance, Phased, Undecided
  <2>6. Heard' /\ DeliveredIsDurable' /\ AllowNeedsApproval'
    BY <1>2 DEF Register, Heard, DeliveredIsDurable, AllowNeedsApproval,
       AskedAndAllowed
  <2> QED
    BY <2>1, <2>2, <2>3, <2>4, <2>5, <2>6
<1>3. ASSUME NEW r \in Requests, Persist(r) PROVE IInv'
  <2>1. Known'
    BY <1>3 DEF Persist, Known
  <2>2. Phased'
    BY <1>3 DEF Persist, Phased, Undecided
  <2>3. Heard'
    BY <1>3, HandlerShape DEF Persist, Heard, Phased, Undecided
  <2>4. DeliveredIsDurable'
    BY <1>3 DEF Persist, DeliveredIsDurable, Phased, Undecided
  <2>5. SenderNeverLost'
    BY <1>3 DEF Persist, SenderNeverLost, Phased, Undecided
  <2>6. AllowNeedsApproval'
    BY <1>3 DEF Persist, AllowNeedsApproval, AskedAndAllowed, Phased, Undecided
  <2>7. NoDeadRouting'
    BY <1>3 DEF Persist, NoDeadRouting, Waiting, Tearing
  <2>8. TrustProvenance'
    BY <1>3 DEF Persist, TrustProvenance, Phased, Undecided
  <2> QED
    BY <2>1, <2>2, <2>3, <2>4, <2>5, <2>6, <2>7, <2>8
<1>4. ASSUME NEW r \in Requests, PersistFails(r) PROVE IInv'
  <2>1. Known'
    BY <1>4 DEF PersistFails, Known
  <2>2. Phased'
    BY <1>4 DEF PersistFails, Phased, Undecided
  <2>3. SenderNeverLost'
    BY <1>4 DEF PersistFails, SenderNeverLost
  <2>4. AllowNeedsApproval'
    BY <1>4 DEF PersistFails, AllowNeedsApproval, AskedAndAllowed
  <2>5. NoDeadRouting'
    BY <1>4 DEF PersistFails, NoDeadRouting, Waiting, Tearing
  <2>6. Heard' /\ DeliveredIsDurable' /\ TrustProvenance'
    BY <1>4 DEF PersistFails, Heard, DeliveredIsDurable, TrustProvenance
  <2> QED
    BY <2>1, <2>2, <2>3, <2>4, <2>5, <2>6
<1>5. ASSUME NEW r \in Requests, Wake(r) PROVE IInv'
  <2>1. Known'
    BY <1>5 DEF Wake, Close, Known
  <2>2. Phased'
    BY <1>5 DEF Wake, Close, Phased, Undecided
  <2>3. SenderNeverLost'
    BY <1>5 DEF Wake, Close, SenderNeverLost
  <2>4. AllowNeedsApproval'
    BY <1>5 DEF Wake, Close, AllowNeedsApproval, AskedAndAllowed, DeliveredIsDurable
  <2>5. NoDeadRouting'
    BY <1>5 DEF Wake, Close, NoDeadRouting, Waiting, Tearing
  <2>6. Heard' /\ DeliveredIsDurable' /\ TrustProvenance'
    BY <1>5 DEF Wake, Close, Heard, DeliveredIsDurable, TrustProvenance
  <2> QED
    BY <2>1, <2>2, <2>3, <2>4, <2>5, <2>6
<1>6. ASSUME NEW r \in Requests, BoundElapses(r) PROVE IInv'
  <2>1. Known'
    BY <1>6 DEF BoundElapses, Close, Known
  <2>2. Phased'
    BY <1>6 DEF BoundElapses, Close, Phased, Undecided
  <2>3. SenderNeverLost'
    BY <1>6 DEF BoundElapses, Close, SenderNeverLost
  <2>4. AllowNeedsApproval'
    BY <1>6 DEF BoundElapses, Close, AllowNeedsApproval, AskedAndAllowed
  <2>5. NoDeadRouting'
    BY <1>6 DEF BoundElapses, Close, NoDeadRouting, Waiting, Tearing
  <2>6. Heard' /\ DeliveredIsDurable' /\ TrustProvenance'
    BY <1>6 DEF BoundElapses, Close, Heard, DeliveredIsDurable, TrustProvenance
  <2> QED
    BY <2>1, <2>2, <2>3, <2>4, <2>5, <2>6
<1>7. ASSUME NEW r \in Requests, TtlElapses(r) PROVE IInv'
  <2>1. Known'
    BY <1>7 DEF TtlElapses, Known
  <2>2. Phased'
    BY <1>7 DEF TtlElapses, Phased, Undecided
  <2>3. SenderNeverLost'
    BY <1>7 DEF TtlElapses, SenderNeverLost
  <2>4. NoDeadRouting'
    BY <1>7 DEF TtlElapses, NoDeadRouting, Waiting, Tearing
  <2>5. Heard' /\ DeliveredIsDurable' /\ AllowNeedsApproval' /\ TrustProvenance'
    BY <1>7 DEF TtlElapses, Heard, DeliveredIsDurable, AllowNeedsApproval,
       TrustProvenance, AskedAndAllowed
  <2> QED
    BY <2>1, <2>2, <2>3, <2>4, <2>5
<1>8. ASSUME NEW r \in Requests, DenyExpired(r) PROVE IInv'
  <2>0. RowsKept
    BY <1>8, RowKept DEF DenyExpired
  <2>1. Known'
    BY <1>8, <2>0 DEF DenyExpired, Known, RowsKept
  <2>2. Phased'
    BY <1>8, <2>0 DEF DenyExpired, Phased, Undecided, RowsKept
  <2>3. Heard'
    BY <1>8, <2>0, HandlerShape DEF DenyExpired, Heard, RowsKept
  <2>4. DeliveredIsDurable'
    BY <1>8, <2>0 DEF DenyExpired, DeliveredIsDurable, RowsKept
  <2>5. SenderNeverLost'
    BY <1>8 DEF DenyExpired, SenderNeverLost
  <2>6. AllowNeedsApproval'
    BY <1>8, <2>0 DEF DenyExpired, AllowNeedsApproval, AskedAndAllowed, RowsKept
  <2>7. NoDeadRouting'
    BY <1>8 DEF DenyExpired, NoDeadRouting, Waiting, Tearing
  <2>8. TrustProvenance'
    BY <1>8, <2>0 DEF DenyExpired, TrustProvenance, RowsKept
  <2> QED
    BY <2>1, <2>2, <2>3, <2>4, <2>5, <2>6, <2>7, <2>8
<1>9. ASSUME NEW r \in Requests, Reread(r) PROVE IInv'
  <2>1. Known'
    BY <1>9 DEF Reread, Close, Known
  <2>2. Phased'
    BY <1>9 DEF Reread, Close, Phased, Undecided
  <2>3. SenderNeverLost'
    BY <1>9 DEF Reread, Close, SenderNeverLost
  <2>4. AllowNeedsApproval'
    BY <1>9 DEF Reread, Close, AllowNeedsApproval, AskedAndAllowed
  <2>5. NoDeadRouting'
    BY <1>9 DEF Reread, Close, NoDeadRouting, Waiting, Tearing
  <2>6. Heard' /\ DeliveredIsDurable' /\ TrustProvenance'
    BY <1>9 DEF Reread, Close, Heard, DeliveredIsDurable, TrustProvenance
  <2> QED
    BY <2>1, <2>2, <2>3, <2>4, <2>5, <2>6
<1>10. ASSUME NEW r \in Requests, ExpiryFails(r) PROVE IInv'
  <2>0. RowsKept
    BY <1>10, RowKept DEF ExpiryFails, Close
  <2>1. Known'
    BY <1>10, <2>0 DEF ExpiryFails, Close, Known, RowsKept
  <2>2. Phased'
    BY <1>10, <2>0 DEF ExpiryFails, Close, Phased, Undecided, RowsKept
  <2>3. Heard'
    BY <1>10, <2>0, HandlerShape DEF ExpiryFails, Close, Heard, RowsKept
  <2>4. DeliveredIsDurable'
    BY <1>10, <2>0 DEF ExpiryFails, Close, DeliveredIsDurable, RowsKept
  <2>5. SenderNeverLost'
    BY <1>10 DEF ExpiryFails, Close, SenderNeverLost
  <2>6. AllowNeedsApproval'
    BY <1>10, <2>0 DEF ExpiryFails, Close, AllowNeedsApproval, AskedAndAllowed,
       RowsKept
  <2>7. NoDeadRouting'
    BY <1>10 DEF ExpiryFails, Close, NoDeadRouting, Waiting, Tearing
  <2>8. TrustProvenance'
    BY <1>10, <2>0 DEF ExpiryFails, Close, TrustProvenance, RowsKept
  <2> QED
    BY <2>1, <2>2, <2>3, <2>4, <2>5, <2>6, <2>7, <2>8
<1>11. ASSUME NEW r \in Requests, ClearRoutes(r) PROVE IInv'
  <2>1. Known'
    BY <1>11 DEF ClearRoutes, ClearedRoute, Known
  <2>2. Phased'
    BY <1>11 DEF ClearRoutes, ClearedRoute, Phased, Undecided
  <2>3. SenderNeverLost'
    BY <1>11 DEF ClearRoutes, ClearedRoute, SenderNeverLost
  <2>4. NoDeadRouting'
    BY <1>11 DEF ClearRoutes, ClearedRoute, NoDeadRouting, Waiting, Tearing
  <2>5. Heard' /\ DeliveredIsDurable' /\ AllowNeedsApproval' /\ TrustProvenance'
    BY <1>11 DEF ClearRoutes, ClearedRoute, Heard, DeliveredIsDurable,
       AllowNeedsApproval, TrustProvenance, AskedAndAllowed
  <2> QED
    BY <2>1, <2>2, <2>3, <2>4, <2>5
<1>12. ASSUME NEW r \in Requests, TearDown(r) PROVE IInv'
  <2>1. Known'
    BY <1>12 DEF TearDown, Known
  <2>2. Phased'
    BY <1>12 DEF TearDown, Phased, Undecided
  <2>3. SenderNeverLost'
    BY <1>12 DEF TearDown, SenderNeverLost
  <2>4. AllowNeedsApproval'
    BY <1>12 DEF TearDown, AllowNeedsApproval, AskedAndAllowed
  <2>5. NoDeadRouting'
    BY <1>12 DEF TearDown, NoDeadRouting, Waiting, Tearing
  <2>6. Heard' /\ DeliveredIsDurable' /\ TrustProvenance'
    BY <1>12 DEF TearDown, Heard, DeliveredIsDurable, TrustProvenance
  <2> QED
    BY <2>1, <2>2, <2>3, <2>4, <2>5, <2>6
<1>13. ASSUME NEW r \in Requests, DenyTorn(r) PROVE IInv'
  <2>0. RowsKept
    BY <1>13, RowKept DEF DenyTorn
  <2>1. Known'
    BY <1>13, <2>0 DEF DenyTorn, Known, RowsKept
  <2>2. Phased'
    BY <1>13, <2>0 DEF DenyTorn, Phased, Undecided, RowsKept
  <2>3. Heard'
    BY <1>13, <2>0, HandlerShape DEF DenyTorn, Heard, RowsKept
  <2>4. DeliveredIsDurable'
    BY <1>13, <2>0 DEF DenyTorn, DeliveredIsDurable, RowsKept
  <2>5. SenderNeverLost'
    BY <1>13 DEF DenyTorn, SenderNeverLost
  <2>6. AllowNeedsApproval'
    BY <1>13, <2>0 DEF DenyTorn, AllowNeedsApproval, AskedAndAllowed, RowsKept
  <2>7. NoDeadRouting'
    BY <1>13 DEF DenyTorn, NoDeadRouting, Waiting, Tearing
  <2>8. TrustProvenance'
    BY <1>13, <2>0 DEF DenyTorn, TrustProvenance, RowsKept
  <2> QED
    BY <2>1, <2>2, <2>3, <2>4, <2>5, <2>6, <2>7, <2>8
<1>14. ASSUME NEW r \in Requests, RunTool(r) PROVE IInv'
  <2>1. Known'
    BY <1>14 DEF RunTool, Known
  <2>2. Phased'
    BY <1>14 DEF RunTool, Phased, Undecided
  <2>3. SenderNeverLost'
    BY <1>14 DEF RunTool, SenderNeverLost
  <2>4. NoDeadRouting'
    BY <1>14 DEF RunTool, NoDeadRouting, Waiting, Tearing
  <2>5. Heard' /\ DeliveredIsDurable' /\ AllowNeedsApproval' /\ TrustProvenance'
    BY <1>14 DEF RunTool, Heard, DeliveredIsDurable, AllowNeedsApproval,
       TrustProvenance, AskedAndAllowed
  <2> QED
    BY <2>1, <2>2, <2>3, <2>4, <2>5
<1>15. ASSUME NEW r \in Requests, RecordExecution(r) PROVE IInv'
  <2>1. Known'
    BY <1>15 DEF RecordExecution, Known
  <2>2. Phased'
    BY <1>15 DEF RecordExecution, Phased, Undecided
  <2>3. SenderNeverLost'
    BY <1>15 DEF RecordExecution, SenderNeverLost
  <2>4. NoDeadRouting'
    BY <1>15 DEF RecordExecution, NoDeadRouting, Waiting, Tearing
  <2>5. Heard' /\ DeliveredIsDurable' /\ AllowNeedsApproval' /\ TrustProvenance'
    BY <1>15 DEF RecordExecution, Heard, DeliveredIsDurable, AllowNeedsApproval,
       TrustProvenance, AskedAndAllowed
  <2> QED
    BY <2>1, <2>2, <2>3, <2>4, <2>5
<1>16. ASSUME NEW r \in Requests, Deadline(r) PROVE IInv'
  <2>1. Known' /\ Phased' /\ Heard' /\ DeliveredIsDurable' /\ SenderNeverLost' /\
     AllowNeedsApproval' /\ NoDeadRouting' /\ TrustProvenance'
    BY <1>16 DEF Deadline, Known, Phased, Heard, DeliveredIsDurable, SenderNeverLost,
       AllowNeedsApproval, NoDeadRouting, TrustProvenance, AskedAndAllowed, Waiting,
       Tearing
  <2> QED
    BY <2>1
<1>17. ASSUME NEW h \in Handlers, NEW r \in Requests, NEW d \in Decisions,
              NEW g \in BOOLEAN, Target(h, r, d, g), call[r] # NULL
      PROVE IInv'
  <2>1. Known'
    BY <1>17, HandlerShape DEF Target, Known
  <2>2. Heard'
    BY <1>17, HandlerShape DEF Target, Heard
  <2>3. SenderNeverLost'
    BY <1>17, HandlerShape DEF Target, SenderNeverLost
  <2>4. Phased' /\ DeliveredIsDurable' /\ AllowNeedsApproval' /\ NoDeadRouting' /\
     TrustProvenance'
    BY <1>17 DEF Target, Phased, DeliveredIsDurable, AllowNeedsApproval, NoDeadRouting,
       TrustProvenance, AskedAndAllowed, Waiting, Tearing
  <2> QED
    BY <2>1, <2>2, <2>3, <2>4
<1>18. ASSUME NEW h \in Handlers, DecideSweep(h) PROVE IInv'
  <2>0. RowsKept
    BY <1>18, RowKept DEF DecideSweep
  <2>1. Known'
    BY <1>18, <2>0, HandlerShape, FinishStep, GotoStep DEF DecideSweep, Known, RowsKept
  <2>2. Phased'
    BY <1>18, <2>0, HandlerShape, FinishStep, GotoStep DEF DecideSweep, Phased,
       Undecided, RowsKept
  <2>3. Heard'
    BY <1>18, <2>0, HandlerShape, FinishStep, GotoStep DEF DecideSweep, Heard, RowsKept
  <2>4. DeliveredIsDurable'
    BY <1>18, <2>0, HandlerShape, FinishStep, GotoStep DEF DecideSweep,
       DeliveredIsDurable, RowsKept
  <2>5. SenderNeverLost'
    BY <1>18, HandlerShape, FinishStep, GotoStep DEF DecideSweep, SenderNeverLost
  <2>6. AllowNeedsApproval'
    BY <1>18, <2>0, HandlerShape, FinishStep, GotoStep DEF DecideSweep,
       AllowNeedsApproval, AskedAndAllowed, RowsKept
  <2>7. TrustProvenance'
    BY <1>18, <2>0, HandlerShape, FinishStep, GotoStep DEF DecideSweep,
       TrustProvenance, RowsKept
  <2>8. NoDeadRouting'
    BY <1>18 DEF DecideSweep, NoDeadRouting, Waiting, Tearing
  <2> QED
    BY <2>1, <2>2, <2>3, <2>4, <2>5, <2>6, <2>7, <2>8
<1>19. ASSUME NEW h \in Handlers, DecideCommit(h) PROVE IInv'
  <2>1. Known'
    BY <1>19, HandlerShape, FinishStep, GotoStep DEF DecideCommit, Known
  <2>2. Phased'
    BY <1>19, HandlerShape, FinishStep, GotoStep DEF DecideCommit, Phased, Undecided
  <2>3. Heard'
    BY <1>19, HandlerShape, FinishStep, GotoStep DEF DecideCommit, Heard
  <2>4. DeliveredIsDurable'
    BY <1>19, HandlerShape, FinishStep, GotoStep DEF DecideCommit, DeliveredIsDurable
  <2>5. SenderNeverLost'
    BY <1>19, HandlerShape, FinishStep, GotoStep DEF DecideCommit, SenderNeverLost
  <2>6. AllowNeedsApproval'
    BY <1>19, HandlerShape, FinishStep, GotoStep DEF DecideCommit, AllowNeedsApproval,
       AskedAndAllowed
  <2>7. TrustProvenance'
    BY <1>19, HandlerShape, FinishStep, GotoStep DEF DecideCommit, TrustProvenance
  <2>8. NoDeadRouting'
    BY <1>19 DEF DecideCommit, NoDeadRouting, Waiting, Tearing
  <2> QED
    BY <2>1, <2>2, <2>3, <2>4, <2>5, <2>6, <2>7, <2>8
<1>20. ASSUME NEW h \in Handlers, TakeWaiter(h) PROVE IInv'
  <2>1. Known'
    BY <1>20, HandlerShape, FinishStep, GotoStep DEF TakeWaiter, AfterNotify, Known
  <2>2. Phased'
    BY <1>20, HandlerShape, FinishStep, GotoStep DEF TakeWaiter, AfterNotify, Phased,
       Heard, Undecided
  <2>3. Heard'
    BY <1>20, HandlerShape, FinishStep, GotoStep DEF TakeWaiter, AfterNotify, Heard
  <2>4. SenderNeverLost'
    BY <1>20, HandlerShape, FinishStep, GotoStep DEF TakeWaiter, AfterNotify,
       SenderNeverLost
  <2>5. DeliveredIsDurable' /\ AllowNeedsApproval' /\ NoDeadRouting' /\
     TrustProvenance'
    BY <1>20 DEF TakeWaiter, AfterNotify, DeliveredIsDurable, AllowNeedsApproval,
       NoDeadRouting, TrustProvenance, AskedAndAllowed, Waiting, Tearing
  <2> QED
    BY <2>1, <2>2, <2>3, <2>4, <2>5
<1>21. ASSUME NEW h \in Handlers, Send(h) PROVE IInv'
  <2>1. Known'
    BY <1>21, HandlerShape, FinishStep, GotoStep DEF Send, AfterNotify, Known
  <2>2. Heard'
    BY <1>21, HandlerShape, FinishStep, GotoStep DEF Send, AfterNotify, Heard
  <2>3. DeliveredIsDurable'
    BY <1>21, HandlerShape, FinishStep, GotoStep DEF Send, AfterNotify,
       DeliveredIsDurable, Heard
  <2>4. SenderNeverLost'
    BY <1>21, HandlerShape, FinishStep, GotoStep DEF Send, AfterNotify, SenderNeverLost
  <2>5. Phased' /\ AllowNeedsApproval' /\ NoDeadRouting' /\ TrustProvenance'
    BY <1>21 DEF Send, AfterNotify, Phased, AllowNeedsApproval, NoDeadRouting,
       TrustProvenance, AskedAndAllowed, Waiting, Tearing
  <2> QED
    BY <2>1, <2>2, <2>3, <2>4, <2>5
<1>22. ASSUME NEW h \in Handlers, GrantStanding(h) PROVE IInv'
  <2>1. Known'
    BY <1>22, HandlerShape, FinishStep DEF GrantStanding, Known
  <2>2. Heard'
    BY <1>22, HandlerShape, FinishStep DEF GrantStanding, Heard
  <2>3. SenderNeverLost'
    BY <1>22, HandlerShape, FinishStep DEF GrantStanding, SenderNeverLost
  <2>4. TrustProvenance'
    BY <1>22, HandlerShape, FinishStep DEF GrantStanding, TrustProvenance, NewTrust,
       Heard, Known
  <2>5. Phased' /\ DeliveredIsDurable' /\ AllowNeedsApproval' /\ NoDeadRouting'
    BY <1>22 DEF GrantStanding, Phased, DeliveredIsDurable, AllowNeedsApproval,
       NoDeadRouting, AskedAndAllowed, Waiting, Tearing
  <2> QED
    BY <2>1, <2>2, <2>3, <2>4, <2>5
<1>23. ASSUME ListPending PROVE IInv'
  <2>0. RowsKept
    BY <1>23, RowKept DEF ListPending
  <2>1. Known'
    BY <1>23, <2>0 DEF ListPending, Known, RowsKept
  <2>2. Phased'
    BY <1>23, <2>0 DEF ListPending, Phased, Undecided, RowsKept
  <2>3. Heard'
    BY <1>23, <2>0, HandlerShape DEF ListPending, Heard, RowsKept
  <2>4. DeliveredIsDurable'
    BY <1>23, <2>0 DEF ListPending, DeliveredIsDurable, RowsKept
  <2>5. AllowNeedsApproval'
    BY <1>23, <2>0 DEF ListPending, AllowNeedsApproval, AskedAndAllowed, RowsKept
  <2>6. TrustProvenance'
    BY <1>23, <2>0 DEF ListPending, TrustProvenance, RowsKept
  <2>7. SenderNeverLost' /\ NoDeadRouting'
    BY <1>23 DEF ListPending, SenderNeverLost, NoDeadRouting, Waiting, Tearing
  <2> QED
    BY <2>1, <2>2, <2>3, <2>4, <2>5, <2>6, <2>7
<1>24. ASSUME NEW list \in SUBSET Tools, NEW all \in BOOLEAN, ApplySettings(list, all)
       PROVE  IInv'
  <2>1. Known' /\ Phased' /\ Heard' /\ DeliveredIsDurable' /\ SenderNeverLost' /\
     AllowNeedsApproval' /\ NoDeadRouting' /\ TrustProvenance'
    BY <1>24 DEF ApplySettings, Edit, Known, Phased, Heard, DeliveredIsDurable,
       SenderNeverLost, AllowNeedsApproval, NoDeadRouting, TrustProvenance,
       AskedAndAllowed, Waiting, Tearing
  <2> QED
    BY <2>1
<1>25. ASSUME NEW f \in Flows, NEW x \in Tools, Preauthorize(f, x) PROVE IInv'
  <2>1. TrustProvenance'
    BY <1>25 DEF Preauthorize, Edit, TrustProvenance
  <2>2. Known' /\ Phased' /\ Heard' /\ DeliveredIsDurable' /\ SenderNeverLost' /\
     AllowNeedsApproval' /\ NoDeadRouting'
    BY <1>25 DEF Preauthorize, Edit, Known, Phased, Heard, DeliveredIsDurable,
       SenderNeverLost, AllowNeedsApproval, NoDeadRouting, AskedAndAllowed, Waiting,
       Tearing
  <2> QED
    BY <2>1, <2>2
<1>26. ASSUME NEW f \in Flows, DeleteFlow(f) PROVE IInv'
  <2>1. TrustProvenance'
    BY <1>26 DEF DeleteFlow, Edit, TrustProvenance
  <2>2. Known' /\ Phased' /\ Heard' /\ DeliveredIsDurable' /\ SenderNeverLost' /\
     AllowNeedsApproval' /\ NoDeadRouting'
    BY <1>26 DEF DeleteFlow, Edit, Known, Phased, Heard, DeliveredIsDurable,
       SenderNeverLost, AllowNeedsApproval, NoDeadRouting, AskedAndAllowed, Waiting,
       Tearing
  <2> QED
    BY <2>1, <2>2
<1>27. ASSUME Restart PROVE IInv'
  <2>1. Known'
    BY <1>27 DEF Restart, Idle, Known
  <2>2. Phased'
    BY <1>27 DEF Restart, Idle, Phased, Undecided
  <2>3. Heard'
    BY <1>27, HandlerShape DEF Restart, Idle, Heard
  <2>4. DeliveredIsDurable'
    BY <1>27 DEF Restart, Idle, DeliveredIsDurable
  <2>5. SenderNeverLost'
    BY <1>27 DEF Restart, Idle, SenderNeverLost
  <2>6. NoDeadRouting'
    BY <1>27 DEF Restart, Idle, NoDeadRouting, Waiting, Tearing
  <2>7. AllowNeedsApproval' /\ TrustProvenance'
    BY <1>27 DEF Restart, Idle, AllowNeedsApproval, TrustProvenance, AskedAndAllowed
  <2> QED
    BY <2>1, <2>2, <2>3, <2>4, <2>5, <2>6, <2>7
<1>28. CASE UNCHANGED vars
    BY <1>28 DEF vars, Known, Phased, Heard, DeliveredIsDurable, SenderNeverLost,
       AllowNeedsApproval, AskedAndAllowed, NoDeadRouting, TrustProvenance, Undecided
<1>29. TypeOK /\ Known
    OBVIOUS
<1> HIDE <1>0, NullDecision DEF IInv, RowStates, TypeOK, Decisions, Approvals, futureVars,
         memoryVars, storeVars, trustVars
<1> QED
    BY NextCases, <1>29, <1>1, <1>2, <1>3, <1>4, <1>5, <1>6, <1>7, <1>8, <1>9, <1>10,
       <1>11, <1>12, <1>13, <1>14, <1>15, <1>16, <1>17, <1>18, <1>19, <1>20, <1>21,
       <1>22, <1>23, <1>24, <1>25, <1>26, <1>27, <1>28 DEF Next, Progress,
       Decide

LEMMA InitIInv == Init => IInv
<1> SUFFICES ASSUME Init PROVE IInv
    OBVIOUS
<1> USE DEF Init
<1>1. TypeOK
  <2>1. phase \in [Requests -> Phases]
    BY DEF Phases
  <2>2. handler \in [Handlers -> HandlerType]
    BY DEF HandlerType
  <2>3. edits \in 0..MaxEdits /\ restarts \in 0..MaxRestarts
    BY BoundsAssumption
  <2>4. /\ call \in [Requests -> CallType \cup {NULL}]
        /\ outcome \in [Requests -> Outcomes \cup {NULL}]
        /\ sent \in [Requests -> Decisions \cup {NULL}]
    OBVIOUS
  <2>5. /\ row \in [Requests -> {"none", "pending"} \cup Decisions]
        /\ threadRoute \in [Threads -> Requests \cup {NULL}]
        /\ meetingRoute \in [Meetings -> Requests \cup {NULL}]
    OBVIOUS
  <2> QED
    BY <2>1, <2>2, <2>3, <2>4, <2>5 DEF TypeOK
<1>2. Known /\ Phased /\ Heard
    BY DEF Known, Phased, Heard, Idle, Undecided
<1>3. DeliveredIsDurable /\ SenderNeverLost /\ AllowNeedsApproval
    BY DEF DeliveredIsDurable, SenderNeverLost, AllowNeedsApproval, AskedAndAllowed
<1>4. NoDeadRouting /\ TrustProvenance
    BY DEF NoDeadRouting, TrustProvenance
<1> QED
    BY <1>1, <1>2, <1>3, <1>4 DEF IInv

(* The inductive invariant holds throughout every behaviour of the gate.   *)
THEOREM Invariance == Spec => []IInv
<1>1. Init => IInv
    BY InitIInv
<1>2. IInv /\ [Next]_vars => IInv'
    BY SafetyStep
<1> QED
    BY <1>1, <1>2, PTL DEF Spec

-------------------------------------------------------------------------------
(* What it says, property by property.                                     *)

(* Every variable keeps its type: no handler of gate.rs leaves its tables, *)
(* maps or futures in a shape another one does not expect.                 *)
THEOREM TypeCorrect == Spec => []TypeOK
<1>1. IInv => TypeOK
    BY DEF IInv
<1> QED
    BY <1>1, Invariance, PTL

(* intercept_audited lets no call that had to ask through, except on an    *)
(* approval stored in the row of its own request.                          *)
THEOREM ApprovalRequired == Spec => []AllowNeedsApproval
<1>1. IInv => AllowNeedsApproval
    BY DEF IInv
<1> QED
    BY <1>1, Invariance, PTL

(* The value a parked future receives is the decision the store kept,      *)
(* whichever deciders raced for it.                                        *)
THEOREM DeliveryDurable == Spec => []DeliveredIsDurable
<1>1. IInv => DeliveredIsDurable
    BY DEF IInv
<1> QED
    BY <1>1, Invariance, PTL

(* The oneshot of a parked call never loses its sender unused: the         *)
(* "decision channel dropped" arm of gate.rs is dead code.                 *)
THEOREM SenderKept == Spec => []SenderNeverLost
<1>1. IInv => SenderNeverLost
    BY DEF IInv
<1> QED
    BY <1>1, Invariance, PTL

(* A thread or meeting route never outlives the park it was made for.      *)
THEOREM RoutingAlive == Spec => []NoDeadRouting
<1>1. IInv => NoDeadRouting
    BY DEF IInv
<1> QED
    BY <1>1, Invariance, PTL

(* No row of flow_tool_trust exists without the user's decision on that    *)
(* tool in that flow.                                                      *)
THEOREM TrustEarned == Spec => []TrustProvenance
<1>1. IInv => TrustProvenance
    BY DEF IInv
<1> QED
    BY <1>1, Invariance, PTL

-------------------------------------------------------------------------------
(* Routes are written by three actions only.                               *)
LEMMA RouteWriters ==
    ASSUME [Next]_vars
    PROVE  \/ UNCHANGED <<threadRoute, meetingRoute>>
           \/ \E r \in Requests : ClearRoutes(r) \/ \E c \in Calls : Register(r, c)
           \/ Restart
BY DEF Next, vars, futureVars, memoryVars, storeVars, trustVars, Progress, Decide,
       Answer, Persist, PersistFails, Wake, BoundElapses, TtlElapses, DenyExpired,
       Reread, ExpiryFails, TearDown, DenyTorn, RunTool, RecordExecution, Deadline,
       CardDecision, ThreadReply, MeetingReply, Target, DecideSweep, DecideCommit,
       TakeWaiter, Send, GrantStanding, ListPending, ApplySettings, Preauthorize,
       DeleteFlow

(* clear_thread_route_if_owned and clear_meeting_route_if_owned, run for   *)
(* an older request, leave the route of a newer one in place.              *)
THEOREM RoutesOwned == Spec => RouteOutlivesOthers
<1> DEFINE Kept ==
      /\ \A t \in Threads : threadRoute[t] # NULL /\ threadRoute'[t] = NULL
                              => phase'[threadRoute[t]] \notin Waiting
      /\ \A m \in Meetings : meetingRoute[m] # NULL /\ meetingRoute'[m] = NULL
                               => phase'[meetingRoute[m]] \notin Waiting
<1>1. IInv /\ [Next]_vars => [Kept]_vars
  <2> SUFFICES ASSUME IInv, [Next]_vars PROVE Kept
    OBVIOUS
  <2>0. TypeOK
    BY DEF IInv
  <2>1. CASE UNCHANGED <<threadRoute, meetingRoute>>
    BY <2>1
  <2>2. ASSUME NEW r \in Requests, NEW c \in Calls, Register(r, c) PROVE Kept
    BY <2>0, <2>2, IdsAssumption DEF Register, TypeOK
  <2>3. ASSUME NEW r \in Requests, ClearRoutes(r) PROVE Kept
    BY <2>0, <2>3 DEF ClearRoutes, ClearedRoute, TypeOK, Waiting
  <2>4. CASE Restart
    BY <2>0, <2>4 DEF Restart, TypeOK, Waiting
  <2> QED
    BY RouteWriters, <2>1, <2>2, <2>3, <2>4
<1> QED
    BY <1>1, Invariance, PTL DEF Spec, RouteOutlivesOthers

-------------------------------------------------------------------------------
(* Trust shortcuts.                                                        *)

(* What intercept returns, or leaves behind, is written by these alone.    *)
LEMMA OutcomeWriters ==
    ASSUME [Next]_vars
    PROVE  \/ UNCHANGED outcome
           \/ \E r \in Requests :
                \/ \E c \in Calls : Answer(r, c)
                \/ Wake(r) \/ Reread(r)
                \/ \E o \in {"deny", "abandoned", "dropped"} :
                     outcome' = [outcome EXCEPT ![r] = o]
BY DEF Next, vars, futureVars, memoryVars, storeVars, trustVars, Progress, Decide,
       Register, Persist, PersistFails, BoundElapses, TtlElapses, DenyExpired, Close,
       ExpiryFails, ClearRoutes, TearDown, DenyTorn, RunTool, RecordExecution, Deadline,
       CardDecision, ThreadReply, MeetingReply, Target, DecideSweep, DecideCommit,
       TakeWaiter, Send, GrantStanding, ListPending, ApplySettings, Preauthorize,
       DeleteFlow, Restart

(* The ladder lets goals and reviewed flows pass on trust or the blanket   *)
(* setting alone.                                                          *)
LEMMA ReviewedVerdict ==
    ASSUME NEW c, c.origin \in {"goal", "review_flow"}, NEW trust, NEW tools,
           Verdict(c, trust, autoApproveAll, tools) = "allow"
    PROVE  autoApproveAll \/ Grant(c) \in trust
BY DEF Verdict, TrustedFlow, CoveredByAll, Allowlisted, ParkingOrigins, AllowedOrigins,
       RefusedOrigins, Grant

(* A goal continuation or a flow that requires approval never passes on    *)
(* the per-tool allowlist: intercept_audited_inner skips that shortcut.    *)
THEOREM ReviewForced == Spec => ReviewNeedsConsent
<1> DEFINE Consented ==
      \A r \in Requests :
        (/\ outcome[r] = NULL /\ outcome'[r] = "allow" /\ row[r] = "none"
         /\ call'[r].origin \in {"goal", "review_flow"})
        => autoApproveAll \/ Grant(call'[r]) \in flowTrust
<1>1. IInv /\ [Next]_vars => [Consented]_vars
  <2> SUFFICES ASSUME IInv, [Next]_vars PROVE Consented
    OBVIOUS
  <2>0. TypeOK /\ DeliveredIsDurable
    BY DEF IInv
  <2>1. CASE UNCHANGED outcome
    BY <2>1, NullDecision
  <2>2. ASSUME NEW r \in Requests, NEW c \in Calls, Answer(r, c) PROVE Consented
    <3>1. PICK trust \in TrustLookups :
            LET v == Verdict(c, trust, autoApproveAll, autoApprove) IN
              outcome' = [outcome EXCEPT ![r] = IF v = "allow" THEN "allow" ELSE "deny"]
      BY <2>2 DEF Answer
    <3>2. trust \subseteq flowTrust
      BY <3>1 DEF TrustLookups
    <3>3. call'[r] = c
      BY <2>0, <2>2 DEF Answer, TypeOK
    <3>4. \A q \in Requests \ {r} : outcome'[q] = outcome[q]
      BY <2>0, <3>1 DEF TypeOK
    <3>5. outcome'[r] = "allow" => Verdict(c, trust, autoApproveAll, autoApprove) = "allow"
      BY <2>0, <3>1 DEF TypeOK
    <3> QED
      BY <3>2, <3>3, <3>4, <3>5, ReviewedVerdict, NullDecision
  <2>3. ASSUME NEW r \in Requests, Wake(r) \/ Reread(r) PROVE Consented
    <3>1. outcome'[r] = "allow" => row[r] \in Approvals
      BY <2>0, <2>3 DEF Wake, Reread, Close, TypeOK, DeliveredIsDurable, Approvals,
         Decisions
    <3>2. \A q \in Requests \ {r} : outcome'[q] = outcome[q]
      BY <2>0, <2>3 DEF Wake, Reread, Close, TypeOK
    <3> QED
      BY <3>1, <3>2, NullDecision DEF Approvals, Decisions
  <2>4. ASSUME NEW r \in Requests, NEW o \in {"deny", "abandoned", "dropped"},
               outcome' = [outcome EXCEPT ![r] = o]
        PROVE  Consented
    BY <2>0, <2>4, NullDecision DEF TypeOK
  <2> QED
    BY OutcomeWriters, <2>1, <2>2, <2>3, <2>4
<1> QED
    BY <1>1, Invariance, PTL DEF Spec, ReviewNeedsConsent

-------------------------------------------------------------------------------
(* Agreement of caller and audit row, when the store works.                *)

(* A parked call has its row; past the deny of the TTL path that row is    *)
(* decided; a call that closed leaves it open only if abandoned.           *)
Rowed ==
    \A r \in Requests :
        /\ phase[r] \in {"parked", "expired"} => row[r] # "none"
        /\ phase[r] = "rereading" => row[r] \in Decisions
        /\ phase[r] \in {"clearing", "done"} /\ row[r] = "pending"
             => outcome[r] = "abandoned"
Agreed == Rowed /\ OutcomeAgreesWithRow

(* Steps that move no future and write no row, or that sweep and no more.  *)
LEMMA AgreedKept ==
    ASSUME TypeOK, Agreed, UNCHANGED <<phase, outcome>>, RowsKept, TypeOK'
    PROVE  Agreed'
BY DEF Agreed, Rowed, OutcomeAgreesWithRow, RowsKept, TypeOK, Decisions

LEMMA AgreedStep ==
    ASSUME ~StoreFaults, IInv, Agreed, [Next]_vars
    PROVE  Agreed'
<1>0. TypeOK /\ TypeOK' /\ Known /\ Phased /\ DeliveredIsDurable /\ row \in [Requests -> RowStates]
    BY SafetyStep DEF IInv, TypeOK, RowStates
<1> USE <1>0, NullDecision DEF futureVars, memoryVars, storeVars, trustVars
<1>a. ASSUME UNCHANGED <<phase, outcome, row>> PROVE Agreed'
    BY <1>a DEF Agreed, Rowed, OutcomeAgreesWithRow
<1>b. ASSUME UNCHANGED <<phase, outcome>>, row' = Swept PROVE Agreed'
    BY <1>b, RowKept, AgreedKept
<1>1. ASSUME NEW r \in Requests, NEW c \in Calls, Answer(r, c) PROVE Agreed'
    BY <1>1 DEF Answer, Agreed, Rowed, OutcomeAgreesWithRow, Phased, TypeOK
<1>2. ASSUME NEW r \in Requests, NEW c \in Calls, Register(r, c) PROVE Agreed'
    BY <1>2 DEF Register, Agreed, Rowed, OutcomeAgreesWithRow, TypeOK
<1>3. ASSUME NEW r \in Requests, Persist(r) PROVE Agreed'
    BY <1>3 DEF Persist, Agreed, Rowed, OutcomeAgreesWithRow, Phased, Undecided, TypeOK
<1>4. ASSUME NEW r \in Requests, Wake(r) PROVE Agreed'
    BY <1>4 DEF Wake, Close, Agreed, Rowed, OutcomeAgreesWithRow, DeliveredIsDurable,
       Approvals, Decisions, TypeOK
<1>5. ASSUME NEW r \in Requests, BoundElapses(r) PROVE Agreed'
    BY <1>5 DEF BoundElapses, Close, Agreed, Rowed, OutcomeAgreesWithRow, TypeOK
<1>6. ASSUME NEW r \in Requests, TtlElapses(r) PROVE Agreed'
    BY <1>6 DEF TtlElapses, Agreed, Rowed, OutcomeAgreesWithRow, TypeOK
<1>7. ASSUME NEW r \in Requests, DenyExpired(r) PROVE Agreed'
  <2>1. RowsKept /\ row'[r] \in Decisions
    BY <1>7, RowKept, DeniedIfOpenType
    DEF DenyExpired, Agreed, Rowed, RowStates, Decisions
  <2>2. \A q \in Requests : outcome'[q] = outcome[q] /\ (q # r => phase'[q] = phase[q])
    BY <1>7 DEF DenyExpired, TypeOK
  <2>3. phase'[r] = "rereading"
    BY <1>7 DEF DenyExpired, TypeOK
  <2> QED
    BY <2>1, <2>2, <2>3
    DEF Agreed, Rowed, OutcomeAgreesWithRow, RowsKept, RowStates, Decisions
<1>8. ASSUME NEW r \in Requests, Reread(r) PROVE Agreed'
    BY <1>8 DEF Reread, Close, Agreed, Rowed, OutcomeAgreesWithRow, Approvals, Decisions,
       TypeOK
<1>9. ASSUME NEW r \in Requests, ClearRoutes(r) PROVE Agreed'
    BY <1>9 DEF ClearRoutes, Agreed, Rowed, OutcomeAgreesWithRow, TypeOK
<1>10. ASSUME NEW r \in Requests, TearDown(r) PROVE Agreed'
    BY <1>10 DEF TearDown, Agreed, Rowed, OutcomeAgreesWithRow, TypeOK
<1>11. ASSUME NEW r \in Requests, DenyTorn(r) PROVE Agreed'
  <2>1. RowsKept /\ row'[r] # "pending"
    BY <1>11, RowKept, DeniedIfOpenType DEF DenyTorn, RowStates, Decisions
  <2>2. \A q \in Requests : outcome'[q] = outcome[q] /\ (q # r => phase'[q] = phase[q])
    BY <1>11 DEF DenyTorn, TypeOK
  <2>3. phase'[r] = "done"
    BY <1>11 DEF DenyTorn, TypeOK
  <2> QED
    BY <2>1, <2>2, <2>3
    DEF Agreed, Rowed, OutcomeAgreesWithRow, RowsKept, RowStates, Decisions
<1>12. ASSUME NEW r \in Requests, RunTool(r) \/ RecordExecution(r) PROVE Agreed'
    BY <1>12 DEF RunTool, RecordExecution, Agreed, Rowed, OutcomeAgreesWithRow, TypeOK
<1>13. ASSUME NEW h \in Handlers, DecideSweep(h) PROVE Agreed'
    BY <1>13, <1>b DEF DecideSweep
<1>14. ASSUME NEW h \in Handlers, DecideCommit(h) PROVE Agreed'
  <2> DEFINE r == handler[h].req
             d == handler[h].dec
  <2>1. r \in Requests /\ d \in Decisions
    BY <1>14, HandlerShape DEF DecideCommit
  <2>2. CASE row[r] = "pending" /\ row' = [row EXCEPT ![r] = d]
    BY <1>14, <2>1, <2>2
    DEF DecideCommit, Agreed, Rowed, OutcomeAgreesWithRow, Decisions, TypeOK
  <2>3. CASE UNCHANGED row
    BY <1>14, <2>3, <1>a DEF DecideCommit
  <2> QED
    BY <1>14, <2>2, <2>3 DEF DecideCommit
<1>15. CASE ListPending
    BY <1>15, <1>b DEF ListPending
<1>16. CASE Restart
    BY <1>16 DEF Restart, Agreed, Rowed, OutcomeAgreesWithRow, TypeOK
<1>17. ASSUME \/ \E h \in Handlers : TakeWaiter(h) \/ Send(h) \/ GrantStanding(h)
              \/ \E h \in Handlers, r \in Requests, d \in Decisions, g \in BOOLEAN :
                   Target(h, r, d, g)
              \/ \E r \in Requests : Deadline(r)
              \/ UNCHANGED vars
              \/ \E list \in SUBSET Tools, all \in BOOLEAN : ApplySettings(list, all)
              \/ \E f \in Flows : DeleteFlow(f) \/ \E x \in Tools : Preauthorize(f, x)
       PROVE  Agreed'
    BY <1>17, <1>a
    DEF TakeWaiter, Send, GrantStanding, Target, Deadline, ApplySettings,
        DeleteFlow, Preauthorize, vars
<1>18. \A r \in Requests : ~PersistFails(r) /\ ~ExpiryFails(r)
    BY DEF PersistFails, ExpiryFails
<1> QED
    BY NextCases, <1>1, <1>2, <1>3, <1>4, <1>5, <1>6, <1>7, <1>8, <1>9, <1>10, <1>11,
       <1>12, <1>13, <1>14, <1>15, <1>16, <1>17, <1>18
    DEF Next, Progress, Decide

(* With a store that works, every call that closed agrees with its row.    *)
THEOREM Agreement ==
    ASSUME ~StoreFaults
    PROVE  Spec => []Agreed
<1>1. Init => Agreed
    BY NullDecision DEF Init, Agreed, Rowed, OutcomeAgreesWithRow
<1>2. IInv /\ Agreed /\ [Next]_vars => Agreed'
    BY AgreedStep
<1> QED
    BY <1>1, <1>2, Invariance, PTL DEF Spec

(* With a store that works, no denied call has an approved row: an         *)
(* approval that beat the TTL to the row is honoured (#2367).              *)
THEOREM OutcomesAgree ==
    ASSUME ~StoreFaults
    PROVE  Spec => []OutcomeAgreesWithRow
<1>1. Agreed => OutcomeAgreesWithRow
    BY DEF Agreed
<1> QED
    BY <1>1, Agreement, PTL

(* With a store that works, the TTL path and WaiterGuard::drop leave no    *)
(* open row behind; only a caller's own bound does.                        *)
THEOREM NoRowLeftOpen ==
    ASSUME ~StoreFaults
    PROVE  Spec => []NoOpenRowBehind
<1>1. Agreed => NoOpenRowBehind
    BY DEF Agreed, Rowed, NoOpenRowBehind
<1> QED
    BY <1>1, Agreement, PTL

-------------------------------------------------------------------------------
(* A decision in the store is under way to the call.                       *)

(* Sweeping denies no row before its deadline.                             *)
LEMMA SweptDue ==
    ASSUME row \in [Requests -> RowStates], NEW q \in Requests, NEW r \in Requests
    PROVE  /\ Swept[q] = row[q] \/ (Swept[q] = "deny" /\ due[q])
           /\ q # r => DeniedIfOpen(r)[q] = Swept[q]
BY SweptType DEF Swept, DeniedIfOpen

(* Deciders that stay where they are keep their decisions under way, if no *)
(* call parks on a decided row and no row is decided but by its deadline.  *)
Kept(q) ==
    phase'[q] = "parked" /\ row'[q] \in Decisions /\ sent'[q] = NULL =>
        /\ phase[q] = "parked" /\ sent[q] = NULL
        /\ row'[q] = row[q] \/ (row'[q] = "deny" /\ due'[q])

LEMMA UnderwayKept ==
    ASSUME DecisionUnderway, \A q \in Requests : Kept(q) /\ (due[q] => due'[q]),
           \A k \in Handlers :
               handler[k].at \in {"notify", "holding"} => handler'[k] = handler[k]
    PROVE  DecisionUnderway'
BY DEF DecisionUnderway, Kept

LEMMA UnderwayStep ==
    ASSUME ~StoreFaults, IInv, DecisionUnderway, [Next]_vars
    PROVE  DecisionUnderway'
<1>0. TypeOK /\ Phased /\ SenderNeverLost /\ row \in [Requests -> RowStates]
    BY DEF IInv, TypeOK, RowStates
<1>d. "pending" \notin Decisions /\ "none" \notin Decisions
    BY DEF Decisions
<1> USE <1>0, <1>d DEF futureVars, memoryVars, storeVars, trustVars
<1>a. ASSUME UNCHANGED <<sent, row, handler>>, \A q \in Requests : due[q] => due'[q],
             \A q \in Requests : phase'[q] = "parked" => phase[q] = "parked"
      PROVE  DecisionUnderway'
    BY <1>a, UnderwayKept DEF Kept
<1>1. ASSUME NEW r \in Requests, NEW c \in Calls, Answer(r, c) \/ Register(r, c)
      PROVE  DecisionUnderway'
    BY <1>1, <1>a DEF Answer, Register, TypeOK
<1>2. ASSUME NEW r \in Requests, Persist(r) PROVE DecisionUnderway'
  <2>1. UNCHANGED <<handler, sent, due>> /\ row'[r] \notin Decisions
    BY <1>2 DEF Persist, TypeOK
  <2>2. \A q \in Requests \ {r} : phase'[q] = phase[q] /\ row'[q] = row[q]
    BY <1>2 DEF Persist, TypeOK
  <2>3. \A q \in Requests : Kept(q)
    BY <2>1, <2>2 DEF Kept
  <2> QED
    BY <2>1, <2>3, UnderwayKept
<1>3. ASSUME NEW r \in Requests,
             \/ Wake(r) \/ BoundElapses(r) \/ TtlElapses(r) \/ Reread(r) \/ ClearRoutes(r)
             \/ TearDown(r) \/ RunTool(r) \/ RecordExecution(r) \/ Deadline(r)
      PROVE  DecisionUnderway'
    BY <1>3, <1>a
    DEF Wake, BoundElapses, TtlElapses, Reread, ClearRoutes, TearDown, RunTool,
        RecordExecution, Deadline, Close, TypeOK
<1>4. ASSUME NEW r \in Requests, DenyExpired(r) \/ DenyTorn(r) PROVE DecisionUnderway'
  <2>1. /\ row' = DeniedIfOpen(r) /\ UNCHANGED <<handler, sent, due>>
        /\ phase'[r] # "parked" /\ \A q \in Requests \ {r} : phase'[q] = phase[q]
    BY <1>4 DEF DenyExpired, DenyTorn, TypeOK
  <2>2. \A q \in Requests \ {r} : row'[q] = row[q] \/ (row'[q] = "deny" /\ due[q])
    BY <2>1, SweptDue
  <2>3. \A q \in Requests : Kept(q)
    BY <2>1, <2>2 DEF Kept
  <2> QED
    BY <2>1, <2>3, UnderwayKept
<1>5. ASSUME row' = Swept, UNCHANGED <<phase, sent, due>>,
             \A k \in Handlers :
                handler[k].at \in {"notify", "holding"} => handler'[k] = handler[k]
      PROVE  DecisionUnderway'
    BY <1>5, SweptDue, UnderwayKept DEF Kept
<1>6. CASE ListPending
    BY <1>5, <1>6 DEF ListPending
<1>7. ASSUME NEW h \in Handlers, DecideSweep(h) PROVE DecisionUnderway'
  <2>1. \A k \in Handlers \ {h} : handler'[k] = handler[k]
    BY <1>7 DEF DecideSweep, Goto, Finish, TypeOK
  <2> QED
    BY <1>5, <1>7, <2>1 DEF DecideSweep
<1>8. ASSUME NEW h \in Handlers, NEW r \in Requests, NEW d \in Decisions,
             NEW g \in BOOLEAN, Target(h, r, d, g)
      PROVE  DecisionUnderway'
  <2>1. \A k \in Handlers : handler[k].at # "idle" => handler'[k] = handler[k]
    BY <1>8 DEF Target, Idle, TypeOK
  <2> QED
    BY <1>8, <2>1, UnderwayKept DEF Target, Kept
<1>9. ASSUME NEW h \in Handlers, DecideCommit(h) PROVE DecisionUnderway'
  <2> DEFINE r == handler[h].req
  <2>1. /\ r \in Requests /\ handler[h].at = "commit"
        /\ \A k \in Handlers \ {h} : handler'[k] = handler[k]
    BY <1>9, HandlerShape DEF DecideCommit, Goto, Finish, TypeOK
  <2>2. CASE row[r] = "pending" /\ row' = [row EXCEPT ![r] = handler[h].dec]
             /\ Goto(h, "notify")
    <3>1. handler'[h].at = "notify" /\ handler'[h].req = r
      BY <2>1, <2>2, GotoStep
    <3>2. UNCHANGED <<phase, sent, due>> /\ \A q \in Requests \ {r} : row'[q] = row[q]
      BY <1>9, <2>2 DEF DecideCommit, TypeOK
    <3> QED
      BY <2>1, <3>1, <3>2 DEF DecisionUnderway
  <2>3. CASE UNCHANGED row
    BY <1>9, <2>1, <2>3, UnderwayKept DEF DecideCommit, Kept
  <2> QED
    BY <1>9, <2>2, <2>3 DEF DecideCommit
<1>10. ASSUME NEW h \in Handlers, TakeWaiter(h) PROVE DecisionUnderway'
  <2> DEFINE r == handler[h].req
  <2>1. /\ r \in Requests /\ handler[h].at = "notify"
        /\ \A k \in Handlers \ {h} : handler'[k] = handler[k]
    BY <1>10, HandlerShape DEF TakeWaiter, AfterNotify, Goto, Finish, TypeOK
  <2>2. UNCHANGED <<phase, row, sent, due>>
    BY <1>10 DEF TakeWaiter
  <2>3. CASE r \in waiters
    <3>1. handler'[h].at = "holding" /\ handler'[h].req = r
      BY <1>10, <2>1, <2>3, GotoStep DEF TakeWaiter
    <3> QED
      BY <2>1, <2>2, <3>1 DEF DecisionUnderway
  <2>4. CASE r \notin waiters
    (* Somebody else holds the sender, and is about to use it. *)
    <3>1. phase[r] = "parked" /\ sent[r] = NULL =>
            \E k \in Handlers \ {h} : handler[k].at = "holding" /\ handler[k].req = r
      BY <2>1, <2>4 DEF SenderNeverLost
    <3> QED
      BY <2>1, <2>2, <3>1 DEF DecisionUnderway
  <2> QED
    BY <2>3, <2>4
<1>11. ASSUME NEW h \in Handlers, Send(h) PROVE DecisionUnderway'
  <2> DEFINE r == handler[h].req
  <2>1. /\ r \in Requests /\ handler[h].dec # NULL
        /\ \A k \in Handlers \ {h} : handler'[k] = handler[k]
    BY <1>11, HandlerShape, NullDecision
    DEF Send, AfterNotify, Goto, Finish, TypeOK
  <2>2. /\ UNCHANGED <<phase, row, due>>
        /\ phase[r] = "parked" => sent'[r] # NULL
        /\ \A q \in Requests \ {r} : sent'[q] = sent[q]
    BY <1>11, <2>1 DEF Send, TypeOK
  <2> QED
    BY <2>1, <2>2 DEF DecisionUnderway
<1>12. ASSUME NEW h \in Handlers, GrantStanding(h) PROVE DecisionUnderway'
  <2>1. \A k \in Handlers \ {h} : handler'[k] = handler[k]
    BY <1>12 DEF GrantStanding, Finish, TypeOK
  <2> QED
    BY <1>12, <2>1, UnderwayKept DEF GrantStanding, Kept
<1>13. CASE Restart
    BY <1>13 DEF Restart, DecisionUnderway
<1>14. ASSUME \/ UNCHANGED vars
              \/ \E list \in SUBSET Tools, all \in BOOLEAN : ApplySettings(list, all)
              \/ \E f \in Flows : DeleteFlow(f) \/ \E x \in Tools : Preauthorize(f, x)
       PROVE  DecisionUnderway'
    BY <1>14, <1>a DEF ApplySettings, DeleteFlow, Preauthorize, vars
<1>15. \A r \in Requests : ~PersistFails(r) /\ ~ExpiryFails(r)
    BY DEF PersistFails, ExpiryFails
<1>16. Known
    BY DEF IInv
<1> QED
    BY NextCases, <1>1, <1>2, <1>3, <1>4, <1>6, <1>7, <1>8, <1>9, <1>10, <1>11, <1>12,
       <1>13, <1>14, <1>15, <1>16
    DEF Next, Progress, Decide

(* With a store that works, no committed decision is stranded: until the   *)
(* oneshot of a parked call is filled, some decider is on its way from     *)
(* store::decide to tx.send, or the deadline that denied the row is about  *)
(* to wake the call - the safety half of "an approval is delivered".       *)
THEOREM DecisionsUnderway ==
    ASSUME ~StoreFaults
    PROVE  Spec => []DecisionUnderway
<1>1. Init => DecisionUnderway
    BY DEF Init, DecisionUnderway
<1>2. IInv /\ DecisionUnderway /\ [Next]_vars => DecisionUnderway'
    BY UnderwayStep
<1> QED
    BY <1>1, <1>2, Invariance, PTL DEF Spec

-------------------------------------------------------------------------------
(* The gate implements its contract.                                       *)

Permitted == {r \in Requests : AskedAndAllowed(r)}

(* Closing open rows without an answer is a step of the contract, as long  *)
(* as nothing is let through by it.                                        *)
LEMMA ClosingIsExpiry ==
    ASSUME TypeOK, TypeOK', RowsKept, UNCHANGED executed,
           \A r \in Requests : outcome'[r] # outcome[r]
                                  => outcome[r] # "allow" /\ outcome'[r] # "allow"
    PROVE  Contract!Next
<1> DEFINE S == {r \in Requests : row[r] = "pending" /\ row'[r] = "deny"}
<1>1. row' = [r \in Requests |-> IF r \in S THEN "deny" ELSE row[r]]
    BY DEF TypeOK, RowsKept
<1>2. Permitted' = Permitted
    BY DEF Permitted, AskedAndAllowed, TypeOK, RowsKept
<1>3. Contract!Expire(S)
    BY <1>1, <1>2 DEF Contract!Expire, Permitted
<1> QED
    BY <1>3 DEF Contract!Next

(* A call that resolves on what it heard, or read back, passes only if     *)
(* its row holds an approval.                                              *)
LEMMA ResolvingIsPermit ==
    ASSUME TypeOK, AllowNeedsApproval', NEW r \in Requests, outcome[r] = NULL,
           NEW o, Close(r, o), UNCHANGED <<row, executed>>, row[r] # "none"
    PROVE  Contract!Next \/ UNCHANGED Contract!vars
<1>1. CASE o = "allow"
  <2>1. row[r] \in Approvals /\ r \notin Permitted
    BY <1>1, NullDecision
    DEF Close, TypeOK, AllowNeedsApproval, AskedAndAllowed, Permitted
  <2>2. Permitted' = Permitted \cup {r}
    BY <1>1 DEF Close, TypeOK, AskedAndAllowed, Permitted
  <2> QED
    BY <2>1, <2>2 DEF Contract!Next, Contract!Permit, Permitted
<1>2. CASE o # "allow"
  <2>1. Permitted' = Permitted
    BY <1>2, NullDecision DEF Close, TypeOK, AskedAndAllowed, Permitted
  <2> QED
    BY <2>1 DEF Contract!vars, Permitted
<1> QED
    BY <1>1, <1>2

LEMMA ContractStep ==
    ASSUME IInv, IInv', [Next]_vars
    PROVE  Contract!Next \/ UNCHANGED Contract!vars
<1> DEFINE Mapped == Contract!Next \/ UNCHANGED Contract!vars
<1>0. TypeOK /\ TypeOK' /\ Known /\ Phased /\ Heard /\ AllowNeedsApproval /\ AllowNeedsApproval'
    BY DEF IInv
<1> USE <1>0 DEF futureVars, memoryVars, storeVars, trustVars
<1>a. ASSUME UNCHANGED <<row, executed>>,
             \A r \in Requests : outcome'[r] # outcome[r] =>
                 row[r] = "none" \/ (outcome[r] # "allow" /\ outcome'[r] # "allow")
      PROVE  Mapped
  <2>1. Permitted' = Permitted
    BY <1>a DEF Permitted, AskedAndAllowed, TypeOK
  <2> QED
    BY <1>a, <2>1 DEF Contract!vars, Permitted
<1>1. ASSUME NEW r \in Requests, NEW c \in Calls, Answer(r, c) PROVE Mapped
    BY <1>1, <1>a DEF Answer, TypeOK, Phased
<1>2. ASSUME NEW r \in Requests, NEW c \in Calls, Register(r, c) PROVE Mapped
    BY <1>2, <1>a DEF Register
<1>3. ASSUME NEW r \in Requests, Persist(r) PROVE Mapped
  <2>1. row[r] = "none" /\ row' = [row EXCEPT ![r] = "pending"] /\ executed' = executed
    BY <1>3 DEF Persist, Phased
  <2>2. Permitted' = Permitted
    BY <1>3, NullDecision
    DEF Persist, Phased, Undecided, Permitted, AskedAndAllowed, TypeOK
  <2>3. Contract!Ask(r)
    BY <2>1, <2>2 DEF Contract!Ask, Permitted
  <2> QED
    BY <2>3 DEF Contract!Next
<1>4. ASSUME NEW r \in Requests, PersistFails(r) PROVE Mapped
    BY <1>4, <1>a DEF PersistFails, TypeOK, Phased
<1>5. ASSUME NEW r \in Requests, Wake(r) \/ Reread(r) PROVE Mapped
  <2>1. outcome[r] = NULL
    BY <1>5 DEF Wake, Reread, Phased, Undecided
  <2>2. PICK o : Close(r, o)
    BY <1>5 DEF Wake, Reread
  <2>3. UNCHANGED <<row, executed>>
    BY <1>5 DEF Wake, Reread
  <2>4. CASE row[r] # "none"
    BY <2>1, <2>2, <2>3, <2>4, ResolvingIsPermit
  <2>5. CASE row[r] = "none"
    BY <2>2, <2>3, <2>5, <1>a DEF Close, TypeOK
  <2> QED
    BY <2>4, <2>5
<1>6. ASSUME NEW r \in Requests, BoundElapses(r) PROVE Mapped
    BY <1>6, <1>a, NullDecision DEF BoundElapses, Close, TypeOK, Phased, Undecided
<1>7. ASSUME NEW r \in Requests, TtlElapses(r) PROVE Mapped
    BY <1>7, <1>a DEF TtlElapses
<1>8. ASSUME NEW r \in Requests, DenyExpired(r) \/ DenyTorn(r) PROVE Mapped
  <2>1. RowsKept
    BY <1>8, RowKept DEF DenyExpired, DenyTorn, TypeOK, RowStates
  <2> QED
    BY <1>8, <2>1, ClosingIsExpiry DEF DenyExpired, DenyTorn
<1>9. ASSUME NEW r \in Requests, ExpiryFails(r) PROVE Mapped
  <2>1. RowsKept
    BY <1>9, RowKept DEF ExpiryFails, TypeOK, RowStates
  <2>2. \A q \in Requests : outcome'[q] # outcome[q]
                               => outcome[q] # "allow" /\ outcome'[q] # "allow"
    BY <1>9, NullDecision DEF ExpiryFails, Close, TypeOK, Phased, Undecided
  <2>3. UNCHANGED executed
    BY <1>9 DEF ExpiryFails
  <2> QED
    BY <2>1, <2>2, <2>3, ClosingIsExpiry
<1>10. ASSUME NEW r \in Requests, ClearRoutes(r) PROVE Mapped
    BY <1>10, <1>a DEF ClearRoutes
<1>11. ASSUME NEW r \in Requests, TearDown(r) PROVE Mapped
    BY <1>11, <1>a, NullDecision DEF TearDown, TypeOK, Phased, Undecided
<1>12. ASSUME NEW r \in Requests, RunTool(r) PROVE Mapped
    BY <1>12, <1>a DEF RunTool
<1>13. ASSUME NEW r \in Requests, RecordExecution(r) PROVE Mapped
  <2>1. UNCHANGED <<row, outcome>>
    BY <1>13 DEF RecordExecution
  <2>2. r \in Permitted
    BY <1>13 DEF RecordExecution, Phased, Permitted, AskedAndAllowed
  <2>3. Permitted' = Permitted
    BY <2>1 DEF Permitted, AskedAndAllowed
  <2>4. \/ UNCHANGED executed
        \/ ~executed[r] /\ executed' = [executed EXCEPT ![r] = TRUE]
    BY <1>13 DEF RecordExecution, TypeOK
  <2>5. UNCHANGED executed \/ Contract!Execute(r)
    BY <2>1, <2>2, <2>3, <2>4 DEF Contract!Execute, Permitted
  <2> QED
    BY <2>1, <2>3, <2>5 DEF Contract!Next, Contract!vars, Permitted
<1>14. ASSUME NEW r \in Requests, Deadline(r) PROVE Mapped
    BY <1>14, <1>a DEF Deadline
<1>15. ASSUME NEW h \in Handlers, NEW r \in Requests, NEW d \in Decisions,
              NEW g \in BOOLEAN, Target(h, r, d, g), call[r] # NULL
       PROVE  Mapped
    BY <1>15, <1>a DEF Target
<1>16. ASSUME NEW h \in Handlers, DecideSweep(h) PROVE Mapped
  <2>1. RowsKept
    BY <1>16, RowKept DEF DecideSweep, TypeOK, RowStates
  <2> QED
    BY <1>16, <2>1, ClosingIsExpiry DEF DecideSweep
<1>17. ASSUME NEW h \in Handlers, DecideCommit(h) PROVE Mapped
  <2> DEFINE r == handler[h].req
             d == handler[h].dec
  <2>1. r \in Requests /\ d \in Decisions /\ d # "none"
    BY <1>17, HandlerShape DEF DecideCommit, Decisions
  <2>2. CASE row[r] = "pending" /\ row' = [row EXCEPT ![r] = d]
    <3>1. Permitted' = Permitted /\ executed' = executed
      BY <1>17, <2>1, <2>2 DEF DecideCommit, Permitted, AskedAndAllowed, TypeOK
    <3>2. Contract!Decide(r, d)
      BY <2>2, <3>1 DEF Contract!Decide, Permitted
    <3> QED
      BY <2>1, <3>2 DEF Contract!Next
  <2>3. CASE UNCHANGED row
    BY <1>17, <2>3, <1>a DEF DecideCommit
  <2> QED
    BY <1>17, <2>2, <2>3 DEF DecideCommit
<1>18. ASSUME NEW h \in Handlers, TakeWaiter(h) \/ Send(h) \/ GrantStanding(h)
       PROVE  Mapped
    BY <1>18, <1>a DEF TakeWaiter, Send, GrantStanding
<1>19. CASE ListPending
  <2>1. RowsKept
    BY <1>19, RowKept DEF ListPending, TypeOK, RowStates
  <2> QED
    BY <1>19, <2>1, ClosingIsExpiry DEF ListPending
<1>20. ASSUME \/ Restart \/ UNCHANGED vars
              \/ \E list \in SUBSET Tools, all \in BOOLEAN : ApplySettings(list, all)
              \/ \E f \in Flows : DeleteFlow(f) \/ \E x \in Tools : Preauthorize(f, x)
       PROVE  Mapped
    BY <1>20, <1>a
    DEF ApplySettings, Restart, DeleteFlow, Preauthorize, vars
<1> QED
    BY NextCases, <1>1, <1>2, <1>3, <1>4, <1>5, <1>6, <1>7, <1>8, <1>9, <1>10, <1>11,
       <1>12, <1>13, <1>14, <1>15, <1>16, <1>17, <1>18, <1>19, <1>20
    DEF Next, Progress, Decide

(* Waiters, routes, timers, teardowns, racing deciders, failing stores and *)
(* crashes together do nothing to the audit table, or to who is let        *)
(* through, that the contract does not allow.                              *)
THEOREM Refinement == Spec => ImplementsContract
<1>1. Init => Contract!Init
    BY NullDecision DEF Init, Contract!Init, AskedAndAllowed
<1>2. IInv /\ IInv' /\ [Next]_vars => [Contract!Next]_(Contract!vars)
    BY ContractStep
<1> QED
    BY <1>1, <1>2, Invariance, PTL DEF Spec, ImplementsContract, Contract!Spec
===============================================================================
