----------------------------- MODULE ApprovalGate -----------------------------
(***************************************************************************)
(* The approval gate (security/approval/{gate,store,rpc}.rs).  A tool call *)
(* with an external effect is intercepted; unless a setting or its origin  *)
(* answers for it, a row is persisted and the call's future parks on a     *)
(* oneshot until someone decides, a deadline passes, its turn is torn      *)
(* down, or the core dies.  Deciders (the approval_decide RPC, a typed     *)
(* yes/no, a spoken one) run concurrently with the future and with each    *)
(* other; each lock and each SQL statement is a step of its own wherever   *)
(* another actor can observe what lies between.                            *)
(*                                                                         *)
(* A request stands for one intercepted call.  Time is abstract: due[r]    *)
(* says that the expires_at of r's row has passed.                         *)
(***************************************************************************)
EXTENDS GatePolicy, Naturals

CONSTANTS
    Requests,     \* intercepted calls; request ids are fresh UUIDs
    Handlers,     \* concurrent deciders
    Calls,        \* the calls that may arrive, a subset of CallType
    Offered,      \* the decisions an approval card offers
    StoreFaults,  \* whether a SQLite call may fail
    MaxEdits,     \* bound on changes of settings and flows
    MaxRestarts   \* bound on crashes of the core

ASSUME CallsAssumption ==
    /\ Calls \subseteq CallType /\ NULL \notin Calls
    /\ \A c \in Calls : (c.origin \in FlowOrigins) = (c.flow # NULL)
ASSUME BoundsAssumption ==
    StoreFaults \in BOOLEAN /\ MaxEdits \in Nat /\ MaxRestarts \in Nat
ASSUME IdsAssumption == NULL \notin Requests

Decisions == {"approve_once", "approve_always_for_tool",
              "approve_always_for_flow", "deny"}
Approvals == Decisions \ {"deny"}
Standing  == Approvals \ {"approve_once"}
Replies   == {"approve_once", "deny"}       \* what a yes/no can say
ASSUME OfferedAssumption == Offered \subseteq Decisions
ASSUME NullDecision == NULL \notin Decisions \cup {"allow", "deny"}

VARIABLES
    phase,          \* where the future of each call is
    call,           \* the call, once intercepted
    outcome,        \* what intercept returned, or how the park ended
    waiters,        \* requests whose sender is in the gate's waiter map
    sent,           \* the decision in the oneshot of each request
    threadRoute,    \* thread_to_request
    meetingRoute,   \* meeting_to_request
    row,            \* the pending_approvals table: state or decision of a row
    due,            \* whether the expires_at of a row has passed
    executed,       \* executed_at # NULL
    handler,        \* the deciders
    flowTrust,      \* the flow_tool_trust table
    autoApprove,    \* autonomy.auto_approve
    autoApproveAll, \* autonomy.auto_approve_all
    preauthorized,  \* grants the user gave on a pre-authorization card
    deleted,        \* flows whose flows_delete purged their trust
    edits, restarts

futureVars  == <<phase, call, outcome>>
memoryVars  == <<waiters, sent, threadRoute, meetingRoute>>
storeVars   == <<row, due, executed>>
trustVars   == <<flowTrust, autoApprove, autoApproveAll, preauthorized, deleted>>
vars == <<futureVars, memoryVars, storeVars, handler, trustVars, edits, restarts>>

(* unused -> registered -> parked -> [expired -> rereading ->] clearing,   *)
(* or parked -> torn -> torn_cleared, then done -> ran -> recorded; gone   *)
(* is what a crash leaves of a future.                                     *)
Waiting  == {"registered", "parked"}
Tearing  == {"expired", "rereading", "clearing", "torn"}
Phases   == {"unused", "torn_cleared", "done", "ran", "recorded", "gone"}
                \cup Waiting \cup Tearing
Outcomes == {"allow", "deny", "abandoned", "dropped"}

Idle == [at |-> "idle", req |-> NULL, dec |-> NULL, grants |-> FALSE]
HandlerType ==
    {Idle} \cup [at  : {"sweep", "commit", "notify", "holding", "grant"},
                 req : Requests, dec : Decisions, grants : BOOLEAN]

TypeOK ==
    /\ phase \in [Requests -> Phases]
    /\ call \in [Requests -> CallType \cup {NULL}]
    /\ outcome \in [Requests -> Outcomes \cup {NULL}]
    /\ waiters \subseteq Requests
    /\ sent \in [Requests -> Decisions \cup {NULL}]
    /\ threadRoute \in [Threads -> Requests \cup {NULL}]
    /\ meetingRoute \in [Meetings -> Requests \cup {NULL}]
    /\ row \in [Requests -> {"none", "pending"} \cup Decisions]
    /\ due \in [Requests -> BOOLEAN]
    /\ executed \in [Requests -> BOOLEAN]
    /\ handler \in [Handlers -> HandlerType]
    /\ flowTrust \subseteq Flows \X Tools
    /\ preauthorized \subseteq Flows \X Tools
    /\ autoApprove \subseteq Tools
    /\ autoApproveAll \in BOOLEAN
    /\ deleted \subseteq Flows
    /\ edits \in 0..MaxEdits
    /\ restarts \in 0..MaxRestarts

Init ==
    /\ phase = [r \in Requests |-> "unused"]
    /\ call = [r \in Requests |-> NULL]
    /\ outcome = [r \in Requests |-> NULL]
    /\ waiters = {}
    /\ sent = [r \in Requests |-> NULL]
    /\ threadRoute = [t \in Threads |-> NULL]
    /\ meetingRoute = [m \in Meetings |-> NULL]
    /\ row = [r \in Requests |-> "none"]
    /\ due = [r \in Requests |-> FALSE]
    /\ executed = [r \in Requests |-> FALSE]
    /\ handler = [h \in Handlers |-> Idle]
    /\ flowTrust = {} /\ preauthorized = {} /\ deleted = {}
    /\ autoApprove = {} /\ autoApproveAll = FALSE
    /\ edits = 0 /\ restarts = 0

-------------------------------------------------------------------------------
(* The store.                                                              *)

(* expire_stale_with_now: every open row past its expires_at is denied.    *)
Swept == [r \in Requests |-> IF row[r] = "pending" /\ due[r] THEN "deny" ELSE row[r]]

(* Mutants of DeniedIfOpen: WHERE decided_at IS NULL is dropped; the deny  *)
(* itself is forgotten after the sweep.                                    *)
DeniedIfOpen_Overwrites(r) == [Swept EXCEPT ![r] = "deny"]
DeniedIfOpen_SweepsOnly(r) == Swept

(* store::decide(Deny), sweep included, as the future and its guard call   *)
(* it: the first decision of a row stays.                                  *)
DeniedIfOpen(r) == [Swept EXCEPT ![r] = IF @ = "pending" THEN "deny" ELSE @]

(* A row reaches its expires_at; tracked while anything depends on it.     *)
Deadline(r) ==
    /\ row[r] = "pending" \/ phase[r] = "parked"
    /\ ~due[r]
    /\ due' = [due EXCEPT ![r] = TRUE]
    /\ UNCHANGED <<futureVars, memoryVars, row, executed, handler, trustVars,
                   edits, restarts>>

(* approval_list_pending: the listing sweeps first.                        *)
ListPending ==
    /\ row' = Swept
    /\ UNCHANGED <<futureVars, memoryVars, due, executed, handler, trustVars,
                   edits, restarts>>

-------------------------------------------------------------------------------
(* The future of an intercepted call.                                      *)

(* The trust grants the ladder gets to see: a failed lookup counts as no   *)
(* grant.                                                                  *)
TrustLookups == {flowTrust} \cup (IF StoreFaults THEN {{}} ELSE {})

(* The ladder answers at once: no row, nothing to record afterwards.       *)
Answer(r, c) ==
    /\ phase[r] = "unused"
    /\ \E trust \in TrustLookups :
         LET v == Verdict(c, trust, autoApproveAll, autoApprove) IN
         /\ v # "park"
         /\ outcome' = [outcome EXCEPT ![r] = IF v = "allow" THEN "allow" ELSE "deny"]
    /\ phase' = [phase EXCEPT ![r] = "done"]
    /\ call' = [call EXCEPT ![r] = c]
    /\ UNCHANGED <<memoryVars, storeVars, handler, trustVars, edits, restarts>>

(* The waiter and the routes are registered before the row exists.         *)
Register(r, c) ==
    /\ phase[r] = "unused"
    /\ \E trust \in TrustLookups :
         Verdict(c, trust, autoApproveAll, autoApprove) = "park"
    /\ phase' = [phase EXCEPT ![r] = "registered"]
    /\ call' = [call EXCEPT ![r] = c]
    /\ waiters' = waiters \cup {r}
    /\ threadRoute' = [t \in Threads |-> IF t = c.thread THEN r ELSE threadRoute[t]]
    /\ meetingRoute' = [m \in Meetings |-> IF m = c.meeting THEN r ELSE meetingRoute[m]]
    /\ UNCHANGED <<outcome, sent, storeVars, handler, trustVars, edits, restarts>>

(* insert_pending, then the await.                                         *)
Persist(r) ==
    /\ phase[r] = "registered"
    /\ phase' = [phase EXCEPT ![r] = "parked"]
    /\ row' = [row EXCEPT ![r] = "pending"]
    /\ UNCHANGED <<call, outcome, memoryVars, due, executed, handler, trustVars,
                   edits, restarts>>

(* insert_pending fails: evict, clear (the next step), deny.               *)
PersistFails(r) ==
    /\ StoreFaults /\ phase[r] = "registered"
    /\ phase' = [phase EXCEPT ![r] = "clearing"]
    /\ outcome' = [outcome EXCEPT ![r] = "deny"]
    /\ waiters' = waiters \ {r}
    /\ UNCHANGED <<call, sent, threadRoute, meetingRoute, storeVars, handler,
                   trustVars, edits, restarts>>

(* Mutant of Close: the decision itself is handed to the caller.           *)
Close_Raw(r, o) == /\ phase' = [phase EXCEPT ![r] = "clearing"]
                   /\ outcome' = [outcome EXCEPT ![r] = IF sent[r] # NULL THEN sent[r] ELSE o]

Close(r, o) == /\ phase' = [phase EXCEPT ![r] = "clearing"]
               /\ outcome' = [outcome EXCEPT ![r] = o]

(* Mutant of Wake: only approvals are handled.                             *)
Wake_ApprovalsOnly(r) ==
    /\ phase[r] = "parked" /\ sent[r] \in Approvals
    /\ Close(r, "allow")
    /\ UNCHANGED <<call, memoryVars, storeVars, handler, trustVars, edits, restarts>>

(* The oneshot delivers; a ready value wins over an elapsed timer.         *)
Wake(r) ==
    /\ phase[r] = "parked" /\ sent[r] # NULL
    /\ Close(r, IF sent[r] \in Approvals THEN "allow" ELSE "deny")
    /\ UNCHANGED <<call, memoryVars, storeVars, handler, trustVars, edits, restarts>>

(* The caller's park bound elapses: evict, leave the row open.             *)
BoundElapses(r) ==
    /\ phase[r] = "parked" /\ sent[r] = NULL /\ call[r].bounded
    /\ Close(r, "abandoned")
    /\ waiters' = waiters \ {r}
    /\ UNCHANGED <<call, sent, threadRoute, meetingRoute, storeVars, handler,
                   trustVars, edits, restarts>>

(* The gate's own TTL elapses, at or after expires_at: evict ...           *)
TtlElapses(r) ==
    /\ phase[r] = "parked" /\ sent[r] = NULL /\ ~call[r].bounded /\ due[r]
    /\ phase' = [phase EXCEPT ![r] = "expired"]
    /\ waiters' = waiters \ {r}
    /\ UNCHANGED <<call, outcome, sent, threadRoute, meetingRoute, storeVars,
                   handler, trustVars, edits, restarts>>

(* ... try to deny; a row somebody decided first is read back ...          *)
DenyExpired(r) ==
    /\ phase[r] = "expired"
    /\ row' = DeniedIfOpen(r)
    /\ phase' = [phase EXCEPT ![r] = "rereading"]
    /\ UNCHANGED <<call, outcome, memoryVars, due, executed, handler, trustVars,
                   edits, restarts>>

(* Mutants of Reread: a decided row counts as approved; the row is not     *)
(* consulted at all.                                                       *)
Reread_AnyDecision(r) ==
    /\ phase[r] = "rereading"
    /\ Close(r, IF row[r] \in Decisions THEN "allow" ELSE "deny")
    /\ UNCHANGED <<call, memoryVars, storeVars, handler, trustVars, edits, restarts>>
Reread_Denies(r) ==
    /\ phase[r] = "rereading"
    /\ Close(r, "deny")
    /\ UNCHANGED <<call, memoryVars, storeVars, handler, trustVars, edits, restarts>>

(* ... and an approval found there is honoured.                            *)
Reread(r) ==
    /\ phase[r] = "rereading"
    /\ Close(r, IF row[r] \in Approvals THEN "allow" ELSE "deny")
    /\ UNCHANGED <<call, memoryVars, storeVars, handler, trustVars, edits, restarts>>

(* Either store call of the TTL path fails, possibly after its effect.     *)
ExpiryFails(r) ==
    /\ StoreFaults /\ phase[r] \in {"expired", "rereading"}
    /\ row' \in {row, Swept, DeniedIfOpen(r)}
    /\ Close(r, "deny")
    /\ UNCHANGED <<call, memoryVars, due, executed, handler, trustVars, edits, restarts>>

(* Mutant of ClearedRoute: the route goes with the thread or meeting of    *)
(* the call, whichever request it names by now.                            *)
ClearedRoute_ByKey(route, r) ==
    [k \in DOMAIN route |-> IF k \in {call[r].thread, call[r].meeting} THEN NULL ELSE route[k]]

(* clear_*_route_if_owned.                                                 *)
ClearedRoute(route, r) == [k \in DOMAIN route |-> IF route[k] = r THEN NULL ELSE route[k]]

(* Mutant of ClearRoutes: the meeting route is forgotten.                  *)
ClearRoutes_ThreadOnly(r) ==
    /\ \/ phase[r] = "clearing" /\ phase' = [phase EXCEPT ![r] = "done"]
       \/ phase[r] = "torn" /\ phase' = [phase EXCEPT ![r] = "torn_cleared"]
    /\ threadRoute' = ClearedRoute(threadRoute, r)
    /\ UNCHANGED <<call, outcome, waiters, sent, meetingRoute, storeVars, handler,
                   trustVars, edits, restarts>>

(* Both routes are dropped, each only while it still names this request.   *)
ClearRoutes(r) ==
    /\ \/ phase[r] = "clearing" /\ phase' = [phase EXCEPT ![r] = "done"]
       \/ phase[r] = "torn" /\ phase' = [phase EXCEPT ![r] = "torn_cleared"]
    /\ threadRoute' = ClearedRoute(threadRoute, r)
    /\ meetingRoute' = ClearedRoute(meetingRoute, r)
    /\ UNCHANGED <<call, outcome, waiters, sent, storeVars, handler, trustVars,
                   edits, restarts>>

(* The turn is dropped while the call is parked: WaiterGuard::drop evicts  *)
(* the waiter, clears the routes (above), and denies the row.              *)
TearDown(r) ==
    /\ phase[r] = "parked"
    /\ phase' = [phase EXCEPT ![r] = "torn"]
    /\ outcome' = [outcome EXCEPT ![r] = "dropped"]
    /\ waiters' = waiters \ {r}
    /\ UNCHANGED <<call, sent, threadRoute, meetingRoute, storeVars, handler,
                   trustVars, edits, restarts>>

DenyTorn(r) ==
    /\ phase[r] = "torn_cleared"
    /\ row' \in {DeniedIfOpen(r)} \cup (IF StoreFaults THEN {row, Swept} ELSE {})
    /\ phase' = [phase EXCEPT ![r] = "done"]
    /\ UNCHANGED <<call, outcome, memoryVars, due, executed, handler, trustVars,
                   edits, restarts>>

(* The caller runs the tool ...                                            *)
RunTool(r) ==
    /\ phase[r] = "done" /\ outcome[r] = "allow"
    /\ phase' = [phase EXCEPT ![r] = "ran"]
    /\ UNCHANGED <<call, outcome, memoryVars, storeVars, handler, trustVars,
                   edits, restarts>>

(* ... and, when intercept handed it a request id, records the terminal    *)
(* status; the row takes the first one only, and a failure is logged.      *)
RecordExecution(r) ==
    /\ phase[r] = "ran" /\ row[r] # "none"
    /\ phase' = [phase EXCEPT ![r] = "recorded"]
    /\ executed' \in
         {[executed EXCEPT ![r] = @ \/ row[r] \in Decisions]}
            \cup (IF StoreFaults THEN {executed} ELSE {})
    /\ UNCHANGED <<call, outcome, memoryVars, row, due, handler, trustVars,
                   edits, restarts>>

-------------------------------------------------------------------------------
(* The deciders.  A target is chosen first and decided later.              *)

Target(h, r, d, grants) ==
    /\ handler[h] = Idle
    /\ handler' = [handler EXCEPT ![h] =
         [at |-> "sweep", req |-> r, dec |-> d, grants |-> grants]]
    /\ UNCHANGED <<futureVars, memoryVars, storeVars, trustVars, edits, restarts>>

(* approval_decide on a card, which may be stale; only the RPC goes on to  *)
(* persist a standing decision.                                            *)
CardDecision(h, r, d) == row[r] # "none" /\ Target(h, r, d, d \in Standing)

(* A typed or spoken yes/no goes to the request its route names.           *)
ThreadReply(h, t, d)  == threadRoute[t] # NULL /\ Target(h, threadRoute[t], d, FALSE)
MeetingReply(h, m, d) == meetingRoute[m] # NULL /\ Target(h, meetingRoute[m], d, FALSE)

Finish(h) == handler' = [handler EXCEPT ![h] = Idle]
Goto(h, p) == handler' = [handler EXCEPT ![h].at = p]

(* store::decide sweeps ...                                                *)
DecideSweep(h) ==
    /\ handler[h].at = "sweep"
    /\ \/ row' = Swept /\ Goto(h, "commit")
       \/ StoreFaults /\ row' \in {row, Swept} /\ Finish(h)
    /\ UNCHANGED <<futureVars, memoryVars, due, executed, trustVars, edits, restarts>>

(* Mutant of DecideCommit: whoever loses the race notifies all the same.   *)
DecideCommit_LoserNotifies(h) ==
    LET r == handler[h].req IN
    /\ handler[h].at = "commit"
    /\ row' = IF row[r] = "pending" THEN [row EXCEPT ![r] = handler[h].dec] ELSE row
    /\ Goto(h, "notify")
    /\ UNCHANGED <<futureVars, memoryVars, due, executed, trustVars, edits, restarts>>

(* ... then updates the row WHERE decided_at IS NULL; the read-back of the *)
(* row may fail after the update took effect.                              *)
DecideCommit(h) ==
    LET r == handler[h].req IN
    /\ handler[h].at = "commit"
    /\ \/ /\ row[r] = "pending"
          /\ row' = [row EXCEPT ![r] = handler[h].dec]
          /\ Goto(h, "notify") \/ (StoreFaults /\ Finish(h))
       \/ /\ row[r] # "pending" \/ StoreFaults
          /\ Finish(h)
          /\ UNCHANGED row
    /\ UNCHANGED <<futureVars, memoryVars, due, executed, trustVars, edits, restarts>>

AfterNotify(h) == IF handler[h].grants THEN Goto(h, "grant") ELSE Finish(h)

(* Mutant of TakeWaiter: the sender is taken and dropped.                  *)
TakeWaiter_Drops(h) ==
    /\ handler[h].at = "notify"
    /\ waiters' = waiters \ {handler[h].req}
    /\ AfterNotify(h)
    /\ UNCHANGED <<futureVars, sent, threadRoute, meetingRoute, storeVars, trustVars,
                   edits, restarts>>

(* take_waiter.                                                            *)
TakeWaiter(h) ==
    LET r == handler[h].req IN
    /\ handler[h].at = "notify"
    /\ waiters' = waiters \ {r}
    /\ IF r \in waiters THEN Goto(h, "holding") ELSE AfterNotify(h)
    /\ UNCHANGED <<futureVars, sent, threadRoute, meetingRoute, storeVars, trustVars,
                   edits, restarts>>

(* tx.send: lost unless the receiver is still awaited.                     *)
Send(h) ==
    LET r == handler[h].req IN
    /\ handler[h].at = "holding"
    /\ sent' = [sent EXCEPT ![r] = IF phase[r] = "parked" THEN handler[h].dec ELSE @]
    /\ AfterNotify(h)
    /\ UNCHANGED <<futureVars, waiters, threadRoute, meetingRoute, storeVars, trustVars,
                   edits, restarts>>

(* Mutant of NewTrust: "always" for the tool trusts it in the flow too.    *)
NewTrust_AnyAlways(h) == {g \in {Grant(call[handler[h].req])} :
                            handler[h].dec \in Standing /\ g[1] # NULL}

(* The RPC persists an "always" decision, best effort: the tool onto the   *)
(* allowlist, or the pair onto the trust of the flow the row names.        *)
NewTools(h) == {x \in {call[handler[h].req].tool} :
                  handler[h].dec = "approve_always_for_tool"}
NewTrust(h) == {g \in {Grant(call[handler[h].req])} :
                  handler[h].dec = "approve_always_for_flow" /\ g[1] # NULL}

GrantStanding(h) ==
    /\ handler[h].at = "grant"
    /\ \/ /\ autoApprove' = autoApprove \cup NewTools(h)
          /\ flowTrust' = flowTrust \cup NewTrust(h)
       \/ StoreFaults /\ UNCHANGED <<flowTrust, autoApprove>>
    /\ Finish(h)
    /\ UNCHANGED <<futureVars, memoryVars, storeVars, autoApproveAll, preauthorized,
                   deleted, edits, restarts>>

-------------------------------------------------------------------------------
(* Settings, flows, and the process.                                       *)

Edit == edits < MaxEdits /\ edits' = edits + 1

(* apply_autonomy_settings: one save replaces the list, the blanket flag,  *)
(* or both.                                                                *)
ApplySettings(allowlist, all) ==
    /\ Edit
    /\ autoApprove' = allowlist /\ autoApproveAll' = all
    /\ UNCHANGED <<futureVars, memoryVars, storeVars, handler, flowTrust, preauthorized,
                   deleted, restarts>>

(* approval_preauthorize_flow, one tool of the card.  Nothing checks that   *)
(* the flow still exists.                                                  *)
Preauthorize(f, x) ==
    /\ Edit
    /\ flowTrust' = flowTrust \cup {<<f, x>>}
    /\ preauthorized' = preauthorized \cup {<<f, x>>}
    /\ UNCHANGED <<futureVars, memoryVars, storeVars, handler, autoApprove,
                   autoApproveAll, deleted, restarts>>

(* flows_delete: the row of the flow goes, then its trust.  A run of the   *)
(* flow that is parked stays parked.                                       *)
DeleteFlow(f) ==
    /\ Edit
    /\ f \notin deleted
    /\ deleted' = deleted \cup {f}
    /\ flowTrust' = {g \in flowTrust : g[1] # f}
    /\ UNCHANGED <<futureVars, memoryVars, storeVars, handler, autoApprove,
                   autoApproveAll, preauthorized, restarts>>

(* The core dies and comes back: the store and the settings stay.          *)
Restart ==
    /\ restarts < MaxRestarts
    /\ restarts' = restarts + 1
    /\ phase' = [r \in Requests |-> IF phase[r] = "unused" THEN "unused" ELSE "gone"]
    /\ waiters' = {}
    /\ sent' = [r \in Requests |-> NULL]
    /\ threadRoute' = [t \in Threads |-> NULL]
    /\ meetingRoute' = [m \in Meetings |-> NULL]
    /\ handler' = [h \in Handlers |-> Idle]
    /\ UNCHANGED <<call, outcome, storeVars, trustVars, edits>>

-------------------------------------------------------------------------------
(* What the gate does for a request once it waits, without anybody's help. *)
Progress(r) ==
    \/ Persist(r) \/ PersistFails(r) \/ Wake(r) \/ BoundElapses(r) \/ TtlElapses(r)
    \/ DenyExpired(r) \/ Reread(r) \/ ExpiryFails(r) \/ ClearRoutes(r) \/ DenyTorn(r)

Decide(h) ==
    DecideSweep(h) \/ DecideCommit(h) \/ TakeWaiter(h) \/ Send(h) \/ GrantStanding(h)

Next ==
    \/ \E r \in Requests :
         \/ \E c \in Calls : Answer(r, c) \/ Register(r, c)
         \/ Progress(r) \/ Deadline(r) \/ TearDown(r) \/ RunTool(r) \/ RecordExecution(r)
    \/ \E h \in Handlers :
         \/ \E r \in Requests, d \in Offered : CardDecision(h, r, d)
         \/ \E t \in Threads, d \in Replies : ThreadReply(h, t, d)
         \/ \E m \in Meetings, d \in Replies : MeetingReply(h, m, d)
         \/ Decide(h)
    \/ ListPending \/ Restart
    \/ \E list \in SUBSET Tools, all \in BOOLEAN : ApplySettings(list, all)
    \/ \E f \in Flows : DeleteFlow(f) \/ \E x \in Tools : Preauthorize(f, x)

Spec == Init /\ [][Next]_vars

(* The runtime polls a ready future, a timer fires, a decider that started *)
(* goes on, and time passes.  Nobody is obliged to decide, to tear a turn  *)
(* down, or to run the tool.                                               *)
FairSpec ==
    /\ Spec
    /\ \A r \in Requests : WF_vars(Progress(r)) /\ WF_vars(Deadline(r))
    /\ \A h \in Handlers : WF_vars(Decide(h))
-------------------------------------------------------------------------------
(* Safety.                                                                 *)

AskedAndAllowed(r) == outcome[r] = "allow" /\ row[r] # "none"

(* A call that had to ask is let through only if the durable row of its    *)
(* own request holds an approval: not on a timeout, not on the decision of *)
(* another request, not on a decision the store refused.                   *)
AllowNeedsApproval == \A r \in Requests : AskedAndAllowed(r) => row[r] \in Approvals

(* What a parked future receives is what the store keeps: of two deciders  *)
(* that race, the one that committed is the one that is heard.             *)
DeliveredIsDurable == \A r \in Requests : sent[r] # NULL => sent[r] = row[r]

(* A parked call whose oneshot is empty still has a sender, in the map or  *)
(* in the hands of the decider about to use it: the gate's "decision       *)
(* channel dropped" arm is unreachable and no decision is lost to it.      *)
SenderNeverLost ==
    \A r \in Requests : phase[r] = "parked" /\ sent[r] = NULL =>
        \/ r \in waiters
        \/ \E h \in Handlers : handler[h].at = "holding" /\ handler[h].req = r

(* No reply is routed to a dead request (#4774): a route names a call that *)
(* waits, or one whose teardown is still under way.                        *)
NoDeadRouting ==
    /\ \A t \in Threads  : threadRoute[t] # NULL  => phase[threadRoute[t]] \in Waiting \cup Tearing
    /\ \A m \in Meetings : meetingRoute[m] # NULL => phase[meetingRoute[m]] \in Waiting \cup Tearing

(* Teardown of an older call never unroutes the call parked after it on    *)
(* the same thread or meeting: a route goes only when its own request      *)
(* stops waiting (#4774).                                                  *)
RouteOutlivesOthers ==
    [][/\ \A t \in Threads : threadRoute[t] # NULL /\ threadRoute'[t] = NULL
                               => phase'[threadRoute[t]] \notin Waiting
       /\ \A m \in Meetings : meetingRoute[m] # NULL /\ meetingRoute'[m] = NULL
                               => phase'[meetingRoute[m]] \notin Waiting]_vars

(* With a store that works, what intercept returned and what the audit row *)
(* says agree: a denied call never has an approved row (#2367).            *)
OutcomeAgreesWithRow ==
    \A r \in Requests : outcome[r] = "deny" /\ row[r] # "none" => row[r] = "deny"

(* With a store that works, a call that is over leaves an open row behind  *)
(* only when its caller's bound abandoned it on purpose.                   *)
NoOpenRowBehind ==
    \A r \in Requests :
        phase[r] = "done" /\ row[r] = "pending" => outcome[r] = "abandoned"

(* With a store that works, a decision never stays in the store while the  *)
(* call it is for sleeps on: between the commit and the wake-up there is   *)
(* always a decider on its way to the oneshot, except for a row the sweep  *)
(* denied, whose call is woken by its own deadline.                        *)
DecisionUnderway ==
    \A r \in Requests :
        phase[r] = "parked" /\ row[r] \in Decisions /\ sent[r] = NULL =>
            \/ \E h \in Handlers :
                 handler[h].at \in {"notify", "holding"} /\ handler[h].req = r
            \/ row[r] = "deny" /\ due[r]

(* Every grant of flow trust goes back to a decision of the user about     *)
(* that very tool in that very flow: an "always for this flow" answer to a *)
(* call of the pair, or a pre-authorization of the pair.                   *)
TrustProvenance ==
    \A g \in flowTrust :
        \/ g \in preauthorized
        \/ \E r \in Requests :
             call[r] # NULL /\ Grant(call[r]) = g /\ row[r] = "approve_always_for_flow"

(* A goal continuation or a flow that requires approval is let through     *)
(* unasked only on the blanket setting or on the trust of its own flow,    *)
(* never on the per-tool allowlist.                                        *)
ReviewNeedsConsent ==
    [][\A r \in Requests :
         (/\ outcome[r] = NULL /\ outcome'[r] = "allow" /\ row[r] = "none"
          /\ call'[r].origin \in {"goal", "review_flow"})
         => autoApproveAll \/ Grant(call'[r]) \in flowTrust]_vars

(* The gate implements its contract: rows are decided once and for all, a  *)
(* call passes only on its own approval, and is recorded executed only if  *)
(* it passed, whatever the deciders, timers, teardowns and crashes do.     *)
Contract == INSTANCE ApprovalContract
              WITH permitted <- {r \in Requests : AskedAndAllowed(r)}
ImplementsContract == Contract!Spec

-------------------------------------------------------------------------------
(* Liveness, under FairSpec.                                               *)

Over(r) == phase[r] \in {"done", "ran", "recorded", "gone"}

(* No call parks forever: with or without an answer, its turn goes on.     *)
ParkResolves == \A r \in Requests : phase[r] \in Waiting ~> Over(r)

(* With a store that works, an approval committed while the call is parked *)
(* lets it through, unless its caller gave up or the core died.            *)
ApprovalDelivered ==
    \A r \in Requests :
        phase[r] = "parked" /\ row[r] \in Approvals
          ~> outcome[r] \in {"allow", "abandoned", "dropped"} \/ phase[r] = "gone"

===============================================================================
