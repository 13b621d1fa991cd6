------------------------------ MODULE GatePolicy ------------------------------
(***************************************************************************)
(* What the approval gate decides about a tool call before anybody is      *)
(* asked: the ladder of shortcuts and the branch on the origin of the      *)
(* agent turn (security/approval/gate.rs, intercept_audited_inner).  Pure: *)
(* the settings the ladder reads are parameters.                           *)
(***************************************************************************)

CONSTANTS
    Threads,    \* chat threads
    Meetings,   \* live meetings
    Flows,      \* saved workflows
    Tools,      \* tools with an external effect
    NULL        \* "none"

ASSUME NullAssumption == NULL \notin Threads \cup Meetings \cup Flows \cup Tools

(* AgentTurnOrigin, by what the gate makes of it when no shortcut applies. *)
(* "goal" is GoalContinuation; "review_flow" and "flow" are Workflow with  *)
(* require_approval true and false.                                        *)
ParkingOrigins == {"web_chat", "external_channel", "goal", "review_flow"}
AllowedOrigins == {"cron", "subconscious", "flow", "cli"}
RefusedOrigins == {"tainted", "unknown"}
FlowOrigins    == {"flow", "review_flow"}
Origins        == ParkingOrigins \cup AllowedOrigins \cup RefusedOrigins

(* An intercepted call: the origin, the task-locals scoped around it (chat *)
(* thread, meeting, flow run) and whether its caller bounds the park.      *)
CallType == [origin  : Origins,
             tool    : Tools,
             flow    : Flows \cup {NULL},
             thread  : Threads \cup {NULL},
             meeting : Meetings \cup {NULL},
             bounded : BOOLEAN]

(* The trust grant a call of a flow may use.                               *)
Grant(c) == <<c.flow, c.tool>>
TrustedFlow(c, trust) == c.origin \in FlowOrigins /\ Grant(c) \in trust

(* is_auto_approve_all_enabled, with the two origins it never covers.      *)
CoveredByAll(c, all) == all /\ c.origin \notin RefusedOrigins

(* Mutant of Allowlisted: the bypass for goals and reviewed flows is gone. *)
Allowlisted_AnyOrigin(c, tools) == c.tool \in tools

(* tool_is_auto_approved, skipped for the two origins that must ask.       *)
Allowlisted(c, tools) == c.origin \notin {"goal", "review_flow"} /\ c.tool \in tools

(* "allow", "refuse" or "park".                                            *)
Verdict(c, trust, all, tools) ==
    IF TrustedFlow(c, trust) \/ CoveredByAll(c, all) \/ Allowlisted(c, tools)
    THEN "allow"
    ELSE CASE c.origin \in ParkingOrigins -> "park"
           [] c.origin \in AllowedOrigins -> "allow"
           [] c.origin \in RefusedOrigins -> "refuse"
===============================================================================
