---------------------------- MODULE TaskDispatcher ----------------------------
(***************************************************************************)
(* Autonomous runs of task cards (agent/task_dispatcher, threads/todos/    *)
(* runs.rs).  The poller and the triage arm dispatch the cards of a board: *)
(* a claim moves a card to in_progress, a run record follows its liveness, *)
(* a detached task runs the agent, and whoever takes the run out of the    *)
(* registry, the task at its end or a cancel, writes the outcome back to   *)
(* the card.  Before it dispatches, the poller reclaims the cards of runs  *)
(* whose record has gone stale.                                            *)
(*                                                                         *)
(* The board store is external (a vendored crate): each of its operations  *)
(* is atomic, a claim compares and sets, and a claim is refused while      *)
(* another card of the board is in progress.  Board and records survive a  *)
(* crash; files are taken to be writable.  Prompts, executors, urgency and *)
(* the session thread's messages are left out.                             *)
(***************************************************************************)
EXTENDS Naturals, FiniteSets

CONSTANTS
    Cards,        \* the cards of one board
    Gated,        \* the cards that need plan approval
    Runs,         \* run ids; a fresh UUID each
    Pollers,      \* the poller loop (one)
    Callers,      \* other callers: a triage arm with a decision on a card,
                  \* or the todos reclaim_stale RPC
    NULL,
    MaxReclaims,  \* RunLimits::max_reclaim_count
    LongRuns,     \* whether a run may outlive claim_ttl_secs
    CrashAnywhere,\* whether a crash may hit the two windows of InWindow
    MaxCrashes,   \* bound on crashes
    MaxRequeues   \* bound on cards a user puts back to todo

Procs == Pollers \cup Callers

ASSUME BoardAssumption ==
    /\ Gated \subseteq Cards
    /\ IsFiniteSet(Runs)
    /\ NULL \notin Cards \cup Runs
    /\ Pollers \cap Callers = {}
ASSUME BoundsAssumption ==
    /\ {MaxReclaims, MaxCrashes, MaxRequeues} \subseteq Nat
    /\ {LongRuns, CrashAnywhere} \subseteq BOOLEAN

VARIABLES
    card,      \* TaskBoardCard.status
    record,    \* TaskRun: none, active, or its outcome
    stale,     \* records past claim_ttl_secs or heartbeat_stale_secs
    cardOf,    \* the card a run was claimed for
    worker,    \* the detached task of a run
    threaded,  \* runs with a session thread
    active,    \* ACTIVE_RUNS; a session thread belongs to one run
    write,     \* how far the write-back of a run is
    result,    \* the outcome a run is written back with
    at,        \* where the poller or a caller is
    listed,    \* the stale runs a sweep has yet to handle
    target,    \* the card a process is about
    run,       \* the run a process is about
    crashes,   \* bound: crashes so far
    requeues,  \* bound: cards put back so far
    writers    \* history: write-backs begun for a run

boardVars  == <<card, record, stale>>
runVars    == <<cardOf, worker, threaded, active, write, result, writers>>
procVars   == <<at, listed, target, run>>
bounds     == <<crashes, requeues>>
vars == <<boardVars, runVars, procVars, bounds>>

Statuses == {"todo", "awaiting", "ready", "in_progress", "done", "blocked",
             "rejected"}
Outcomes == {"success", "failed", "reclaimed"}
Alive == {"claimed", "running", "ended ok", "ended err"}

Init ==
    /\ card = [c \in Cards |-> "todo"]
    /\ record = [r \in Runs |-> "none"]
    /\ stale = {}
    /\ cardOf = [r \in Runs |-> NULL]
    /\ worker = [r \in Runs |-> "none"]
    /\ threaded = {} /\ active = {}
    /\ write = [r \in Runs |-> "no"]
    /\ result = [r \in Runs |-> "none"]
    /\ at = [p \in Procs |-> "idle"]
    /\ listed = [p \in Procs |-> {}]
    /\ target = [p \in Procs |-> NULL]
    /\ run = [p \in Procs |-> NULL]
    /\ crashes = 0 /\ requeues = 0
    /\ writers = [r \in Runs |-> 0]

Goto(p, place) == at' = [at EXCEPT ![p] = place]
SetCard(c, status) == card' = [card EXCEPT ![c] = status]
InProgress == {c \in Cards : card[c] = "in_progress"}

-----------------------------------------------------------------------------
(* Reclaim: runs::reclaim_stale.                                           *)

(* Without claim_ttl_secs: only missing heartbeats make a record stale.    *)
Age_HeartbeatOnly(r) ==
    /\ record[r] = "active"
    /\ r \notin stale
    /\ worker[r] \notin Alive /\ write[r] \in {"no", "lost"}
    /\ stale' = stale \cup {r}
    /\ UNCHANGED <<card, record, runVars, procVars, bounds>>

(* A record goes stale: with a live worker its heartbeats stop only it     *)
(* being past the claim TTL; without one they have stopped.                *)
Age(r) ==
    /\ record[r] = "active"
    /\ r \notin stale
    /\ LongRuns \/ (worker[r] \notin Alive /\ write[r] \in {"no", "lost"})
    /\ stale' = stale \cup {r}
    /\ UNCHANGED <<card, record, runVars, procVars, bounds>>

(* find_stale_runs; the poller's tick starts with it.                      *)
FindStale(p) ==
    /\ at[p] = "idle"
    /\ listed' = [listed EXCEPT ![p] =
                     {r \in Runs : record[r] = "active" /\ r \in stale}]
    /\ Goto(p, "sweeping")
    /\ UNCHANGED <<boardVars, runVars, target, run, bounds>>

(* complete_run with Reclaimed; a run completed meanwhile is passed over.  *)
ReclaimRecord(p, r) ==
    /\ at[p] = "sweeping"
    /\ r \in listed[p]
    /\ listed' = [listed EXCEPT ![p] = @ \ {r}]
    /\ IF record[r] = "active"
       THEN /\ record' = [record EXCEPT ![r] = "reclaimed"]
            /\ run' = [run EXCEPT ![p] = r]
            /\ Goto(p, "reclaiming")
       ELSE UNCHANGED <<record, run, at>>
    /\ UNCHANGED <<card, stale, runVars, target, bounds>>

Reclaims(c) ==
    Cardinality({r \in Runs : cardOf[r] = c /\ record[r] = "reclaimed"})

(* The card back to todo, or blocked once it has been reclaimed too often. *)
ReclaimCard(p) ==
    /\ at[p] = "reclaiming"
    /\ LET c == cardOf[run[p]]
       IN  SetCard(c, IF Reclaims(c) >= MaxReclaims THEN "blocked" ELSE "todo")
    /\ run' = [run EXCEPT ![p] = NULL]
    /\ Goto(p, "sweeping")
    /\ UNCHANGED <<record, stale, runVars, listed, target, bounds>>

EndSweep(p) ==
    /\ p \in Callers
    /\ at[p] = "sweeping" /\ listed[p] = {}
    /\ Goto(p, "done")
    /\ UNCHANGED <<boardVars, runVars, listed, target, run, bounds>>

-----------------------------------------------------------------------------
(* Dispatch: poll_board, dispatch_linked_card, dispatch_card.              *)

(* The plan-approval gate comes first for a card that needs it.            *)
Dispatch(p, c) ==
    /\ target' = [target EXCEPT ![p] = c]
    /\ Goto(p, IF c \in Gated THEN "parking" ELSE "claiming")

(* The poller reads the board once its sweep is over.                      *)
PickCard(p) ==
    /\ p \in Pollers
    /\ at[p] = "sweeping" /\ listed[p] = {}
    /\ InProgress = {}
    /\ \E c \in Cards : card[c] \in {"todo", "ready"} /\ Dispatch(p, c)
    /\ UNCHANGED <<boardVars, runVars, listed, run, bounds>>

PickNothing(p) ==
    /\ p \in Pollers
    /\ at[p] = "sweeping" /\ listed[p] = {}
    /\ InProgress # {} \/ \A c \in Cards : card[c] \notin {"todo", "ready"}
    /\ Goto(p, "idle")
    /\ UNCHANGED <<boardVars, runVars, listed, target, run, bounds>>

(* Triage decides to act on the card of a trigger.                         *)
TriageActs(p, c) ==
    /\ p \in Callers
    /\ at[p] = "idle"
    /\ Dispatch(p, c)
    /\ UNCHANGED <<boardVars, runVars, listed, run, bounds>>

Finish(p) ==
    /\ Goto(p, IF p \in Callers THEN "done" ELSE "idle")
    /\ target' = [target EXCEPT ![p] = NULL]

(* The first claim: todo to awaiting approval, or fall through.            *)
ParkForApproval(p) ==
    /\ at[p] = "parking"
    /\ IF card[target[p]] = "todo"
       THEN SetCard(target[p], "awaiting") /\ Finish(p)
       ELSE Goto(p, "claiming") /\ UNCHANGED <<card, target>>
    /\ UNCHANGED <<record, stale, runVars, listed, run, bounds>>

Claimable(c) == card[c] \in {"todo", "ready"} /\ InProgress = {}

Claim(p) ==
    /\ at[p] = "claiming"
    /\ Claimable(target[p])
    /\ \E r \in Runs :
          /\ worker[r] = "none"
          /\ SetCard(target[p], "in_progress")
          /\ cardOf' = [cardOf EXCEPT ![r] = target[p]]
          /\ worker' = [worker EXCEPT ![r] = "claimed"]
          /\ run' = [run EXCEPT ![p] = r]
    /\ Goto(p, "recording")
    /\ UNCHANGED <<record, stale, threaded, active, write, result, writers,
                   listed, target, bounds>>

ClaimRejected(p) ==
    /\ at[p] = "claiming"
    /\ ~Claimable(target[p])
    /\ Finish(p)
    /\ UNCHANGED <<boardVars, runVars, listed, run, bounds>>

(* create_run; the heartbeats start.                                       *)
CreateRun(p) ==
    /\ at[p] = "recording"
    /\ record' = [record EXCEPT ![run[p]] = "active"]
    /\ Goto(p, "launching")
    /\ UNCHANGED <<card, stale, runVars, listed, target, run, bounds>>

(* The task is held back until its run is in the registry, under the       *)
(* session thread; a run whose thread cannot be created has no entry.      *)
Launch(p) ==
    /\ at[p] = "launching"
    /\ worker' = [worker EXCEPT ![run[p]] = "running"]
    /\ \/ threaded' = threaded \cup {run[p]} /\ active' = active \cup {run[p]}
       \/ UNCHANGED <<threaded, active>>
    /\ run' = [run EXCEPT ![p] = NULL]
    /\ Finish(p)
    /\ UNCHANGED <<boardVars, cardOf, write, result, writers, listed,
                   bounds>>

-----------------------------------------------------------------------------
(* The run and its write-back.                                             *)

(* The agent marks its card blocked with update_task and runs on; it is    *)
(* told to set no other status (update_task would take one).               *)
SelfBlock(r) ==
    /\ worker[r] = "running"
    /\ SetCard(cardOf[r], "blocked")
    /\ UNCHANGED <<record, stale, runVars, procVars, bounds>>

RunEnds(r) ==
    /\ worker[r] = "running"
    /\ worker' \in {[worker EXCEPT ![r] = "ended ok"],
                    [worker EXCEPT ![r] = "ended err"]}
    /\ UNCHANGED <<boardVars, cardOf, threaded, active, write, result,
                   writers, procVars, bounds>>

(* write_back begins: a run that succeeded looks at the card first.        *)
WriteBack(r, outcome) ==
    /\ write' = [write EXCEPT ![r] = IF outcome = "ok" THEN "reading"
                                     ELSE "editing"]
    /\ result' = [result EXCEPT ![r] = outcome]
    /\ writers' = [writers EXCEPT ![r] = @ + 1]

(* The task writes back without asking the registry.                       *)
TakeOwn_Unchecked(r) ==
    /\ worker[r] \in {"ended ok", "ended err"}
    /\ worker' = [worker EXCEPT ![r] = "over"]
    /\ active' = active \ {r}
    /\ WriteBack(r, IF worker[r] = "ended ok" THEN "ok" ELSE "err")
    /\ UNCHANGED <<boardVars, cardOf, threaded, procVars, bounds>>

(* The task writes back if it takes the entry; no thread, no entry.        *)
TakeOwn(r) ==
    /\ worker[r] \in {"ended ok", "ended err"}
    /\ worker' = [worker EXCEPT ![r] = "over"]
    /\ active' = active \ {r}
    /\ IF r \in threaded => r \in active
       THEN WriteBack(r, IF worker[r] = "ended ok" THEN "ok" ELSE "err")
       ELSE UNCHANGED <<write, result, writers>>
    /\ UNCHANGED <<boardVars, cardOf, threaded, procVars, bounds>>

(* The cancel looks the entry up and leaves it in the registry.            *)
Cancel_KeepsEntry(r) ==
    /\ r \in active
    /\ worker' = IF worker[r] = "running"
                 THEN [worker EXCEPT ![r] = "over"] ELSE worker
    /\ WriteBack(r, "err")
    /\ UNCHANGED <<boardVars, cardOf, threaded, active, procVars, bounds>>

(* cancel_session: the entry is taken, the task aborted.  A task past its  *)
(* last await goes on.                                                     *)
Cancel(r) ==
    /\ r \in active
    /\ active' = active \ {r}
    /\ worker' = IF worker[r] = "running"
                 THEN [worker EXCEPT ![r] = "over"] ELSE worker
    /\ WriteBack(r, "err")
    /\ UNCHANGED <<boardVars, cardOf, threaded, procVars, bounds>>

(* The test for a card the run has blocked is the wrong way round.         *)
ReadStatus_Negated(r) ==
    /\ write[r] = "reading"
    /\ write' = [write EXCEPT ![r] = IF card[cardOf[r]] = "blocked"
                                     THEN "editing" ELSE "completing"]
    /\ UNCHANGED <<boardVars, cardOf, worker, threaded, active, result,
                   writers, procVars, bounds>>

(* A card the run has blocked itself is left alone.                        *)
ReadStatus(r) ==
    /\ write[r] = "reading"
    /\ write' = [write EXCEPT ![r] = IF card[cardOf[r]] = "blocked"
                                     THEN "completing" ELSE "editing"]
    /\ UNCHANGED <<boardVars, cardOf, worker, threaded, active, result,
                   writers, procVars, bounds>>

EditCard(r) ==
    /\ write[r] = "editing"
    /\ SetCard(cardOf[r], IF result[r] = "ok" THEN "done" ELSE "blocked")
    /\ write' = [write EXCEPT ![r] = "completing"]
    /\ UNCHANGED <<record, stale, cardOf, worker, threaded, active, result,
                   writers, procVars, bounds>>

(* complete_run; a reclaimed record keeps its outcome.                     *)
CompleteRun(r) ==
    /\ write[r] = "completing"
    /\ write' = [write EXCEPT ![r] = "done"]
    /\ record' = IF record[r] = "active"
                 THEN [record EXCEPT ![r] = IF result[r] = "ok" THEN "success"
                                            ELSE "failed"]
                 ELSE record
    /\ UNCHANGED <<card, stale, cardOf, worker, threaded, active, result,
                   writers, procVars, bounds>>

-----------------------------------------------------------------------------
(* Users, triage that drops a trigger, and the machine.                    *)

DecidePlan(c) ==
    /\ card[c] = "awaiting"
    /\ \E status \in {"ready", "rejected"} : SetCard(c, status)
    /\ UNCHANGED <<record, stale, runVars, procVars, bounds>>

Requeue(c) ==
    /\ card[c] \in {"blocked", "rejected"}
    /\ requeues < MaxRequeues
    /\ requeues' = requeues + 1
    /\ SetCard(c, "todo")
    /\ UNCHANGED <<record, stale, runVars, procVars, crashes>>

(* gate_linked_card_terminal: the status is read, ...                      *)
TriageDrops(p, c) ==
    /\ p \in Callers
    /\ at[p] = "idle"
    /\ IF card[c] \in {"todo", "ready", "awaiting"}
       THEN target' = [target EXCEPT ![p] = c] /\ Goto(p, "gating")
       ELSE Goto(p, "done") /\ UNCHANGED target
    /\ UNCHANGED <<boardVars, runVars, listed, run, bounds>>

(* ... then the card set to rejected, whatever it has become.              *)
GateCard(p) ==
    /\ at[p] = "gating"
    /\ SetCard(target[p], "rejected")
    /\ Finish(p)
    /\ UNCHANGED <<record, stale, runVars, listed, run, bounds>>

(* A claim without a record yet, and a reclaimed record whose card is not  *)
(* yet back.                                                               *)
InWindow ==
    \E p \in Procs : at[p] \in {"recording", "reclaiming"}

Crash ==
    /\ crashes < MaxCrashes
    /\ CrashAnywhere \/ ~InWindow
    /\ crashes' = crashes + 1
    /\ worker' = [r \in Runs |-> IF worker[r] = "none" THEN "none" ELSE "over"]
    /\ active' = {}
    /\ write' = [r \in Runs |->
                    IF write[r] \in {"reading", "editing", "completing"}
                    THEN "lost" ELSE write[r]]
    /\ at' = [p \in Procs |-> IF p \in Pollers THEN "idle" ELSE "done"]
    /\ listed' = [p \in Procs |-> {}]
    /\ target' = [p \in Procs |-> NULL]
    /\ run' = [p \in Procs |-> NULL]
    /\ UNCHANGED <<boardVars, cardOf, threaded, result, writers, requeues>>

-----------------------------------------------------------------------------
SweepStep(p) ==
    \/ FindStale(p)
    \/ \E r \in Runs : ReclaimRecord(p, r)
    \/ ReclaimCard(p)
    \/ EndSweep(p)
DispatchStep(p) ==
    \/ PickCard(p) \/ PickNothing(p)
    \/ ParkForApproval(p) \/ Claim(p) \/ ClaimRejected(p)
    \/ CreateRun(p) \/ Launch(p)
    \/ GateCard(p)
TriageStep(p) == \E c \in Cards : TriageActs(p, c) \/ TriageDrops(p, c)
WriteStep(r) ==
    TakeOwn(r) \/ ReadStatus(r) \/ EditCard(r) \/ CompleteRun(r)
RunStep(r) == SelfBlock(r) \/ RunEnds(r) \/ Cancel(r) \/ WriteStep(r)
UserStep(c) == DecidePlan(c) \/ Requeue(c)

Next ==
    \/ \E p \in Procs : SweepStep(p) \/ DispatchStep(p) \/ TriageStep(p)
    \/ \E r \in Runs : RunStep(r) \/ Age(r)
    \/ \E c \in Cards : UserStep(c)
    \/ Crash

Spec == Init /\ [][Next]_vars

(* The poller comes round (background capacity is granted again and again, *)
(* and its back-off is capped), what it began it goes through with, and    *)
(* the record of a run that stays active goes stale.  Nothing is assumed   *)
(* of the runs: an agent may never come to an end.                         *)
Fairness ==
    /\ \A p \in Procs : WF_vars(SweepStep(p) \/ DispatchStep(p))
    /\ \A r \in Runs : WF_vars(Age(r)) /\ WF_vars(WriteStep(r))

FairSpec == Spec /\ Fairness

-----------------------------------------------------------------------------
TypeOK ==
    /\ card \in [Cards -> Statuses]
    /\ record \in [Runs -> {"none", "active"} \cup Outcomes]
    /\ stale \subseteq Runs
    /\ cardOf \in [Runs -> Cards \cup {NULL}]
    /\ worker \in [Runs -> {"none", "over"} \cup Alive]
    /\ \A r \in Runs : worker[r] # "none" <=> cardOf[r] # NULL
    /\ \A r \in Runs : record[r] # "none" => cardOf[r] # NULL
    /\ active \subseteq threaded /\ threaded \subseteq Runs
    /\ \A r \in active : worker[r] \in Alive \ {"claimed"}
    /\ write \in [Runs -> {"no", "reading", "editing", "completing", "done",
                           "lost"}]
    /\ \A r \in Runs : write[r] # "no" => cardOf[r] # NULL
    /\ result \in [Runs -> {"none", "ok", "err"}]
    /\ at \in [Procs -> {"idle", "done", "sweeping", "reclaiming", "parking",
                         "claiming", "recording", "launching", "gating"}]
    /\ listed \in [Procs -> SUBSET Runs]
    /\ \A p \in Procs : \A r \in listed[p] : cardOf[r] # NULL
    /\ target \in [Procs -> Cards \cup {NULL}]
    /\ \A p \in Procs :
          at[p] \in {"parking", "claiming", "recording", "launching", "gating"}
              => target[p] # NULL
    /\ run \in [Procs -> Runs \cup {NULL}]
    /\ \A p \in Procs : at[p] \in {"reclaiming", "recording", "launching"}
                            => run[p] # NULL /\ cardOf[run[p]] # NULL
    /\ crashes \in Nat /\ requeues \in Nat
    /\ writers \in [Runs -> Nat]

(* A card in progress is always somebody's business: a dispatcher is about *)
(* to record its claim, or a record is there for the sweep to find, or a   *)
(* sweep is about to put the card back.  Nothing else would ever move it,  *)
(* and the poller starts no other card of the board meanwhile.             *)
ClaimIsCovered(c) ==
    \/ \E r \in Runs : cardOf[r] = c /\ record[r] = "active"
    \/ \E p \in Procs : /\ at[p] \in {"recording", "reclaiming"}
                        /\ cardOf[run[p]] = c
ClaimsAreCovered == \A c \in InProgress : ClaimIsCovered(c)

(* A cancel that races the end of a run: exactly one of them takes the     *)
(* entry, and the outcome of a run is written back at most once.           *)
WrittenBackOnce == \A r \in Runs : writers[r] <= 1

(* The promise of CardContract: whatever sweeps, cancels, ends of runs and *)
(* crashes interleave, a run moves its card once with its outcome and once *)
(* by being reclaimed, and a card is claimed only while none is in         *)
(* progress.  A run may still write its outcome until its write-back has   *)
(* changed the card, and be reclaimed until its record is closed, or while *)
(* the sweep that closed it has yet to move the card.                      *)
MayWrite(r) == write[r] \in {"no", "reading", "editing"}
MayBeReclaimed(r) ==
    \/ record[r] \in {"none", "active"}
    \/ \E p \in Procs : at[p] = "reclaiming" /\ run[p] = r
credit ==
    [r \in Runs |-> {move \in {"outcome", "reclaim"} :
        /\ cardOf[r] # NULL
        /\ IF move = "outcome" THEN MayWrite(r) ELSE MayBeReclaimed(r)}]
Contract == INSTANCE CardContract WITH claim <- cardOf
ImplementsContract == Contract!Spec

(* No card stays in progress for ever, whatever its run does, and even if  *)
(* the core crashes under it, but for a crash in one of the two windows of *)
(* InWindow: with CrashAnywhere that one leaves a card in progress.        *)
ClaimsSettle ==
    \A c \in Cards : card[c] = "in_progress" ~> card[c] # "in_progress"

=============================================================================
