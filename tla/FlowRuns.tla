------------------------------- MODULE FlowRuns -------------------------------
(***************************************************************************)
(* Flow runs (flows/ops.rs, flows/run_registry.rs, flows/store.rs).  A run *)
(* of a flow executes in the tinyflows engine, may pause at an approval    *)
(* gate, and is resumed from its checkpoint.  Its row in flow_runs, its    *)
(* entry in the process-local registry and its checkpoint are three        *)
(* separate records; runs, resumes, cancels, the sweep of expired parked   *)
(* runs and the sweep at boot all work on them, with no common lock.  Each *)
(* lock and each SQL statement is a step.                                  *)
(*                                                                         *)
(* One flow.  A gate is a number: the k-th gate of its graph.  Time is     *)
(* abstract: a parked run may have reached its time to live at any moment. *)
(***************************************************************************)
EXTENDS Naturals, FiniteSets

CONSTANTS
    Runs,         \* runs; the id of a run is a fresh UUID
    Resumes,      \* calls of flows_resume
    Cancels,      \* calls of flows_cancel_run
    Graphs,       \* contents of the flow that hash differently
    NULL,
    Keep,         \* MAX_FLOW_RUNS_PER_FLOW
    StoreFaults,  \* whether a SQLite call may fail
    MaxGates,     \* bound on the gates of a run
    MaxEdits,     \* bound on edits of the flow
    MaxRestarts   \* bound on crashes of the core

Calls == Runs \cup Resumes      \* what executes: a start of a run, or a resume
Gates == 1..MaxGates

ASSUME IdsAssumption ==
    Runs \cap Resumes = {} /\ NULL \notin Calls \cup Cancels \cup Graphs
ASSUME RunsAssumption == IsFiniteSet(Runs)
ASSUME BoundsAssumption ==
    /\ Keep \in Nat \ {0} /\ StoreFaults \in BOOLEAN
    /\ MaxGates \in Nat /\ MaxEdits \in Nat /\ MaxRestarts \in Nat

VARIABLES
    row,        \* flow_runs.status; "none" before the insert, "pruned" after
    pin,        \* flow_runs.graph_hash
    pending,    \* flow_runs.pending_approvals; 0 for none
    started,    \* flow_runs.started_at: the rank of the insert
    born,       \* the process that inserted the row
    saved,      \* the gate the durable checkpoint is paused at; 0 for none
    registry,   \* run_registry::IN_FLIGHT: the call that holds the entry
    signalled,  \* calls whose cancellation token is tripped
    at,         \* where each start and resume is
    of,         \* the run of a call
    loaded,     \* the flow as the call loaded it
    from,       \* the gate the engine of a call continued from
    ends,       \* how a call ended
    cancelAt,   \* where each cancel is
    target,     \* the run of a cancel
    swept,      \* what a sweep still owes a run whose row it settled
    boot,       \* the sweep at boot
    graph,      \* the flow, NULL once deleted
    finished,   \* history: FlowRunFinished events published for a run
    origin,     \* history: the graph a run was started with
    edits, restarts

rowVars  == <<row, pin, pending, started, born, finished>>
liveVars == <<registry, signalled>>
flowVars == <<graph, edits>>
callVars == <<at, of, loaded, from, ends>>
cancelVars == <<cancelAt, target>>
vars == <<rowVars, saved, liveVars, callVars, cancelVars, swept, boot, flowVars,
          origin, restarts>>

Live     == {"running", "pending_approval"}
Terminal == {"completed", "failed", "cancelled", "interrupted"}
Ends     == Terminal \cup {"pending_approval"}

ASSUME NullAssumption == NULL \notin Ends

(* A start: idle, registered, started, executing, settling, leaving, done. *)
(* A resume: idle, loaded, checked, claiming, started, ... ; or refusing   *)
(* and then dropping.                                                      *)
Owning == {"started", "executing", "settling"}
Phases == {"idle", "done", "registered", "loaded", "checked", "refusing",
           "dropping", "claiming", "leaving"} \cup Owning

TypeOK ==
    /\ row \in [Runs -> Live \cup Terminal \cup {"none", "pruned"}]
    /\ pin \in [Runs -> Graphs \cup {NULL}]
    /\ pending \in [Runs -> 0..MaxGates]
    /\ started \in [Runs -> Nat]
    /\ born \in [Runs -> 0..MaxRestarts]
    /\ saved \in [Runs -> 0..MaxGates]
    /\ registry \in [Runs -> Calls \cup {NULL}]
    /\ signalled \subseteq Calls
    /\ at \in [Calls -> Phases]
    /\ of \in [Calls -> Runs \cup {NULL}]
    /\ loaded \in [Calls -> Graphs \cup {NULL}]
    /\ \A a \in Calls :
          at[a] \notin {"idle", "done"} => of[a] # NULL /\ loaded[a] # NULL
    /\ from \in [Calls -> 0..MaxGates]
    /\ ends \in [Calls -> Ends \cup {NULL}]
    /\ cancelAt \in [Cancels ->
                      {"idle", "read", "settling", "dropping", "done"}]
    /\ target \in [Cancels -> Runs \cup {NULL}]
    /\ \A k \in Cancels :
          cancelAt[k] \notin {"idle", "done"} => target[k] # NULL
    /\ swept \in [Runs -> {"nothing", "notice", "checkpoint"}]
    /\ boot \in [listed : BOOLEAN, left : SUBSET Runs,
                orphan : Runs \cup {NULL}]
    /\ graph \in Graphs \cup {NULL}
    /\ finished \in [Runs -> Nat]
    /\ origin \in [Runs -> Graphs \cup {NULL}]
    /\ edits \in 0..MaxEdits
    /\ restarts \in 0..MaxRestarts

Unlisted == [listed |-> FALSE, left |-> {}, orphan |-> NULL]

Init ==
    /\ row = [r \in Runs |-> "none"]
    /\ pin = [r \in Runs |-> NULL]
    /\ pending = [r \in Runs |-> 0]
    /\ started = [r \in Runs |-> 0]
    /\ born = [r \in Runs |-> 0]
    /\ saved = [r \in Runs |-> 0]
    /\ registry = [r \in Runs |-> NULL]
    /\ signalled = {}
    /\ at = [a \in Calls |-> "idle"]
    /\ of = [a \in Calls |-> IF a \in Runs THEN a ELSE NULL]
    /\ loaded = [a \in Calls |-> NULL]
    /\ from = [a \in Calls |-> 0]
    /\ ends = [a \in Calls |-> NULL]
    /\ cancelAt = [k \in Cancels |-> "idle"]
    /\ target = [k \in Cancels |-> NULL]
    /\ swept = [r \in Runs |-> "nothing"]
    /\ boot = Unlisted
    /\ graph \in Graphs
    /\ finished = [r \in Runs |-> 0]
    /\ origin = [r \in Runs |-> NULL]
    /\ edits = 0 /\ restarts = 0

-------------------------------------------------------------------------------
(* The store and the registry.                                             *)

(* Mutants of FinishRow: the WHERE on the status is missing; a pause is    *)
(* announced too.                                                          *)
FinishRow_Unguarded(r, status, g, k, matched) ==
    /\ matched = (row[r] # "none")
    /\ row' = IF matched THEN [row EXCEPT ![r] = status] ELSE row
    /\ pin' = IF matched THEN [pin EXCEPT ![r] = g] ELSE pin
    /\ pending' = IF matched THEN [pending EXCEPT ![r] = k] ELSE pending
    /\ finished' = IF matched /\ status \in Terminal
                     THEN [finished EXCEPT ![r] = @ + 1] ELSE finished
    /\ UNCHANGED <<started, born>>
FinishRow_AnnouncesPauses(r, status, g, k, matched) ==
    /\ IF matched THEN row[r] \in Live ELSE StoreFaults \/ row[r] \notin Live
    /\ row' = IF matched THEN [row EXCEPT ![r] = status] ELSE row
    /\ pin' = IF matched THEN [pin EXCEPT ![r] = g] ELSE pin
    /\ pending' = IF matched THEN [pending EXCEPT ![r] = k] ELSE pending
    /\ finished' = IF matched THEN [finished EXCEPT ![r] = @ + 1] ELSE finished
    /\ UNCHANGED <<started, born>>

(* finish_flow_run_row: UPDATE ... WHERE status IN ('running',             *)
(* 'pending_approval'), and FlowRunFinished if it matched and the run did  *)
(* not merely pause.  g is the pin and k the pending gate.                 *)
FinishRow(r, status, g, k, matched) ==
    /\ IF matched THEN row[r] \in Live ELSE StoreFaults \/ row[r] \notin Live
    /\ row' = IF matched THEN [row EXCEPT ![r] = status] ELSE row
    /\ pin' = IF matched THEN [pin EXCEPT ![r] = g] ELSE pin
    /\ pending' = IF matched THEN [pending EXCEPT ![r] = k] ELSE pending
    /\ finished' = IF matched /\ status \in Terminal
                     THEN [finished EXCEPT ![r] = @ + 1] ELSE finished
    /\ UNCHANGED <<started, born>>

(* finish_flow_run_row with a terminal status: no pin, no pending gate.    *)
SettleRow(r, status, matched) == FinishRow(r, status, NULL, 0, matched)

(* prune_flow_runs: the settled rows outside the newest Keep.              *)
Rows(status) == {r \in Runs : status[r] \notin {"none", "pruned"}}
Stale(status, since) ==
    {r \in Runs : status[r] \in Terminal /\
        Cardinality({q \in Rows(status) : since[q] > since[r]}) >= Keep}
Pruned(status, since) ==
    [r \in Runs |-> IF r \in Stale(status, since) THEN "pruned" ELSE status[r]]

(* flows_prune_runs.                                                       *)
PruneRuns ==
    /\ Stale(row, started) # {}
    /\ row' = Pruned(row, started)
    /\ UNCHANGED <<pin, pending, started, born, finished, saved, liveVars,
                   callVars,
                   cancelVars, swept, boot, flowVars, origin, restarts>>

(* run_registry::register: a new entry replaces the one that is there.     *)
Register(a, r) == registry' = [registry EXCEPT ![r] = a]

(* RunGuard::drop: removes the entry only if it is still its own.          *)
Deregister(a, r) ==
    registry' = [registry EXCEPT ![r] = IF @ = a THEN NULL ELSE @]

(* drop_checkpoint.                                                        *)
DropCheckpoint(r) == saved' = [saved EXCEPT ![r] = 0]

Become(a, point) ==
    /\ at' = [at EXCEPT ![a] = point]
    /\ UNCHANGED <<of, loaded, from, ends>>
Settling(a, status) ==
    /\ at' = [at EXCEPT ![a] = "settling"]
    /\ ends' = [ends EXCEPT ![a] = status]
    /\ UNCHANGED <<of, loaded, from>>
End(a) ==
    /\ at' = [at EXCEPT ![a] = "done"]
    /\ loaded' = [loaded EXCEPT ![a] = NULL]
    /\ from' = [from EXCEPT ![a] = 0]
    /\ ends' = [ends EXCEPT ![a] = NULL]
    /\ UNCHANGED of

-------------------------------------------------------------------------------
(* A run: flows_run, flows_run_detached, run_flow_body.                    *)

(* prepare_flow_run and register: a run that cannot be prepared leaves no  *)
(* trace.                                                                  *)
Start(r) ==
    /\ at[r] = "idle" /\ graph # NULL
    /\ at' = [at EXCEPT ![r] = "registered"]
    /\ loaded' = [loaded EXCEPT ![r] = graph]
    /\ Register(r, r)
    /\ origin' = [origin EXCEPT ![r] = graph]
    /\ UNCHANGED <<of, from, ends, rowVars, saved, signalled, cancelVars,
                   swept, boot, flowVars, restarts>>

(* start_flow_run_row: best effort, and so is the prune after the insert.  *)
InsertRow(r, inserted) ==
    /\ at[r] = "registered"
    /\ inserted \/ StoreFaults
    /\ Become(r, "started")
    /\ IF inserted
         THEN /\ started' = [started EXCEPT ![r] =
                               Cardinality({q \in Runs : row[q] # "none"}) + 1]
              /\ born' = [born EXCEPT ![r] = restarts]
              /\ LET running == [row EXCEPT ![r] = "running"] IN
                 \/ row' = Pruned(running, started')
                 \/ StoreFaults /\ row' = running
         ELSE UNCHANGED <<row, started, born>>
    /\ UNCHANGED <<pin, pending, finished, saved, liveVars, cancelVars, swept,
                   boot, flowVars, origin, restarts>>

(* Nothing but the call itself changes. *)
Elsewhere == UNCHANGED <<rowVars, saved, liveVars, cancelVars, swept, boot,
                         flowVars, origin, restarts>>

(* The preflight of a start, its compilation or the checkpointer fails.    *)
FailEarly(r) ==
    /\ at[r] = "started"
    /\ Settling(r, "failed")
    /\ Elsewhere

(* The biased select polls the token before the engine.  The engine goes   *)
(* on from the checkpoint, past whatever gate it is paused at; a resume    *)
(* that finds none fails.                                                  *)
BeginEngine(a) ==
    /\ at[a] = "started" /\ a \notin signalled
    /\ LET r == of[a] IN
       IF a \in Resumes /\ saved[r] = 0
         THEN Settling(a, "failed")
         ELSE /\ at' = [at EXCEPT ![a] = "executing"]
              /\ from' = [from EXCEPT ![a] = saved[r]]
              /\ UNCHANGED <<of, loaded, ends>>
    /\ Elsewhere

(* The engine pauses at the next gate, with a checkpoint there.            *)
EnginePauses(a) ==
    /\ at[a] = "executing" /\ from[a] < MaxGates
    /\ Settling(a, "pending_approval")
    /\ saved' = [saved EXCEPT ![of[a]] = from[a] + 1]
    /\ UNCHANGED <<rowVars, liveVars, cancelVars, swept, boot, flowVars,
                   origin, restarts>>

(* It completes, fails or exceeds FLOW_RUN_TIMEOUT_SECS.                   *)
EngineEnds(a) ==
    /\ at[a] = "executing"
    /\ \E status \in {"completed", "failed"} : Settling(a, status)
    /\ Elsewhere

(* The select sees the token.                                              *)
SeeCancel(a) ==
    /\ at[a] \in {"started", "executing"} /\ a \in signalled
    /\ Settling(a, "cancelled")
    /\ Elsewhere

(* The future is dropped at an await: RunRowFinalizer.  A resume has no    *)
(* await before the engine's.                                              *)
DropFuture(a) ==
    /\ at[a] = "executing" \/ (a \in Runs /\ at[a] = "started")
    /\ Settling(a, "interrupted")
    /\ Elsewhere

(* The terminal or parking write of a run; only a parking one pins the     *)
(* graph.                                                                  *)
WriteEnd(a, matched) ==
    /\ at[a] = "settling"
    /\ LET r == of[a] IN
       IF ends[a] = "pending_approval"
         THEN FinishRow(r, "pending_approval", loaded[a], saved[r], matched)
         ELSE SettleRow(r, ends[a], matched)
    /\ Become(a, "leaving")
    /\ UNCHANGED <<saved, liveVars, cancelVars, swept, boot, flowVars, origin,
                   restarts>>

(* The cancellation arm drops the checkpoint.                              *)
DropCancelled(a) ==
    /\ at[a] = "leaving" /\ ends[a] = "cancelled"
    /\ DropCheckpoint(of[a])
    /\ ends' = [ends EXCEPT ![a] = NULL]
    /\ UNCHANGED <<at, of, loaded, from>>
    /\ UNCHANGED <<rowVars, liveVars, cancelVars, swept, boot, flowVars,
                   origin, restarts>>

(* The call returns, or is dropped at its last await: RunGuard.            *)
Leave(a) ==
    /\ at[a] = "leaving"
    /\ Deregister(a, of[a])
    /\ End(a)
    /\ UNCHANGED <<rowVars, saved, signalled, cancelVars, swept, boot, flowVars,
                   origin, restarts>>

-------------------------------------------------------------------------------
(* A resume: flows_resume.                                                 *)

(* Mutant of LoadFlow: a flow that is gone is not an error.                *)
LoadFlow_Deleted(c, r) ==
    /\ at[c] = "idle"
    /\ at' = [at EXCEPT ![c] = "loaded"]
    /\ of' = [of EXCEPT ![c] = r]
    /\ loaded' = [loaded EXCEPT ![c] = graph]
    /\ UNCHANGED <<from, ends>>
    /\ Elsewhere

LoadFlow(c, r) ==
    /\ at[c] = "idle" /\ graph # NULL
    /\ at' = [at EXCEPT ![c] = "loaded"]
    /\ of' = [of EXCEPT ![c] = r]
    /\ loaded' = [loaded EXCEPT ![c] = graph]
    /\ UNCHANGED <<from, ends>>
    /\ Elsewhere

(* Mutant of CheckRow: no comparison with the pin.                         *)
CheckRow_AnyGraph(c) ==
    /\ at[c] = "loaded"
    /\ LET r == of[c] IN
       \/ End(c)
       \/ /\ row[r] = "pending_approval"
          /\ at' = [at EXCEPT ![c] = "checked"]
          /\ UNCHANGED <<of, loaded, from, ends>>
    /\ Elsewhere

(* A row that is not parked, or a decision that names none of its gates,   *)
(* ends the call; and the flow must hash to the pin.                       *)
CheckRow(c) ==
    /\ at[c] = "loaded"
    /\ LET r == of[c] IN
       \/ End(c)
       \/ /\ row[r] = "pending_approval" /\ pin[r] = loaded[c]
          /\ at' = [at EXCEPT ![c] = "checked"]
          /\ UNCHANGED <<of, loaded, from, ends>>
       \/ /\ row[r] = "pending_approval" /\ pin[r] # loaded[c]
          /\ Become(c, "refusing")
    /\ Elsewhere

(* The flow was edited since the run parked: the run is settled, before    *)
(* anything is claimed.                                                    *)
RefuseStale(c, matched) ==
    /\ at[c] = "refusing"
    /\ SettleRow(of[c], "cancelled", matched)
    /\ IF matched THEN Become(c, "dropping") ELSE End(c)
    /\ UNCHANGED <<saved, liveVars, cancelVars, swept, boot, flowVars, origin,
                   restarts>>

DropRefused(c) ==
    /\ at[c] = "dropping"
    /\ DropCheckpoint(of[c])
    /\ End(c)
    /\ UNCHANGED <<rowVars, liveVars, cancelVars, swept, boot, flowVars,
                   origin, restarts>>

(* The engine no longer supports the topology.                             *)
RefuseIncompatible(c, matched) ==
    /\ at[c] = "checked"
    /\ SettleRow(of[c], "failed", matched)
    /\ End(c)
    /\ UNCHANGED <<saved, liveVars, cancelVars, swept, boot, flowVars, origin,
                   restarts>>

(* The graph does not compile, the checkpointer does not open, or the      *)
(* future is dropped at the drop of the checkpoint.                        *)
GiveUp(c) ==
    /\ at[c] \in {"checked", "dropping"}
    /\ End(c)
    /\ Elsewhere

RegisterResume(c) ==
    /\ at[c] = "checked"
    /\ Register(c, of[c])
    /\ Become(c, "claiming")
    /\ UNCHANGED <<rowVars, saved, signalled, cancelVars, swept, boot, flowVars,
                   origin, restarts>>

(* Mutant of Claim: the flip does not ask for a parked row.                *)
Claim_Unguarded(c, claimed) ==
    /\ at[c] = "claiming"
    /\ LET r == of[c] IN
       /\ claimed = (row[r] \in Live)
       /\ row' = IF claimed THEN [row EXCEPT ![r] = "running"] ELSE row
    /\ Become(c, IF claimed THEN "started" ELSE "leaving")
    /\ UNCHANGED <<pin, pending, started, born, finished, saved, liveVars,
                   cancelVars,
                   swept, boot, flowVars, origin, restarts>>

(* mark_run_resuming: whoever flips the row executes.                      *)
Claim(c, claimed) ==
    /\ at[c] = "claiming"
    /\ LET r == of[c] IN
       /\ IF claimed THEN row[r] = "pending_approval"
                     ELSE StoreFaults \/ row[r] # "pending_approval"
       /\ row' = IF claimed THEN [row EXCEPT ![r] = "running"] ELSE row
    /\ Become(c, IF claimed THEN "started" ELSE "leaving")
    /\ UNCHANGED <<pin, pending, started, born, finished, saved, liveVars,
                   cancelVars,
                   swept, boot, flowVars, origin, restarts>>

-------------------------------------------------------------------------------
(* A cancel: flows_cancel_run.                                             *)

CancelUnchanged ==
    UNCHANGED <<callVars, swept, boot, flowVars, origin, restarts>>

CancelAt(k, point) ==
    cancelAt' = [cancelAt EXCEPT ![k] = point] /\ UNCHANGED target

(* A settled run is an error, and nothing changes.                         *)
ReadStatus(k, r) ==
    /\ cancelAt[k] = "idle" /\ row[r] \in Live
    /\ cancelAt' = [cancelAt EXCEPT ![k] = "read"]
    /\ target' = [target EXCEPT ![k] = r]
    /\ UNCHANGED <<rowVars, saved, liveVars>> /\ CancelUnchanged

(* Mutant of Signal: a run in flight is signalled and settled as well.     *)
Signal_SettlesToo(k) ==
    /\ cancelAt[k] = "read"
    /\ LET holder == registry[target[k]] IN
       signalled' = signalled \cup ({holder} \ {NULL})
    /\ CancelAt(k, "settling")
    /\ UNCHANGED <<rowVars, saved, registry>> /\ CancelUnchanged

(* run_registry::cancel.                                                   *)
Signal(k) ==
    /\ cancelAt[k] = "read"
    /\ LET holder == registry[target[k]] IN
       IF holder # NULL
         THEN signalled' = signalled \cup {holder} /\ CancelAt(k, "done")
         ELSE CancelAt(k, "settling") /\ UNCHANGED signalled
    /\ UNCHANGED <<rowVars, saved, registry>> /\ CancelUnchanged

(* Not in flight: the guarded write decides who settled the run.           *)
SettleCancel(k, matched) ==
    /\ cancelAt[k] = "settling"
    /\ SettleRow(target[k], "cancelled", matched)
    /\ CancelAt(k, IF matched THEN "dropping" ELSE "done")
    /\ UNCHANGED <<saved, liveVars>> /\ CancelUnchanged

DropByCancel(k, dropped) ==
    /\ cancelAt[k] = "dropping"
    /\ IF dropped THEN DropCheckpoint(target[k]) ELSE UNCHANGED saved
    /\ CancelAt(k, "done")
    /\ UNCHANGED <<rowVars, liveVars>> /\ CancelUnchanged

-------------------------------------------------------------------------------
(* The sweeps.                                                             *)

(* expire_parked_runs, from any listing of runs: the guarded UPDATE of a   *)
(* run that is parked beyond FLOW_PARKED_TTL_SECS.                         *)
Expire(r) ==
    /\ row[r] = "pending_approval"
    /\ row' = [row EXCEPT ![r] = "cancelled"]
    /\ swept' = [swept EXCEPT ![r] = "notice"]
    /\ UNCHANGED <<pin, pending, started, born, finished, saved, liveVars,
                   callVars,
                   cancelVars, boot, flowVars, origin, restarts>>

(* sweep_expired_parked_runs publishes only after all its UPDATEs.         *)
Announce(r) ==
    /\ swept[r] = "notice"
    /\ finished' = [finished EXCEPT ![r] = @ + 1]
    /\ swept' = [swept EXCEPT ![r] = "checkpoint"]
    /\ UNCHANGED <<row, pin, pending, started, born, saved, liveVars, callVars,
                   cancelVars,
                   boot, flowVars, origin, restarts>>

DropSwept(r) ==
    /\ swept[r] = "checkpoint"
    /\ DropCheckpoint(r)
    /\ swept' = [swept EXCEPT ![r] = "nothing"]
    /\ UNCHANGED <<rowVars, liveVars, callVars, cancelVars, boot, flowVars,
                   origin, restarts>>

(* The read that swept is dropped at an await, or a later UPDATE of the    *)
(* same sweep fails.                                                       *)
AbandonSweep(r) ==
    /\ swept[r] # "nothing"
    /\ swept' = [swept EXCEPT ![r] = "nothing"]
    /\ UNCHANGED <<rowVars, saved, liveVars, callVars, cancelVars, boot,
                   flowVars, origin, restarts>>

BootUnchanged == UNCHANGED <<saved, liveVars, callVars, cancelVars, flowVars,
                             origin, restarts>>

(* list_running_run_ids below PROCESS_RUN_FLOOR: the rows of an earlier    *)
(* process.                                                                *)
Orphans == {r \in Runs : row[r] = "running" /\ born[r] < restarts}

ListOrphans ==
    /\ ~boot.listed
    /\ boot' = [boot EXCEPT !.listed = TRUE, !.left = Orphans]
    /\ UNCHANGED <<rowVars, swept>> /\ BootUnchanged

(* Mutant of ExamineOrphan: a run in flight ends the sweep.                *)
ExamineOrphan_Stops(r) ==
    /\ r \in boot.left /\ boot.orphan = NULL
    /\ boot' = IF registry[r] = NULL
                 THEN [boot EXCEPT !.left = @ \ {r}, !.orphan = r]
                 ELSE [boot EXCEPT !.left = {}]
    /\ UNCHANGED <<rowVars, swept>> /\ BootUnchanged

(* is_in_flight.                                                           *)
ExamineOrphan(r) ==
    /\ r \in boot.left /\ boot.orphan = NULL
    /\ boot' = [boot EXCEPT !.left = @ \ {r},
                            !.orphan = IF registry[r] = NULL THEN r ELSE NULL]
    /\ UNCHANGED <<rowVars, swept>> /\ BootUnchanged

(* Mutant of MarkInterrupted: the UPDATE does not look at the status.      *)
MarkInterrupted_Unguarded(matched) ==
    /\ boot.orphan # NULL /\ matched
    /\ boot' = [boot EXCEPT !.orphan = NULL]
    /\ LET r == boot.orphan IN
       /\ row' = [row EXCEPT ![r] = "interrupted"]
       /\ finished' = [finished EXCEPT ![r] = @ + 1]
       /\ swept' = [swept EXCEPT ![r] = "checkpoint"]
    /\ UNCHANGED <<pin, pending, started, born>> /\ BootUnchanged

(* mark_run_interrupted, then the event and the checkpoint.                *)
MarkInterrupted(matched) ==
    /\ boot.orphan # NULL
    /\ boot' = [boot EXCEPT !.orphan = NULL]
    /\ LET r == boot.orphan IN
       /\ IF matched THEN row[r] = "running"
                     ELSE StoreFaults \/ row[r] # "running"
       /\ IF matched
            THEN /\ row' = [row EXCEPT ![r] = "interrupted"]
                 /\ finished' = [finished EXCEPT ![r] = @ + 1]
                 /\ swept' = [swept EXCEPT ![r] = "checkpoint"]
            ELSE UNCHANGED <<row, finished, swept>>
    /\ UNCHANGED <<pin, pending, started, born>> /\ BootUnchanged

-------------------------------------------------------------------------------
(* The surroundings.                                                       *)

(* flows_update has no guard against runs; flows_delete leaves the rows.   *)
EditFlow ==
    /\ graph # NULL /\ edits < MaxEdits
    /\ graph' \in (Graphs \cup {NULL}) \ {graph}
    /\ edits' = edits + 1
    /\ UNCHANGED <<rowVars, saved, liveVars, callVars, cancelVars, swept, boot,
                   origin, restarts>>

(* The core dies: the rows, the checkpoints and the flow survive.          *)
Crash ==
    /\ restarts < MaxRestarts
    /\ restarts' = restarts + 1
    /\ registry' = [r \in Runs |-> NULL]
    /\ signalled' = {}
    /\ at' = [a \in Calls |-> IF at[a] = "idle" THEN "idle" ELSE "done"]
    /\ loaded' = [a \in Calls |-> NULL]
    /\ from' = [a \in Calls |-> 0]
    /\ ends' = [a \in Calls |-> NULL]
    /\ cancelAt' = [k \in Cancels |->
                      IF cancelAt[k] = "idle" THEN "idle" ELSE "done"]
    /\ swept' = [r \in Runs |-> "nothing"]
    /\ boot' = Unlisted
    /\ UNCHANGED <<of, target, rowVars, saved, flowVars, origin>>

StartStep(r) == Start(r) \/ FailEarly(r) \/ \E b \in BOOLEAN : InsertRow(r, b)
BodyStep(a) ==
    \/ BeginEngine(a) \/ EnginePauses(a) \/ EngineEnds(a) \/ SeeCancel(a)
    \/ DropFuture(a) \/ DropCancelled(a) \/ Leave(a)
    \/ \E b \in BOOLEAN : WriteEnd(a, b)
ResumeStep(c) ==
    \/ \E r \in Runs : LoadFlow(c, r)
    \/ CheckRow(c) \/ DropRefused(c) \/ GiveUp(c) \/ RegisterResume(c)
    \/ \E b \in BOOLEAN :
         RefuseStale(c, b) \/ RefuseIncompatible(c, b) \/ Claim(c, b)
CancelStep(k) ==
    \/ \E r \in Runs : ReadStatus(k, r)
    \/ Signal(k)
    \/ \E b \in BOOLEAN : SettleCancel(k, b) \/ DropByCancel(k, b)
SweepStep(r) == Expire(r) \/ Announce(r) \/ DropSwept(r) \/ AbandonSweep(r)
BootStep ==
    \/ ListOrphans
    \/ \E r \in Runs : ExamineOrphan(r)
    \/ \E b \in BOOLEAN : MarkInterrupted(b)

(* Every call has returned, nothing is parked and no sweep is under way.   *)
Quiescent ==
    /\ \A a \in Calls : at[a] \in {"idle", "done"}
    /\ \A k \in Cancels : cancelAt[k] \in {"idle", "done"}
    /\ \A r \in Runs : row[r] # "pending_approval" /\ swept[r] = "nothing"
Rest == Quiescent /\ boot.listed /\ boot.left = {} /\ boot.orphan = NULL
        /\ UNCHANGED vars

Next ==
    \/ \E r \in Runs : StartStep(r) \/ SweepStep(r)
    \/ \E a \in Calls : BodyStep(a)
    \/ \E c \in Resumes : ResumeStep(c)
    \/ \E k \in Cancels : CancelStep(k)
    \/ BootStep \/ PruneRuns \/ EditFlow \/ Crash \/ Rest

Spec == Init /\ [][Next]_vars

(* The runtime polls what is ready, the engine is under a timeout, and the *)
(* sweep runs at every boot.  Nobody has to resume, cancel, list or edit.  *)
Progress(a) ==
    \/ a \in Runs /\ \E b \in BOOLEAN : InsertRow(a, b)
    \/ BeginEngine(a) \/ EngineEnds(a) \/ SeeCancel(a) \/ Leave(a)
    \/ \E b \in BOOLEAN : WriteEnd(a, b)
Fairness ==
    /\ \A a \in Calls : WF_vars(Progress(a))
    /\ WF_vars(BootStep)
FairSpec == Spec /\ Fairness

-------------------------------------------------------------------------------
(* Properties.                                                             *)

Executes(a, r) == at[a] \in Owning /\ of[a] = r
executors == [r \in Runs |-> {a \in Calls : Executes(a, r)}]

(* The lifecycle the code promises: a run that is settled stays settled,   *)
(* whoever races to settle, resume or sweep it; a parked run is taken up   *)
(* by one call; FlowRunFinished is published at most once, and never for a *)
(* pause: of two writers only the one whose write matched announces.       *)
Contract == INSTANCE FlowRunContract WITH status <- row, announced <- finished
LifecycleHolds == Contract!Spec

(* A run is executed by one call at a time, and by none while its row says *)
(* it is parked: the side effects a gate was approved for are not fired    *)
(* twice by two resumes (mark_run_resuming).                               *)
OneExecutor ==
    \A r \in Runs :
        /\ \A a, b \in Calls : Executes(a, r) /\ Executes(b, r) => a = b
        /\ row[r] = "pending_approval" => \A a \in Calls : ~Executes(a, r)

(* A parked run can be resumed: its checkpoint is there, paused at the     *)
(* gate the row names, whatever cancels, refusals and sweeps are under way.*)
ParkedIsResumable ==
    \A r \in Runs : row[r] = "pending_approval" =>
        pending[r] # 0 /\ saved[r] = pending[r]

(* A resume executes the flow its run was started with, although the flow  *)
(* may be edited at any moment before, between or after its checks: what   *)
(* fires under an approval is what the approval card described.            *)
ApprovedGraphOnly ==
    \A c \in Resumes :
        at[c] \in Owning => loaded[c] = origin[of[c]]

(* While a start executes, its row is running and its registration is the  *)
(* one in the registry: no cancel settles its row or drops its checkpoint  *)
(* under it, no refusal, and no sweep at boot.                             *)
StartIsProtected ==
    \A r \in Runs : at[r] \in Owning =>
        /\ registry[r] = r
        /\ row[r] = "running" \/ (StoreFaults /\ row[r] = "none")

(* FlowRunFinished is published at most once for a run, and only when its  *)
(* row is settled: a pause is not a finish, and of two writers only the    *)
(* one whose write matched announces.                                      *)
OneFinish ==
    \A r \in Runs : finished[r] <= 1 /\ (finished[r] = 1 =>
        row[r] \in Terminal \cup {"pruned"})

(* With a store that works, a row that says running is executed, or the    *)
(* sweep at boot has yet to settle it: no run is left for nobody, and the  *)
(* test of is_in_flight never passes over one that a crash orphaned.       *)
RunningIsAttended ==
    \A r \in Runs : row[r] = "running" =>
        \/ \E a \in Calls : Executes(a, r)
        \/ ~boot.listed \/ r \in boot.left \/ boot.orphan = r

(* A row that says running does not say so for ever, crashes included: its *)
(* call settles it, or the sweep at the next boot does.                    *)
RunsSettle == \A r \in Runs : (row[r] = "running") ~> (row[r] # "running")
===============================================================================
