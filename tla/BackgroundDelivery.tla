-------------------------- MODULE BackgroundDelivery --------------------------
(***************************************************************************)
(* Results of detached sub-agents (agent/orchestration: tools/             *)
(* spawn_async_subagent.rs, background_completions.rs,                     *)
(* background_delivery.rs).  A sub-agent that ends records its result in a *)
(* queue; the delivery subsystem drains the queue of a session when the    *)
(* session is idle and runs one system turn on its chat thread with the    *)
(* batch.  It learns of turns and of finished sub-agents from the event    *)
(* bus.  Meanwhile the parent may collect a result itself, the user may    *)
(* cancel a sub-agent, and threads are deleted.  Every lock of a mutex is  *)
(* a step.                                                                 *)
(*                                                                         *)
(* The core keeps all of this in memory: a crash loses it, and is not      *)
(* modelled.  What a result says, and how a notice renders it, is left out.*)
(***************************************************************************)
EXTENDS Naturals, Sequences, FiniteSets

CONSTANTS
    Tasks,      \* detached sub-agents; the id of a spawn is a fresh UUID
    Sessions,   \* parent sessions
    Threads,    \* chat threads
    NULL,       \* no session
    SessionOf,  \* the session a sub-agent is spawned by
    ThreadOf,   \* the thread of a session (a spawn without one is refused)
    Attempts,   \* bound on the attempts at delivery that overlap
    Forks,      \* whether turns of one session overlap (parallel turns)
    Drops,      \* whether the future of a turn may be dropped
    Failures,   \* whether a system turn may fail
    MaxRemovals,\* bound on cancels, deletions and purges together
    Prompt,     \* whether an attempt gets from its timer to the system turn
                \* before another timer of its session fires
    MaxTurns    \* bound on the turns of each session

ASSUME SessionsAssumption ==
    /\ SessionOf \in [Tasks -> Sessions]
    /\ ThreadOf \in [Sessions -> Threads]
    /\ NULL \notin Sessions
ASSUME FlagsAssumption ==
    /\ {Forks, Drops, Failures, Prompt} \subseteq BOOLEAN
    /\ MaxTurns \in [Sessions -> Nat] /\ MaxRemovals \in Nat

(* CANCELLED_TOMBSTONE_CAP and COLLECTED_TOMBSTONE_CAP: with no more        *)
(* threads and sub-agents than that, no tombstone is evicted.              *)
ASSUME TombstoneAssumption ==
    /\ IsFiniteSet(Threads) /\ Cardinality(Threads) <= 512
    /\ IsFiniteSet(Tasks) /\ Cardinality(Tasks) <= 512

VARIABLES
    turns,      \* user turns of a session that are running
    begun,      \* bound: user turns of a session begun so far
    bus,        \* events published and not yet handled
    busy,       \* background_delivery: BUSY
    sleeping,   \* timers of schedule_delivery that have not fired
    slots,      \* background_delivery: D, the sessions being delivered to
    at,         \* where each attempt at delivery is
    session,    \* the session of an attempt
    hand,       \* the batch an attempt has drained
    pending,    \* QueueState.pending; a result is in the queue of SessionOf
    tombs,      \* QueueState.cancelled_threads
    collected,  \* QueueState.collected_tasks
    agent,      \* where each sub-agent is
    usable,     \* sub-agents that ended with a usable result
    entry,      \* running_subagents: REGISTRY
    cancelling, \* cancels between the abort and their notice
    deletion,   \* how far the deletion of a thread is
    purge,      \* how far a purge of all threads is
    left,       \* threads the purge has yet to tombstone
    gone,       \* history: threads deleted from the conversation store
    recorded,   \* history: sub-agents with a result in the queue at some time
    delivered,  \* history: turns that carried the result of a sub-agent
    cancelled   \* history: sub-agents the user cancelled

turnVars     == <<turns, begun>>
queueVars    == <<pending, tombs, collected, recorded>>
deliveryVars == <<slots, at, session, hand, delivered>>
agentVars    == <<agent, usable, entry, cancelling, cancelled>>
threadVars   == <<deletion, purge, left, gone>>
vars == <<turnVars, bus, busy, sleeping, deliveryVars, queueVars, agentVars,
          threadVars>>

Thread(t) == ThreadOf[SessionOf[t]]
Of(s) == {t \in Tasks : SessionOf[t] = s}
On(th) == {t \in Tasks : Thread(t) = th}

Kinds == {"started", "ended", "finished"}
Phases == {"free", "looking", "claiming", "claimed", "draining", "holding",
           "turn", "requeueing", "releasing"}
Stages == {"none", "running", "signalled", "recorded", "done", "aborted"}

(* The attempts of a session between the claim of its slot and its release.*)
Owning == {"claimed", "draining", "holding", "turn", "requeueing", "releasing"}
(* ... and those between two awaits: only the system turn is awaited.      *)
Briefly == {"looking", "claiming", "claimed", "draining", "holding",
            "requeueing", "releasing"}

Init ==
    /\ turns = [s \in Sessions |-> 0] /\ begun = [s \in Sessions |-> 0]
    /\ bus = <<>> /\ busy = {} /\ sleeping = [s \in Sessions |-> 0]
    /\ slots = {}
    /\ at = [d \in Attempts |-> "free"]
    /\ session = [d \in Attempts |-> NULL]
    /\ hand = [d \in Attempts |-> {}]
    /\ pending = {} /\ tombs = {} /\ collected = {}
    /\ agent = [t \in Tasks |-> "none"]
    /\ usable = {} /\ cancelling = {}
    /\ entry = [t \in Tasks |-> "none"]
    /\ deletion = [th \in Threads |-> "no"]
    /\ purge = "no" /\ left = {} /\ gone = {}
    /\ recorded = {} /\ cancelled = {}
    /\ delivered = [t \in Tasks |-> 0]

-----------------------------------------------------------------------------
(* The turns of a session, as run_single publishes them.                   *)

Publish(kind, s) == bus' = Append(bus, <<kind, s>>)

BeginTurn(s) ==
    /\ begun[s] < MaxTurns[s]
    /\ ThreadOf[s] \notin gone
    /\ Forks \/ turns[s] = 0
    /\ turns' = [turns EXCEPT ![s] = @ + 1]
    /\ begun' = [begun EXCEPT ![s] = @ + 1]
    /\ Publish("started", s)
    /\ UNCHANGED <<busy, sleeping, deliveryVars, queueVars, agentVars,
                   threadVars>>

(* A blocked prompt publishes AgentError, and no AgentTurnStarted.         *)
RefuseTurn(s) ==
    /\ begun[s] < MaxTurns[s]
    /\ ThreadOf[s] \notin gone
    /\ Forks \/ turns[s] = 0
    /\ begun' = [begun EXCEPT ![s] = @ + 1]
    /\ Publish("ended", s)
    /\ UNCHANGED <<turns, busy, sleeping, deliveryVars, queueVars, agentVars,
                   threadVars>>

(* AgentTurnCompleted or AgentError.                                       *)
EndTurn(s) ==
    /\ turns[s] > 0
    /\ turns' = [turns EXCEPT ![s] = @ - 1]
    /\ Publish("ended", s)
    /\ UNCHANGED <<begun, busy, sleeping, deliveryVars, queueVars, agentVars,
                   threadVars>>

(* A chat turn that is cancelled or passes its deadline is a dropped       *)
(* future: run_single publishes nothing for it.                            *)
DropTurn(s) ==
    /\ Drops
    /\ turns[s] > 0
    /\ turns' = [turns EXCEPT ![s] = @ - 1]
    /\ UNCHANGED <<begun, bus, busy, sleeping, deliveryVars, queueVars,
                   agentVars, threadVars>>

Handle_CompletionsIgnored ==
    /\ bus # <<>>
    /\ LET kind == Head(bus)[1]
           s == Head(bus)[2]
       IN  /\ busy' = IF kind = "started" THEN busy \cup {s} ELSE busy \ {s}
           /\ sleeping' = IF kind # "ended" THEN sleeping
                          ELSE [sleeping EXCEPT ![s] = @ + 1]
    /\ bus' = Tail(bus)
    /\ UNCHANGED <<turnVars, deliveryVars, queueVars, agentVars, threadVars>>

(* BackgroundDeliveryHandler::handle, on the oldest event of the bus.      *)
Handle ==
    /\ bus # <<>>
    /\ LET kind == Head(bus)[1]
           s == Head(bus)[2]
       IN  /\ busy' = CASE kind = "started"  -> busy \cup {s}
                        [] kind = "ended"    -> busy \ {s}
                        [] kind = "finished" -> busy
           /\ sleeping' = IF kind = "started" THEN sleeping
                          ELSE [sleeping EXCEPT ![s] = @ + 1]
    /\ bus' = Tail(bus)
    /\ UNCHANGED <<turnVars, deliveryVars, queueVars, agentVars, threadVars>>

-----------------------------------------------------------------------------
(* The queue: background_completions.                                      *)

Accepts_AnyThread(t) == t \notin collected

(* The tombstones record_outcome checks.                                   *)
Accepts(t) ==
    /\ Thread(t) \notin tombs
    /\ t \notin collected

(* record_outcome.                                                         *)
RecordOutcome(t) ==
    IF Accepts(t)
    THEN /\ pending' = pending \cup {t}
         /\ recorded' = recorded \cup {t}
    ELSE UNCHANGED <<pending, recorded>>

-----------------------------------------------------------------------------
(* Detached sub-agents.                                                    *)

(* spawn_async_subagent, called in a turn: the task is spawned, and        *)
(* registered once its abort handle is there.                              *)
Spawn(t) ==
    /\ agent[t] = "none"
    /\ turns[SessionOf[t]] > 0
    /\ agent' = [agent EXCEPT ![t] = "running"]
    /\ UNCHANGED <<turnVars, bus, busy, sleeping, deliveryVars, queueVars,
                   usable, entry, cancelling, cancelled, threadVars>>

Register(t) ==
    /\ agent[t] # "none"
    /\ entry[t] = "none"
    /\ entry' = [entry EXCEPT ![t] = "listed"]
    /\ UNCHANGED <<turnVars, bus, busy, sleeping, deliveryVars, queueVars,
                   agent, usable, cancelling, cancelled, threadVars>>

(* The end of a sub-agent: the status a waiting parent sees, the result in *)
(* the queue, the event.  No await comes between the three.                *)
Signal(t) ==
    /\ agent[t] = "running"
    /\ agent' = [agent EXCEPT ![t] = "signalled"]
    /\ usable' \in {usable, usable \cup {t}}
    /\ UNCHANGED <<turnVars, bus, busy, sleeping, deliveryVars, queueVars,
                   entry, cancelling, cancelled, threadVars>>

Record(t) ==
    /\ agent[t] = "signalled"
    /\ agent' = [agent EXCEPT ![t] = "recorded"]
    /\ RecordOutcome(t)
    /\ UNCHANGED <<turnVars, bus, busy, sleeping, deliveryVars, tombs,
                   collected, usable, entry, cancelling, cancelled,
                   threadVars>>

Announce(t) ==
    /\ agent[t] = "recorded"
    /\ agent' = [agent EXCEPT ![t] = "done"]
    /\ Publish("finished", SessionOf[t])
    /\ UNCHANGED <<turnVars, busy, sleeping, deliveryVars, queueVars, usable,
                   entry, cancelling, cancelled, threadVars>>

(* wait_subagent, called in a turn of the parent, finds the sub-agent      *)
(* ended; mark_collected when the result is usable.                        *)
Collect(t) ==
    /\ turns[SessionOf[t]] > 0
    /\ entry[t] = "listed"
    /\ agent[t] \in {"signalled", "recorded", "done"}
    /\ entry' = [entry EXCEPT ![t] = "removed"]
    /\ IF t \in usable
       THEN /\ collected' = collected \cup {t}
            /\ pending' = pending \ {t}
       ELSE UNCHANGED <<collected, pending>>
    /\ UNCHANGED <<turnVars, bus, busy, sleeping, deliveryVars, tombs,
                   recorded, agent, usable, cancelling, cancelled, threadVars>>

(* An aborted task stops at its next await; one past its last await goes   *)
(* on to record its result.                                                *)
Abort(S) ==
    \E A \in SUBSET {t \in S : agent[t] = "running"} :
        agent' = [t \in Tasks |-> IF t \in A THEN "aborted" ELSE agent[t]]

Unlist(S) ==
    entry' = [t \in Tasks |-> IF t \in S THEN "removed" ELSE entry[t]]

Listed == {t \in Tasks : entry[t] = "listed"}

Removals ==
    Cardinality(cancelled) + Cardinality({th \in Threads : deletion[th] # "no"})
    + (IF purge = "no" THEN 0 ELSE 1)

(* subagent_cancel: cancel_by_task, then a notice in place of the result.  *)
(* It publishes no event.                                                  *)
CancelTask(t) ==
    /\ Removals < MaxRemovals
    /\ t \in Listed
    /\ Unlist({t})
    /\ Abort({t})
    /\ cancelling' = cancelling \cup {t}
    /\ cancelled' = cancelled \cup {t}
    /\ UNCHANGED <<turnVars, bus, busy, sleeping, deliveryVars, queueVars,
                   usable, threadVars>>

RecordCancelled(t) ==
    /\ t \in cancelling
    /\ cancelling' = cancelling \ {t}
    /\ RecordOutcome(t)
    /\ UNCHANGED <<turnVars, bus, busy, sleeping, deliveryVars, tombs,
                   collected, agent, usable, entry, cancelled, threadVars>>

-----------------------------------------------------------------------------
(* Threads: thread_delete and threads_purge.                               *)

DeleteRow(th) ==
    /\ Removals < MaxRemovals
    /\ th \notin gone
    /\ gone' = gone \cup {th}
    /\ deletion' = [deletion EXCEPT ![th] = "aborting"]
    /\ UNCHANGED <<turnVars, bus, busy, sleeping, deliveryVars, queueVars,
                   agentVars, purge, left>>

(* running_subagents::cancel_for_thread.                                   *)
AbortThread(th) ==
    /\ deletion[th] = "aborting"
    /\ deletion' = [deletion EXCEPT ![th] = "discarding"]
    /\ Unlist(Listed \cap On(th))
    /\ Abort(Listed \cap On(th))
    /\ UNCHANGED <<turnVars, bus, busy, sleeping, deliveryVars, queueVars,
                   usable, cancelling, cancelled, purge, left, gone>>

(* background_completions::discard_for_thread.                             *)
Tombstone(th) ==
    /\ tombs' = tombs \cup {th}
    /\ pending' = pending \ On(th)
    /\ UNCHANGED <<collected, recorded>>

DiscardThread(th) ==
    /\ deletion[th] = "discarding"
    /\ deletion' = [deletion EXCEPT ![th] = "done"]
    /\ Tombstone(th)
    /\ UNCHANGED <<turnVars, bus, busy, sleeping, deliveryVars, agentVars,
                   purge, left, gone>>

(* A purge empties the conversation store, ...                             *)
PurgeRows ==
    /\ Removals < MaxRemovals
    /\ purge = "no"
    /\ purge' = "aborting"
    /\ gone' = Threads
    /\ UNCHANGED <<turnVars, bus, busy, sleeping, deliveryVars, queueVars,
                   agentVars, deletion, left>>

(* ... aborts every sub-agent (cancel_all), ...                            *)
PurgeAbort ==
    /\ purge = "aborting"
    /\ purge' = "discarding"
    /\ left' = {Thread(t) : t \in Listed}
    /\ Unlist(Listed)
    /\ Abort(Listed)
    /\ UNCHANGED <<turnVars, bus, busy, sleeping, deliveryVars, queueVars,
                   usable, cancelling, cancelled, deletion, gone>>

(* ... tombstones the threads they came from, ...                          *)
PurgeDiscard(th) ==
    /\ th \in left
    /\ left' = left \ {th}
    /\ Tombstone(th)
    /\ UNCHANGED <<turnVars, bus, busy, sleeping, deliveryVars, agentVars,
                   deletion, purge, gone>>

(* ... and wipes the queue (clear_all).                                    *)
PurgeClear ==
    /\ purge = "discarding"
    /\ left = {}
    /\ purge' = "done"
    /\ pending' = {}
    /\ UNCHANGED <<turnVars, bus, busy, sleeping, deliveryVars, tombs,
                   collected, recorded, agentVars, deletion, left, gone>>

-----------------------------------------------------------------------------
(* An attempt at delivery: try_deliver, d, after its timer.                *)

Goto(d, phase) == at' = [at EXCEPT ![d] = phase]

(* The steps of an attempt that touch nothing but itself.                  *)
QuietVars == <<turnVars, bus, busy, sleeping, queueVars, agentVars,
               threadVars>>

(* The timer fires; is_busy.                                               *)
Wake(s, d) ==
    /\ sleeping[s] > 0
    /\ at[d] = "free"
    /\ Prompt => \A e \in Attempts : session[e] = s => at[e] \notin Briefly
    /\ sleeping' = [sleeping EXCEPT ![s] = @ - 1]
    /\ IF s \in busy
       THEN UNCHANGED <<at, session>>
       ELSE Goto(d, "looking") /\ session' = [session EXCEPT ![d] = s]
    /\ UNCHANGED <<turnVars, bus, busy, slots, hand, delivered, queueVars,
                   agentVars, threadVars>>

(* has_pending.                                                            *)
Look(d) ==
    /\ at[d] = "looking"
    /\ Goto(d, IF pending \cap Of(session[d]) = {} THEN "free" ELSE "claiming")
    /\ UNCHANGED <<QuietVars, slots, session, hand, delivered>>

ClaimSlot_Unchecked(d) ==
    /\ at[d] = "claiming"
    /\ Goto(d, "claimed")
    /\ slots' = slots \cup {session[d]}
    /\ UNCHANGED <<QuietVars, session, hand, delivered>>

(* A delivery of the session in flight: this attempt is over.              *)
ClaimSlot(d) ==
    /\ at[d] = "claiming"
    /\ IF session[d] \in slots
       THEN Goto(d, "free") /\ UNCHANGED slots
       ELSE Goto(d, "claimed") /\ slots' = slots \cup {session[d]}
    /\ UNCHANGED <<QuietVars, session, hand, delivered>>

(* plan_delivery: is_busy, then take_pending.                              *)
CheckIdle(d) ==
    /\ at[d] = "claimed"
    /\ Goto(d, IF session[d] \in busy THEN "releasing" ELSE "draining")
    /\ UNCHANGED <<QuietVars, slots, session, hand, delivered>>

Drain_Copies(d) ==
    /\ at[d] = "draining"
    /\ LET batch == pending \cap Of(session[d])
       IN  /\ hand' = [hand EXCEPT ![d] = batch]
           /\ Goto(d, IF batch = {} THEN "releasing" ELSE "holding")
    /\ UNCHANGED <<QuietVars, slots, session, delivered>>

Drain(d) ==
    /\ at[d] = "draining"
    /\ LET batch == pending \cap Of(session[d])
       IN  /\ hand' = [hand EXCEPT ![d] = batch]
           /\ pending' = pending \ batch
           /\ Goto(d, IF batch = {} THEN "releasing" ELSE "holding")
    /\ UNCHANGED <<turnVars, bus, busy, sleeping, slots, session, delivered,
                   tombs, collected, recorded, agentVars, threadVars>>

(* is_busy again: if a turn has begun the batch goes back.                 *)
Recheck(d) ==
    /\ at[d] = "holding"
    /\ Goto(d, IF session[d] \in busy THEN "requeueing" ELSE "turn")
    /\ UNCHANGED <<QuietVars, slots, session, hand, delivered>>

(* run_system_turn_on_thread.                                              *)
TurnDone(d) ==
    /\ at[d] = "turn"
    /\ delivered' = [t \in Tasks |-> IF t \in hand[d] THEN delivered[t] + 1
                                     ELSE delivered[t]]
    /\ hand' = [hand EXCEPT ![d] = {}]
    /\ Goto(d, "releasing")
    /\ UNCHANGED <<QuietVars, slots, session>>

TurnFails_DropsBatch(d) ==
    /\ Failures
    /\ at[d] = "turn"
    /\ Goto(d, "releasing")
    /\ hand' = [hand EXCEPT ![d] = {}]
    /\ UNCHANGED <<QuietVars, slots, session, delivered>>

TurnFails(d) ==
    /\ Failures
    /\ at[d] = "turn"
    /\ Goto(d, "requeueing")
    /\ UNCHANGED <<QuietVars, slots, session, hand, delivered>>

Requeue_FirstOnly(d, t) ==
    /\ at[d] = "requeueing"
    /\ t \in hand[d]
    /\ RecordOutcome(t)
    /\ hand' = [hand EXCEPT ![d] = @ \ {t}]
    /\ Goto(d, "releasing")
    /\ UNCHANGED <<turnVars, bus, busy, sleeping, slots, session, delivered,
                   tombs, collected, agentVars, threadVars>>

(* requeue: one record_outcome for each result of the batch.               *)
Requeue(d, t) ==
    /\ at[d] = "requeueing"
    /\ t \in hand[d]
    /\ RecordOutcome(t)
    /\ hand' = [hand EXCEPT ![d] = @ \ {t}]
    /\ Goto(d, IF hand[d] = {t} THEN "releasing" ELSE "requeueing")
    /\ UNCHANGED <<turnVars, bus, busy, sleeping, slots, session, delivered,
                   tombs, collected, agentVars, threadVars>>

Release(d) ==
    /\ at[d] = "releasing"
    /\ slots' = slots \ {session[d]}
    /\ Goto(d, "free")
    /\ UNCHANGED <<QuietVars, session, hand, delivered>>

-----------------------------------------------------------------------------
TurnStep(s) == BeginTurn(s) \/ RefuseTurn(s) \/ EndTurn(s) \/ DropTurn(s)
AgentStep(t) == Signal(t) \/ Record(t) \/ Announce(t)
CancelStep(t) == CancelTask(t) \/ RecordCancelled(t)
DeleteStep(th) == DeleteRow(th) \/ AbortThread(th) \/ DiscardThread(th)
PurgeStep ==
    \/ PurgeRows
    \/ PurgeAbort
    \/ \E th \in Threads : PurgeDiscard(th)
    \/ PurgeClear
DeliverStep(d) ==
    \/ Look(d) \/ ClaimSlot(d) \/ CheckIdle(d) \/ Drain(d) \/ Recheck(d)
    \/ \E t \in Tasks : Requeue(d, t)
    \/ Release(d)
TurnOfDelivery(d) == TurnDone(d) \/ TurnFails(d)

Next ==
    \/ \E s \in Sessions : TurnStep(s)
    \/ Handle
    \/ \E t \in Tasks : Spawn(t) \/ Register(t) \/ AgentStep(t) \/ Collect(t)
    \/ \E t \in Tasks : CancelStep(t)
    \/ \E th \in Threads : DeleteStep(th)
    \/ PurgeStep
    \/ \E s \in Sessions, d \in Attempts : Wake(s, d)
    \/ \E d \in Attempts : DeliverStep(d) \/ TurnOfDelivery(d)

Spec == Init /\ [][Next]_vars

(* What the code waits for comes to an end: a turn (it has a deadline), the*)
(* steps of a sub-agent once its work is done, a system turn; the bus and  *)
(* the runtime's timers are served.                                        *)
Fairness ==
    /\ \A s \in Sessions : WF_vars(EndTurn(s))
    /\ WF_vars(Handle)
    /\ \A t \in Tasks : WF_vars(Record(t) \/ Announce(t))
    /\ \A s \in Sessions : WF_vars(\E d \in Attempts : Wake(s, d))
    /\ \A d \in Attempts : WF_vars(DeliverStep(d)) /\ WF_vars(TurnDone(d))

FairSpec == Spec /\ Fairness

-----------------------------------------------------------------------------
TypeOK ==
    /\ turns \in [Sessions -> Nat] /\ begun \in [Sessions -> Nat]
    /\ bus \in Seq(Kinds \X Sessions)
    /\ busy \subseteq Sessions
    /\ sleeping \in [Sessions -> Nat]
    /\ slots \subseteq Sessions
    /\ at \in [Attempts -> Phases]
    /\ session \in [Attempts -> Sessions \cup {NULL}]
    /\ \A d \in Attempts : at[d] # "free" => session[d] # NULL
    /\ hand \in [Attempts -> SUBSET Tasks]
    /\ \A d \in Attempts :
          /\ hand[d] \subseteq {t \in Tasks : SessionOf[t] = session[d]}
          /\ (hand[d] # {}) <=> (at[d] \in {"holding", "turn", "requeueing"})
    /\ pending \subseteq Tasks /\ tombs \subseteq Threads
    /\ collected \subseteq Tasks
    /\ agent \in [Tasks -> Stages]
    /\ usable \subseteq Tasks /\ cancelling \subseteq Tasks
    /\ entry \in [Tasks -> {"none", "listed", "removed"}]
    /\ deletion \in [Threads -> {"no", "aborting", "discarding", "done"}]
    /\ purge \in {"no", "aborting", "discarding", "done"}
    /\ left \subseteq Threads /\ gone \subseteq Threads
    /\ recorded \subseteq Tasks /\ cancelled \subseteq Tasks
    /\ delivered \in [Tasks -> Nat]

(* Two attempts of a session whose timers fire close together never both   *)
(* get past the claim of the delivery slot: one system turn at a time on a *)
(* thread ("prevents two concurrent turns").                               *)
OneDeliveryPerSession ==
    \A d, e \in Attempts :
        (at[d] \in Owning /\ at[e] \in Owning /\ session[d] = session[e])
            => d = e

(* A result that was once accepted is never dropped between the queue, a   *)
(* batch in hand and the chat: it is waiting, or held by an attempt, or a  *)
(* system turn has carried it, or the parent collected it, or its thread is*)
(* deleted.                                                                *)
NoResultLost ==
    \A t \in recorded :
        \/ t \in pending
        \/ \E d \in Attempts : t \in hand[d]
        \/ delivered[t] > 0
        \/ t \in collected
        \/ Thread(t) \in gone

(* Whatever the order of the sweeps and of late results and batches put    *)
(* back: the queue holds nothing the parent has collected and nothing of a *)
(* thread whose results were discarded.                                    *)
NothingQueuedForGone ==
    /\ pending \cap collected = {}
    /\ \A t \in pending : Thread(t) \notin tombs

(* The result of a sub-agent is carried by one system turn.  Only one the  *)
(* user cancelled is carried twice at most: the notice, and the result of  *)
(* a sub-agent that was past its last await.                               *)
DeliveredOnce ==
    \A t \in Tasks : delivered[t] <= (IF t \in cancelled THEN 2 ELSE 1)

(* The promise of DeliveryContract: however attempts, late results, failed *)
(* turns, collects and deletions interleave, a result moves only from the  *)
(* queue into the one batch of its session, and from there to the chat or  *)
(* back; what was collected or discarded does not come back.               *)
carried ==
    [s \in Sessions |-> UNION {hand[d] : d \in {e \in Attempts : session[e] = s}}]
Contract == INSTANCE DeliveryContract WITH waiting <- pending, closed <- tombs
ImplementsContract == Contract!Spec

(* A result that was accepted is in the end delivered, unless the parent   *)
(* collects it first: no later turn of the user is needed for it.          *)
ResultsDelivered ==
    \A t \in Tasks :
        t \in recorded ~> (delivered[t] > 0 \/ t \in collected)

=============================================================================
