-------------------------------- MODULE WebChat --------------------------------
(***************************************************************************)
(* Chat turns of the web channel (web_chat/ops.rs) and the run queue that  *)
(* steers them (agent/harness/run_queue, agent/tinyagents/                 *)
(* steering_forwarder.rs).  A message starts a turn of its own, or joins   *)
(* the run queue of the turn its thread has registered in IN_FLIGHT.       *)
(* start_chat looks the registration up, supersedes it and inserts its own *)
(* in three sections of the lock; calls of start_chat, turn tasks, the     *)
(* forwarders and stops all run concurrently.                              *)
(*                                                                         *)
(* A message, the start_chat call that brings it and the turn it may start *)
(* share one identity.  A reply to a parked approval never gets this far   *)
(* (ThreadReply of ApprovalGate), nor does a message the prompt guard      *)
(* refuses.                                                                *)
(***************************************************************************)
EXTENDS Naturals, FiniteSets

CONSTANTS
    Messages,   \* messages sent to start_chat, and the turns they start
    Threads,
    Modes,      \* the queue modes in use
    Stops,      \* cancel requests
    NULL

AllModes == {"interrupt", "steer", "followup", "collect", "parallel"}
ASSUME ModesAssumption == Modes \subseteq AllModes

VARIABLES
    msg,        \* thread and mode of a message, once sent
    at,         \* where the start_chat call, then the message itself, is
    host,       \* the turn whose run queue a message joined last
    turn,       \* where the task of the turn is
    cancelled,  \* turns whose cancel token is cancelled
    told,       \* terminal events published for a turn
    inFlight,   \* IN_FLIGHT: the primary turn registered for a thread
    parallel,   \* PARALLEL_IN_FLIGHT
    stop        \* the cancel requests

queueVars == <<at, host>>
vars == <<msg, queueVars, turn, cancelled, told, inFlight, parallel, stop>>

(* lookup -> superseding -> inserting -> accepted is a start_chat call,    *)
(* forking that of a parallel one.  A queued message waits in the queue of *)
(* its host; a steer goes on to held (by the forwarder), delivered (to the *)
(* steering handle) and seen, or comes back as residual.                   *)
Points == {"unsent", "lookup", "forking", "superseding", "inserting", "accepted",
           "queued", "held", "delivered", "residual", "seen", "cleared"}
Phases == {"none", "starting", "running", "produced", "unwinding", "told", "ended"}
Live   == Phases \ {"none", "ended"}

MsgType == [thread : Threads, mode : AllModes]
StopType == [at : {"forks", "tell", "done"}, thread : Threads,
             target : Messages \cup {NULL}, victims : SUBSET Messages]

ASSUME NullAssumption ==
    /\ NULL \notin Messages \cup Threads
    /\ NULL \notin MsgType /\ NULL \notin StopType

TypeOK ==
    /\ msg \in [Messages -> MsgType \cup {NULL}]
    /\ at \in [Messages -> Points]
    /\ host \in [Messages -> Messages \cup {NULL}]
    /\ turn \in [Messages -> Phases]
    /\ cancelled \subseteq Messages
    /\ told \in [Messages -> SUBSET {"reply", "error", "cancelled"}]
    /\ inFlight \in [Threads -> Messages \cup {NULL}]
    /\ parallel \subseteq Messages
    /\ stop \in [Stops -> StopType \cup {NULL}]

Init ==
    /\ msg = [m \in Messages |-> NULL]
    /\ at = [m \in Messages |-> "unsent"]
    /\ host = [m \in Messages |-> NULL]
    /\ turn = [m \in Messages |-> "none"]
    /\ cancelled = {}
    /\ told = [m \in Messages |-> {}]
    /\ inFlight = [t \in Threads |-> NULL]
    /\ parallel = {}
    /\ stop = [s \in Stops |-> NULL]

Current(m) == inFlight[msg[m].thread]   \* the entry of the thread of m
IsFork(m)  == msg[m].mode = "parallel"
Waiting(m, point) == {x \in Messages : at[x] = point /\ host[x] = m}
Move(S, point) == [x \in Messages |-> IF x \in S THEN point ELSE at[x]]
Tell(S, e) == [x \in Messages |-> IF x \in S THEN told[x] \cup {e} ELSE told[x]]

-------------------------------------------------------------------------------
(* start_chat.                                                             *)

FirstPoint(mode) ==
    CASE mode = "parallel"  -> "forking"
      [] mode = "interrupt" -> "superseding"
      [] OTHER              -> "lookup"

Receive(m, t, mode) ==
    /\ at[m] = "unsent"
    /\ msg' = [msg EXCEPT ![m] = [thread |-> t, mode |-> mode]]
    /\ at' = [at EXCEPT ![m] = FirstPoint(mode)]
    /\ UNCHANGED <<host, turn, cancelled, told, inFlight, parallel, stop>>

(* A steer, followup or collect joins the queue of the registered turn     *)
(* and is answered "queued" ...                                            *)
Enqueue(m) ==
    /\ at[m] = "lookup" /\ Current(m) # NULL
    /\ at' = [at EXCEPT ![m] = "queued"]
    /\ host' = [host EXCEPT ![m] = Current(m)]
    /\ UNCHANGED <<msg, turn, cancelled, told, inFlight, parallel, stop>>

(* ... or, with no turn registered, lets go of the lock and goes the way   *)
(* of an interrupt.                                                        *)
FallThrough(m) ==
    /\ at[m] = "lookup" /\ Current(m) = NULL
    /\ at' = [at EXCEPT ![m] = "superseding"]
    /\ UNCHANGED <<msg, host, turn, cancelled, told, inFlight, parallel, stop>>

(* Mutant of Superseded: nobody looks whether there is an entry.           *)
Superseded_Any(m) == {Current(m)}

Superseded(m) == {Current(m)} \ {NULL}

(* Mutant of Supersede: the old turn is cancelled but stays registered.    *)
Supersede_Keeps(m) ==
    /\ at[m] = "superseding"
    /\ cancelled' = cancelled \cup Superseded(m)
    /\ told' = Tell(Superseded(m), "cancelled")
    /\ turn' = [turn EXCEPT ![m] = "starting"]
    /\ at' = [at EXCEPT ![m] = "inserting"]
    /\ UNCHANGED <<msg, host, inFlight, parallel, stop>>

(* The registered turn is removed, cancelled and told so; then the task of *)
(* the new one is spawned.                                                 *)
Supersede(m) ==
    /\ at[m] = "superseding"
    /\ inFlight' = [inFlight EXCEPT ![msg[m].thread] = NULL]
    /\ cancelled' = cancelled \cup Superseded(m)
    /\ told' = Tell(Superseded(m), "cancelled")
    /\ turn' = [turn EXCEPT ![m] = "starting"]
    /\ at' = [at EXCEPT ![m] = "inserting"]
    /\ UNCHANGED <<msg, host, parallel, stop>>

(* spawn_parallel_turn spawns its task without looking at other turns.     *)
Fork(m) ==
    /\ at[m] = "forking"
    /\ turn' = [turn EXCEPT ![m] = "starting"]
    /\ at' = [at EXCEPT ![m] = "inserting"]
    /\ UNCHANGED <<msg, host, cancelled, told, inFlight, parallel, stop>>

(* The entry goes in once the task is spawned, which may be over by then.  *)
Register(m) ==
    /\ at[m] = "inserting"
    /\ IF IsFork(m)
         THEN parallel' = parallel \cup {m} /\ UNCHANGED inFlight
         ELSE inFlight' = [inFlight EXCEPT ![msg[m].thread] = m] /\ UNCHANGED parallel
    /\ at' = [at EXCEPT ![m] = "accepted"]
    /\ UNCHANGED <<msg, host, turn, cancelled, told, stop>>

-------------------------------------------------------------------------------
(* The task of a turn.                                                     *)

(* Until the steering guard is armed the turn drains its queue itself,     *)
(* from then on the 50 ms poll loop does.                                  *)
Arm(m) ==
    /\ turn[m] = "starting"
    /\ turn' = [turn EXCEPT ![m] = "running"]
    /\ UNCHANGED <<msg, queueVars, cancelled, told, inFlight, parallel, stop>>

(* Mutant of Take: nobody polls the queue once the turn runs.              *)
Take_BeforeRun(m, lane) ==
    LET S == {x \in Waiting(m, "queued") : msg[x].mode = lane} IN
    /\ turn[m] = "starting" /\ S # {}
    /\ at' = Move(S, "held")
    /\ UNCHANGED <<msg, host, turn, cancelled, told, inFlight, parallel, stop>>

(* The forwarder drains one lane ...                                       *)
Take(m, lane) ==
    LET S == {x \in Waiting(m, "queued") : msg[x].mode = lane} IN
    /\ turn[m] \in {"starting", "running"} /\ S # {}
    /\ at' = Move(S, "held")
    /\ UNCHANGED <<msg, host, turn, cancelled, told, inFlight, parallel, stop>>

(* ... and sends it to the handle, even if it was aborted in between: the  *)
(* abort takes effect at an await, and there is none before the send.      *)
Deliver(m) ==
    /\ Waiting(m, "held") # {}
    /\ at' = Move(Waiting(m, "held"), "delivered")
    /\ UNCHANGED <<msg, host, turn, cancelled, told, inFlight, parallel, stop>>

(* The harness applies the handle at an iteration checkpoint.              *)
Checkpoint(m) ==
    /\ turn[m] = "running" /\ Waiting(m, "delivered") # {}
    /\ at' = Move(Waiting(m, "delivered"), "seen")
    /\ UNCHANGED <<msg, host, turn, cancelled, told, inFlight, parallel, stop>>

(* SteeringForwarderGuard::drop, when the guard is armed: what the handle  *)
(* still holds goes to a detached task ...                                 *)
DropGuard(m) ==
    at' = IF turn[m] = "running" THEN Move(Waiting(m, "delivered"), "residual") ELSE at

(* ... that pushes it back into the queue of the same turn.                *)
Requeue(m) ==
    /\ Waiting(m, "residual") # {}
    /\ at' = Move(Waiting(m, "residual"), "queued")
    /\ UNCHANGED <<msg, host, turn, cancelled, told, inFlight, parallel, stop>>

(* run_chat_task returns, fails, or runs into the wall-clock backstop; the *)
(* cancel token has no effect on the turn from here on.  The select looks  *)
(* at the token first, so a cancelled turn produces only if the cancel     *)
(* came while its future was being polled.                                 *)
Produce(m) ==
    /\ turn[m] \in {"starting", "running"}
    /\ turn' = [turn EXCEPT ![m] = "produced"]
    /\ DropGuard(m)
    /\ UNCHANGED <<msg, host, cancelled, told, inFlight, parallel, stop>>

(* The cancel token wins the select: the turn unwinds quietly.             *)
Unwind(m) ==
    /\ m \in cancelled /\ turn[m] \in {"starting", "running"}
    /\ turn' = [turn EXCEPT ![m] = "unwinding"]
    /\ DropGuard(m)
    /\ UNCHANGED <<msg, host, cancelled, told, inFlight, parallel, stop>>

(* deliver_response, or a chat_error.                                      *)
Respond(m, e) ==
    /\ turn[m] = "produced"
    /\ turn' = [turn EXCEPT ![m] = "told"]
    /\ told' = Tell({m}, e)
    /\ UNCHANGED <<msg, queueVars, cancelled, inFlight, parallel, stop>>

Followups(m) == {x \in Waiting(m, "queued") : msg[x].mode = "followup"}
End(m) == turn' = [turn EXCEPT ![m] = "ended"]
Deregister(m) == inFlight' = [inFlight EXCEPT ![msg[m].thread] = IF @ = m THEN NULL ELSE @]

(* Mutants of DispatchFollowups: the entry of the thread is removed        *)
(* whoever owns it; the followups go before the reply; they are forgotten. *)
DispatchFollowups_AnyEntry(m) ==
    /\ turn[m] = "told" /\ ~IsFork(m) /\ End(m)
    /\ inFlight' = [inFlight EXCEPT ![msg[m].thread] = NULL]
    /\ at' = IF Current(m) = m THEN Move(Followups(m), "lookup") ELSE at
    /\ UNCHANGED <<msg, host, cancelled, told, parallel, stop>>
DispatchFollowups_Early(m) ==
    /\ turn[m] \in {"produced", "told"} /\ ~IsFork(m)
    /\ turn' = [turn EXCEPT ![m] = IF @ = "told" THEN "ended" ELSE @]
    /\ Deregister(m)
    /\ at' = IF Current(m) = m THEN Move(Followups(m), "lookup") ELSE at
    /\ UNCHANGED <<msg, host, cancelled, told, parallel, stop>>
DispatchFollowups_Forgets(m) ==
    /\ turn[m] = "told" /\ ~IsFork(m) /\ End(m) /\ Deregister(m)
    /\ UNCHANGED <<msg, at, host, cancelled, told, parallel, stop>>

(* A primary turn that still owns its entry drains its followups, removes  *)
(* the entry, and calls start_chat again for each, all at once; one that   *)
(* does not leaves everything as it is.                                    *)
DispatchFollowups(m) ==
    /\ turn[m] = "told" /\ ~IsFork(m) /\ End(m)
    /\ Deregister(m)
    /\ at' = IF Current(m) = m THEN Move(Followups(m), "lookup") ELSE at
    /\ UNCHANGED <<msg, host, cancelled, told, parallel, stop>>

(* A cancelled primary turn releases the entry it may still own.           *)
Release(m) ==
    /\ turn[m] = "unwinding" /\ ~IsFork(m) /\ End(m)
    /\ Deregister(m)
    /\ UNCHANGED <<msg, queueVars, cancelled, told, parallel, stop>>

(* A parallel turn removes itself, however it ended.                       *)
LeaveParallel(m) ==
    /\ turn[m] \in {"told", "unwinding"} /\ IsFork(m) /\ End(m)
    /\ parallel' = parallel \ {m}
    /\ UNCHANGED <<msg, queueVars, cancelled, told, inFlight, stop>>

(* The backstop of a cancel aborts a task that has not unwound in 5 s,     *)
(* wherever it is.                                                         *)
HardAbort(m) ==
    /\ m \in cancelled /\ turn[m] \in Live /\ End(m)
    /\ DropGuard(m)
    /\ UNCHANGED <<msg, host, cancelled, told, inFlight, parallel, stop>>

-------------------------------------------------------------------------------
(* cancel_chat_scoped and the queue RPC.                                   *)

Targets(m, target) == target \in {NULL, m}     \* cancel_should_target

(* Mutant of StopPrimary: the scope of the cancel is ignored (#4760).      *)
StopPrimary_Unscoped(s, t, target) ==
    LET hit == {inFlight[t]} \ {NULL} IN
    /\ stop[s] = NULL
    /\ stop' = [stop EXCEPT ![s] =
         [at |-> "forks", thread |-> t, target |-> target, victims |-> hit]]
    /\ inFlight' = [inFlight EXCEPT ![t] = IF @ \in hit THEN NULL ELSE @]
    /\ cancelled' = cancelled \cup hit
    /\ UNCHANGED <<msg, queueVars, turn, told, parallel>>

(* The primary turn is removed and cancelled if the cancel is unscoped or  *)
(* names it.                                                               *)
StopPrimary(s, t, target) ==
    LET hit == {m \in {inFlight[t]} \ {NULL} : Targets(m, target)} IN
    /\ stop[s] = NULL
    /\ stop' = [stop EXCEPT ![s] =
         [at |-> "forks", thread |-> t, target |-> target, victims |-> hit]]
    /\ inFlight' = [inFlight EXCEPT ![t] = IF @ \in hit THEN NULL ELSE @]
    /\ cancelled' = cancelled \cup hit
    /\ UNCHANGED <<msg, queueVars, turn, told, parallel>>

(* Then the parallel turns of the thread, or the one it names.             *)
StopForks(s) ==
    LET hit == {m \in parallel : /\ msg[m].thread = stop[s].thread
                                 /\ Targets(m, stop[s].target)} IN
    /\ stop[s] # NULL /\ stop[s].at = "forks"
    /\ stop' = [stop EXCEPT ![s].at = "tell", ![s].victims = @ \cup hit]
    /\ parallel' = parallel \ hit
    /\ cancelled' = cancelled \cup hit
    /\ UNCHANGED <<msg, queueVars, turn, told, inFlight>>

(* Mutant of StopTells: only the primary turn is told.                     *)
StopTells_PrimaryOnly(s) ==
    /\ stop[s] # NULL /\ stop[s].at = "tell"
    /\ stop' = [stop EXCEPT ![s].at = "done", ![s].victims = {}]
    /\ told' = Tell({m \in stop[s].victims : ~IsFork(m)}, "cancelled")
    /\ UNCHANGED <<msg, queueVars, turn, cancelled, inFlight, parallel>>

(* Finally a chat_error for each turn it cancelled.                        *)
StopTells(s) ==
    /\ stop[s] # NULL /\ stop[s].at = "tell"
    /\ stop' = [stop EXCEPT ![s].at = "done", ![s].victims = {}]
    /\ told' = Tell(stop[s].victims, "cancelled")
    /\ UNCHANGED <<msg, queueVars, turn, cancelled, inFlight, parallel>>

(* channel_web_queue_clear.                                                *)
ClearQueue(t) ==
    /\ inFlight[t] # NULL
    /\ at' = Move(Waiting(inFlight[t], "queued"), "cleared")
    /\ UNCHANGED <<msg, host, turn, cancelled, told, inFlight, parallel, stop>>

-------------------------------------------------------------------------------
Call(m) == Enqueue(m) \/ FallThrough(m) \/ Supersede(m) \/ Fork(m) \/ Register(m)

Steering(m) ==
    \/ \E lane \in {"steer", "collect"} : Take(m, lane)
    \/ Deliver(m) \/ Checkpoint(m) \/ Requeue(m)

Task(m) ==
    \/ Produce(m) \/ Unwind(m) \/ DispatchFollowups(m) \/ Release(m) \/ LeaveParallel(m)
    \/ \E e \in {"reply", "error"} : Respond(m, e)

Stopping(s) == StopForks(s) \/ StopTells(s)

Next ==
    \/ \E m \in Messages :
         \/ \E t \in Threads, mode \in Modes : Receive(m, t, mode)
         \/ Call(m) \/ Arm(m) \/ Steering(m) \/ Task(m) \/ HardAbort(m)
    \/ \E s \in Stops, t \in Threads :
         \E target \in {NULL} \cup {m \in Messages : turn[m] # "none"} :
           StopPrimary(s, t, target)
    \/ \E s \in Stops : Stopping(s)
    \/ \E t \in Threads : ClearQueue(t)

Spec == Init /\ [][Next]_vars

(* A call that started goes on, the forwarder keeps polling, the harness   *)
(* keeps reaching checkpoints, and a stop is carried through.              *)
FairSpec ==
    /\ Spec
    /\ \A m \in Messages : WF_vars(Call(m)) /\ WF_vars(Steering(m))
    /\ \A s \in Stops : WF_vars(Stopping(s))

(* The wall-clock backstop ends every turn; the rest goes on by itself.    *)
TurnsEnd == \A m \in Messages : WF_vars(Task(m))

-------------------------------------------------------------------------------
(* Safety.                                                                 *)

(* A registered turn can still be cancelled: no message is queued on, and  *)
(* no stop spent on, a turn somebody has cancelled before.                 *)
RegisteredNotCancelled ==
    /\ \A t \in Threads : inFlight[t] \notin cancelled
    /\ parallel \cap cancelled = {}

(* The end of a turn never evicts the turn that superseded it: an entry    *)
(* goes only with the cancellation, or by the end, of the turn it names.   *)
EvictionOwned ==
    [][\A t \in Threads :
         inFlight[t] # NULL /\ inFlight'[t] = NULL
           => inFlight[t] \in cancelled' \/ turn'[inFlight[t]] = "ended"]_vars

(* A turn is cancelled only by a newer message that supersedes it on its   *)
(* own thread, or by a stop meant for it: a late cancel of a superseded    *)
(* request spares the turn that replaced it (#4760), and no superseding    *)
(* message touches a parallel turn.                                        *)
CancelHasCause ==
    [][\A x \in cancelled' \ cancelled :
         \/ \E m \in Messages :
              /\ at[m] = "superseding" /\ at'[m] # at[m]
              /\ msg[m].thread = msg[x].thread /\ ~IsFork(x)
         \/ \E s \in Stops :
              /\ stop'[s] # stop[s]
              /\ stop'[s].thread = msg[x].thread /\ stop'[s].target \in {NULL, x}]_vars

(* No turn ends in silence (#4746): its client has a terminal event, or a  *)
(* stop still in progress is about to publish one.                         *)
EndedAnswered ==
    \A m \in Messages : turn[m] = "ended" =>
        \/ told[m] # {}
        \/ \E s \in Stops : stop[s] # NULL /\ m \in stop[s].victims

(* A followup that was queued starts its turn only after the client of the *)
(* turn it waited for has been told how that one ended.                    *)
FollowupAfterHost ==
    \A m \in Messages : host[m] # NULL /\ turn[m] # "none" => told[host[m]] # {}

(* The promises of ChatContract: a message that is queued, held, delivered *)
(* or left over waits on the turn it joined; a turn that published any     *)
(* terminal event is answered, and one in the hands of a stop is owed it.  *)
StageAt(point, phase) ==
    CASE phase = "ended" -> "over"
      [] phase \in Live -> "turn"
      [] phase = "none" /\ point \in {"queued", "held", "delivered", "residual"} -> "joined"
      [] phase = "none" /\ point = "seen" -> "heard"
      [] phase = "none" /\ point \in {"unsent", "cleared"} -> point
      [] OTHER -> "called"
Stage == [m \in Messages |-> StageAt(at[m], turn[m])]
AnsweredTurns == {m \in Messages : told[m] # {}}
OwedTurns == {m \in Messages : \E s \in Stops : stop[s] # NULL /\ m \in stop[s].victims}

Contract ==
    INSTANCE ChatContract WITH
        stage    <- Stage,
        owner    <- host,
        answered <- AnsweredTurns,
        owed     <- OwedTurns,
        stopped  <- cancelled

(* Whatever calls, turns, forwarders and stops do between one another's    *)
(* sections of the locks, a message keeps its promises: it joins no turn   *)
(* that was cancelled, is heard only while the turn it joined runs, and    *)
(* starts its own only once that turn is answered (a followup released by  *)
(* a turn nobody has heard from would answer out of order); no turn is     *)
(* over in silence (#4746); a stop tells exactly the turns it cancelled.   *)
ImplementsContract == Contract!Spec

-------------------------------------------------------------------------------
(* Liveness, under FairSpec.                                               *)

(* If turns end, every turn that starts is answered.                       *)
EveryTurnAnswered ==
    TurnsEnd => \A m \in Messages : turn[m] # "none" ~> told[m] # {}

(* If turns end, a followup waiting on a registered, unfinished turn is    *)
(* taken up, unless that turn is cancelled or another registers over it.   *)
FollowupServed ==
    TurnsEnd =>
      \A m, h \in Messages :
        (/\ at[m] = "queued" /\ msg[m].mode = "followup" /\ host[m] = h
         /\ turn[h] \in Live /\ Current(m) = h)
          ~> \/ at[m] # "queued" \/ h \in cancelled
             \/ Current(m) \notin {h, NULL}

(* No steer starves while the turn it was queued on runs, whether or not   *)
(* that turn ever ends.                                                    *)
SteerHeeded ==
    \A m, h \in Messages :
        (at[m] = "queued" /\ msg[m].mode \in {"steer", "collect"} /\ host[m] = h
           /\ turn[h] = "running")
          ~> at[m] \in {"seen", "cleared"} \/ turn[h] # "running"

===============================================================================
