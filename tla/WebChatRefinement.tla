---------------------------- MODULE WebChatRefinement ----------------------------
(***************************************************************************)
(* WebChat implements ChatContract, for every set of messages, threads and *)
(* stops: the refinement that TLC checks on the instance of MCWebChat.     *)
(***************************************************************************)
EXTENDS WebChatProofs

-------------------------------------------------------------------------------
(* Who a stop holds: turns that are cancelled, and that no other stop hit. *)
(* Without it a stop that tells its turns could leave one of them owed.    *)
Held ==
    \A s \in Stops : stop[s] # NULL =>
        /\ stop[s].victims \subseteq cancelled
        /\ \A z \in Stops \ {s} :
             stop[z] # NULL => stop[s].victims \cap stop[z].victims = {}

RInv == IInv /\ Held

LEMMA StopWriters ==
    ASSUME [Next]_vars
    PROVE  \/ UNCHANGED stop /\ cancelled \subseteq cancelled'
           \/ \E s \in Stops, t \in Threads, target \in Messages \cup {NULL} :
                StopPrimary(s, t, target)
           \/ \E s \in Stops : StopForks(s) \/ StopTells(s)
BY DEF Next, vars, queueVars, Receive, Call, Enqueue, FallThrough, Supersede, Fork, Register,
       Arm, Steering, Take, Deliver, Checkpoint, Requeue, Task, Produce, Unwind,
       DispatchFollowups, Release, LeaveParallel, Respond, HardAbort, Stopping, ClearQueue

LEMMA HeldStep == RInv /\ [Next]_vars => Held'
<1> SUFFICES ASSUME RInv, [Next]_vars PROVE Held'
    OBVIOUS
<1>0. TypeOK /\ RegisteredNotCancelled /\ Held
    BY DEF RInv, IInv
<1>1. CASE UNCHANGED stop /\ cancelled \subseteq cancelled'
    BY <1>0, <1>1 DEF Held
<1>2. ASSUME NEW s \in Stops, NEW t \in Threads, NEW target \in Messages \cup {NULL},
             StopPrimary(s, t, target)
      PROVE  Held'
  <2> DEFINE hit == {m \in {inFlight[t]} \ {NULL} : Targets(m, target)}
             new == [at |-> "forks", thread |-> t, target |-> target, victims |-> hit]
  <2>1. hit \cap cancelled = {}
    BY <1>0 DEF RegisteredNotCancelled
  <2>2. new.victims = hit
    OBVIOUS
  <2>3. cancelled' = cancelled \cup hit /\ stop' = [stop EXCEPT ![s] = new]
    BY <1>2 DEF StopPrimary
  <2> HIDE DEF hit, new
  <2>4. stop'[s] = new /\ \A z \in Stops \ {s} : stop'[z] = stop[z]
    BY <1>0, <2>3 DEF TypeOK
  <2> QED
    BY <1>0, <2>1, <2>2, <2>3, <2>4 DEF Held
<1>3. ASSUME NEW s \in Stops, StopForks(s) PROVE Held'
  <2> DEFINE hit == {m \in parallel : /\ msg[m].thread = stop[s].thread
                                      /\ Targets(m, stop[s].target)}
             new == [stop[s] EXCEPT !.at = "tell", !.victims = @ \cup hit]
  <2>1. hit \cap cancelled = {} /\ stop[s] \in StopType
    BY <1>0, <1>3 DEF RegisteredNotCancelled, StopForks, TypeOK
  <2>2. new.victims = stop[s].victims \cup hit
    BY <2>1 DEF StopType
  <2>3. stop[s] # NULL /\ cancelled' = cancelled \cup hit
        /\ stop' = [stop EXCEPT ![s] = new]
    BY <1>0, <1>3, <2>1 DEF StopForks, TypeOK, StopType
  <2> HIDE DEF hit, new
  <2>4. stop'[s] = new /\ \A z \in Stops \ {s} : stop'[z] = stop[z]
    BY <1>0, <2>3 DEF TypeOK
  <2> QED
    BY <1>0, <2>1, <2>2, <2>3, <2>4 DEF Held
<1>4. ASSUME NEW s \in Stops, StopTells(s) PROVE Held'
  <2> DEFINE new == [stop[s] EXCEPT !.at = "done", !.victims = {}]
  <2>1. stop[s] \in StopType
    BY <1>0, <1>4 DEF StopTells, TypeOK
  <2>2. new.victims = {}
    BY <2>1 DEF StopType
  <2>3. cancelled' = cancelled /\ stop' = [stop EXCEPT ![s] = new]
    BY <1>0, <1>4, <2>1 DEF StopTells, TypeOK, StopType
  <2> HIDE DEF new
  <2>4. stop'[s] = new /\ \A z \in Stops \ {s} : stop'[z] = stop[z]
    BY <1>0, <2>3 DEF TypeOK
  <2> QED
    BY <1>0, <2>2, <2>3, <2>4 DEF Held
<1> QED
    BY StopWriters, <1>1, <1>2, <1>3, <1>4

LEMMA RefinementInvariance == Spec => []RInv
<1>1. Init => Held
    BY DEF Init, Held
<1>2. RInv /\ [Next]_vars => RInv'
    BY HeldStep, InvStep DEF RInv
<1> QED
    BY <1>1, <1>2, InitIInv, PTL DEF Spec, RInv

-------------------------------------------------------------------------------
(* What a stage says of the message and of its turn.                       *)
LEMMA StageCases ==
    ASSUME NEW point \in Points, NEW phase \in Phases, phase # "none" <=> point \in Spawned
    PROVE  LET stage == StageAt(point, phase) IN
           /\ stage = "unsent"  <=> point = "unsent"
           /\ stage = "called"  <=> point \in {"lookup", "forking", "superseding"}
           /\ stage = "joined"  <=> point \in {"queued", "held", "delivered", "residual"}
           /\ stage = "heard"   <=> point = "seen"
           /\ stage = "cleared" <=> point = "cleared"
           /\ stage = "turn"    <=> phase \in Live
           /\ stage = "over"    <=> phase = "ended"
           /\ stage \in {"turn", "over"} <=> point \in Spawned
<1>1. phase \in Live <=> phase \notin {"none", "ended"}
    BY DEF Live, Phases
<1> QED
    BY <1>1 DEF StageAt, Points, Spawned

StageMeans(m) ==
    /\ Stage[m] = "unsent"  <=> at[m] = "unsent"
    /\ Stage[m] = "called"  <=> at[m] \in {"lookup", "forking", "superseding"}
    /\ Stage[m] = "joined"  <=> at[m] \in {"queued", "held", "delivered", "residual"}
    /\ Stage[m] = "heard"   <=> at[m] = "seen"
    /\ Stage[m] = "cleared" <=> at[m] = "cleared"
    /\ Stage[m] = "turn"    <=> turn[m] \in Live
    /\ Stage[m] = "over"    <=> turn[m] = "ended"
    /\ Stage[m] \in {"turn", "over"} <=> at[m] \in Spawned

LEMMA Stages == ASSUME IInv, NEW m \in Messages PROVE StageMeans(m)
<1>1. /\ at[m] \in Points /\ turn[m] \in Phases
      /\ turn[m] # "none" <=> at[m] \in Spawned
      /\ Stage[m] = StageAt(at[m], turn[m])
    BY DEF IInv, TypeOK, Shape, Stage
<1> QED
    BY <1>1, StageCases DEF StageMeans

LEMMA NextStages == ASSUME IInv', NEW m \in Messages PROVE StageMeans(m)'
<1>1. /\ at'[m] \in Points /\ turn'[m] \in Phases
      /\ turn'[m] # "none" <=> at'[m] \in Spawned
      /\ Stage'[m] = StageAt(at'[m], turn'[m])
    BY DEF IInv, TypeOK, Shape, Stage
<1> QED
    BY <1>1, StageCases DEF StageMeans

LEMMA Stays ==
    ASSUME NEW m \in Messages, at'[m] = at[m], turn'[m] = turn[m]
    PROVE  Stage'[m] = Stage[m]
BY DEF Stage

LEMMA AnswersAlike ==
    ASSUME UNCHANGED <<told, stop>>
    PROVE  UNCHANGED <<AnsweredTurns, OwedTurns>>
BY DEF AnsweredTurns, OwedTurns

-------------------------------------------------------------------------------
(* Every action takes a step of the contract, or none.                     *)

(* A step that moves neither a message nor a turn from stage to stage.     *)
LEMMA Stutters ==
    ASSUME \A x \in Messages : Stage'[x] = Stage[x],
           UNCHANGED <<host, told, cancelled, stop>>
    PROVE  UNCHANGED Contract!vars
<1>1. Stage' = Stage
    BY DEF Stage
<1> QED
    BY <1>1, AnswersAlike DEF Contract!vars

LEMMA ReceiveMaps ==
    ASSUME RInv, RInv', NEW m \in Messages, NEW t \in Threads, NEW mode \in Modes,
           Receive(m, t, mode)
    PROVE  Contract!Send(m)
<1>0. IInv /\ IInv' /\ TypeOK
    BY DEF RInv, IInv
<1>1. Stage[m] = "unsent" /\ Stage'[m] = "called"
  <2>1. at[m] = "unsent" /\ at'[m] \in {"lookup", "forking", "superseding"}
    BY <1>0 DEF Receive, FirstPoint, TypeOK
  <2>2. Stage'[m] = "called"
    BY <1>0, <2>1, NextStages DEF StageMeans
  <2> QED
    BY <1>0, <2>1, <2>2, Stages DEF StageMeans
<1>2. \A x \in Messages \ {m} : Stage'[x] = Stage[x]
    BY <1>0, Stays DEF Receive, TypeOK
<1>3. Stage' = [Stage EXCEPT ![m] = "called"]
    BY <1>1, <1>2 DEF Stage
<1> QED
    BY <1>1, <1>3, AnswersAlike DEF Receive, Contract!Send

LEMMA EnqueueMaps ==
    ASSUME RInv, RInv', NEW m \in Messages, Enqueue(m)
    PROVE  Contract!Join(m, Current(m)) /\ Current(m) \in Messages
<1>0. IInv /\ IInv' /\ TypeOK /\ Shape /\ Registered /\ RegisteredNotCancelled
    BY DEF RInv, IInv
<1>1. Current(m) \in Messages \ cancelled /\ at[Current(m)] = "accepted"
    BY <1>0 DEF Enqueue, Current, TypeOK, Shape, Registered, RegisteredNotCancelled, MsgType
<1>2. Stage[Current(m)] \in {"turn", "over"}
    BY <1>0, <1>1, Stages DEF StageMeans, Spawned
<1>3. Stage[m] = "called" /\ Stage'[m] = "joined"
  <2>1. at[m] = "lookup" /\ at'[m] = "queued"
    BY <1>0 DEF Enqueue, TypeOK
  <2>2. Stage'[m] = "joined"
    BY <1>0, <2>1, NextStages DEF StageMeans
  <2> QED
    BY <1>0, <2>1, <2>2, Stages DEF StageMeans
<1>4. \A x \in Messages \ {m} : Stage'[x] = Stage[x]
    BY <1>0, Stays DEF Enqueue, TypeOK
<1>5. Stage' = [Stage EXCEPT ![m] = "joined"]
    BY <1>3, <1>4 DEF Stage
<1> QED
    BY <1>1, <1>2, <1>3, <1>5, AnswersAlike DEF Enqueue, Contract!Join, Contract!Started

(* The call that supersedes begins the turn of its message.                *)
LEMMA SupersedeMaps ==
    ASSUME RInv, RInv', NEW m \in Messages, Supersede(m)
    PROVE  Contract!Begin(m, Superseded(m)) /\ Superseded(m) \subseteq Messages
<1>0. IInv /\ IInv' /\ TypeOK /\ Shape /\ Registered /\ RegisteredNotCancelled /\ Ordered
    BY DEF RInv, IInv
<1>1. \A x \in Superseded(m) : x \in Messages \ cancelled /\ at[x] = "accepted"
    BY <1>0 DEF Supersede, Superseded, Current, TypeOK, Shape, Registered,
       RegisteredNotCancelled, MsgType
<1>2. Superseded(m) \subseteq Contract!Started \ cancelled
    BY <1>0, <1>1, Stages DEF StageMeans, Spawned, Contract!Started
<1>3. Stage[m] = "called" /\ Stage'[m] = "turn"
  <2>1. at[m] = "superseding" /\ turn'[m] = "starting"
    BY <1>0 DEF Supersede, TypeOK
  <2>2. Stage'[m] = "turn"
    BY <1>0, <2>1, NextStages DEF StageMeans, Live, Phases
  <2> QED
    BY <1>0, <2>1, <2>2, Stages DEF StageMeans
<1>4. \A x \in Messages \ {m} : Stage'[x] = Stage[x]
    BY <1>0, Stays DEF Supersede, TypeOK
<1>5. Stage' = [Stage EXCEPT ![m] = "turn"]
    BY <1>3, <1>4 DEF Stage
<1>6. host[m] \in {NULL} \cup AnsweredTurns
    BY <1>0 DEF Supersede, Ordered, AnsweredTurns, TypeOK
<1>7. AnsweredTurns' = AnsweredTurns \cup Superseded(m)
    BY <1>0, <1>1 DEF Supersede, Tell, AnsweredTurns, TypeOK
<1>8. OwedTurns' = OwedTurns
    BY DEF Supersede, OwedTurns
<1>9. \A x, y \in Superseded(m) : x = y
    BY DEF Superseded
<1> QED
    BY <1>1, <1>2, <1>3, <1>5, <1>6, <1>7, <1>8, <1>9 DEF Supersede, Contract!Begin

LEMMA ForkMaps ==
    ASSUME RInv, RInv', NEW m \in Messages, Fork(m)
    PROVE  Contract!Begin(m, {})
<1>0. IInv /\ IInv' /\ TypeOK /\ Shape
    BY DEF RInv, IInv
<1>1. Stage[m] = "called" /\ Stage'[m] = "turn"
  <2>1. at[m] = "forking" /\ turn'[m] = "starting"
    BY <1>0 DEF Fork, TypeOK
  <2>2. Stage'[m] = "turn"
    BY <1>0, <2>1, NextStages DEF StageMeans, Live, Phases
  <2> QED
    BY <1>0, <2>1, <2>2, Stages DEF StageMeans
<1>2. \A x \in Messages \ {m} : Stage'[x] = Stage[x]
    BY <1>0, Stays DEF Fork, TypeOK
<1>3. Stage' = [Stage EXCEPT ![m] = "turn"]
    BY <1>1, <1>2 DEF Stage
<1>4. host[m] = NULL
    BY <1>0 DEF Fork, Shape
<1> QED
    BY <1>1, <1>3, <1>4, AnswersAlike DEF Fork, Contract!Begin

(* Steps between two control points, or two phases, of one stage.          *)
LEMMA FallThroughMaps ==
    ASSUME RInv, RInv', NEW m \in Messages, FallThrough(m)
    PROVE  UNCHANGED Contract!vars
<1>0. IInv /\ IInv' /\ TypeOK
    BY DEF RInv, IInv
<1>1. at[m] = "lookup" /\ at'[m] = "superseding"
    BY <1>0 DEF FallThrough, TypeOK
<1>2. Stage'[m] = Stage[m]
    BY <1>0, <1>1, Stages, NextStages DEF StageMeans
<1>3. \A x \in Messages \ {m} : Stage'[x] = Stage[x]
    BY <1>0, Stays DEF FallThrough, TypeOK
<1> QED
    BY <1>2, <1>3, Stutters DEF FallThrough

LEMMA RegisterMaps ==
    ASSUME RInv, RInv', NEW m \in Messages, Register(m)
    PROVE  UNCHANGED Contract!vars
<1>0. IInv /\ IInv' /\ TypeOK /\ Shape
    BY DEF RInv, IInv
<1>1. turn[m] \in Live \/ turn[m] = "ended"
    BY <1>0 DEF Register, Shape, Spawned, TypeOK, Phases, Live
<1>2. Stage'[m] = Stage[m]
    BY <1>0, <1>1, Stages, NextStages DEF StageMeans, Register
<1>3. \A x \in Messages \ {m} : Stage'[x] = Stage[x]
    BY <1>0, Stays DEF Register, TypeOK
<1> QED
    BY <1>2, <1>3, Stutters DEF Register

LEMMA ArmMaps ==
    ASSUME RInv, RInv', NEW m \in Messages, Arm(m)
    PROVE  UNCHANGED Contract!vars
<1>0. IInv /\ IInv' /\ TypeOK
    BY DEF RInv, IInv
<1>1. turn[m] \in Live /\ turn'[m] \in Live
    BY <1>0 DEF Arm, TypeOK, Live, Phases
<1>2. Stage'[m] = Stage[m]
    BY <1>0, <1>1, Stages, NextStages DEF StageMeans
<1>3. \A x \in Messages \ {m} : Stage'[x] = Stage[x]
    BY <1>0, Stays DEF Arm, queueVars, TypeOK
<1> QED
    BY <1>2, <1>3, Stutters DEF Arm, queueVars

JoinedPoints == {"queued", "held", "delivered", "residual"}

(* A message that goes from one place of the run queue to another is still *)
(* waiting.                                                                *)
LEMMA MoveWithin ==
    ASSUME RInv, RInv', NEW S, NEW to \in JoinedPoints, at' = Move(S, to),
           \A x \in S \cap Messages : at[x] \in JoinedPoints
    PROVE  \A x \in Messages : turn'[x] = turn[x] => Stage'[x] = Stage[x]
<1> SUFFICES ASSUME NEW x \in Messages, turn'[x] = turn[x] PROVE Stage'[x] = Stage[x]
    OBVIOUS
<1>0. IInv /\ IInv'
    BY DEF RInv
<1>1. CASE x \in S
  <2>1. at[x] \in JoinedPoints /\ at'[x] \in JoinedPoints
    BY <1>1 DEF Move
  <2> QED
    BY <1>0, <2>1, Stages, NextStages DEF StageMeans, JoinedPoints
<1>2. CASE x \notin S
    BY <1>2, Stays DEF Move
<1> QED
    BY <1>1, <1>2

LEMMA TakeMaps ==
    ASSUME RInv, RInv', NEW m \in Messages, NEW lane, Take(m, lane)
    PROVE  UNCHANGED Contract!vars
<1> DEFINE S == {x \in Waiting(m, "queued") : msg[x].mode = lane}
<1>1. at' = Move(S, "held") /\ \A x \in S : at[x] = "queued"
    BY DEF Take, Waiting
<1> HIDE DEF S
<1>2. \A x \in Messages : Stage'[x] = Stage[x]
    BY <1>1, MoveWithin DEF Take, JoinedPoints
<1> QED
    BY <1>2, Stutters DEF Take

LEMMA DeliverMaps ==
    ASSUME RInv, RInv', NEW m \in Messages, Deliver(m)
    PROVE  UNCHANGED Contract!vars
<1> DEFINE S == Waiting(m, "held")
<1>1. at' = Move(S, "delivered") /\ \A x \in S : at[x] = "held"
    BY DEF Deliver, Waiting
<1> HIDE DEF S
<1>2. \A x \in Messages : Stage'[x] = Stage[x]
    BY <1>1, MoveWithin DEF Deliver, JoinedPoints
<1> QED
    BY <1>2, Stutters DEF Deliver

LEMMA RequeueMaps ==
    ASSUME RInv, RInv', NEW m \in Messages, Requeue(m)
    PROVE  UNCHANGED Contract!vars
<1> DEFINE S == Waiting(m, "residual")
<1>1. at' = Move(S, "queued") /\ \A x \in S : at[x] = "residual"
    BY DEF Requeue, Waiting
<1> HIDE DEF S
<1>2. \A x \in Messages : Stage'[x] = Stage[x]
    BY <1>1, MoveWithin DEF Requeue, JoinedPoints
<1> QED
    BY <1>2, Stutters DEF Requeue

(* The guard that drops sends what the handle still holds back to wait.    *)
LEMMA DropMaps ==
    ASSUME RInv, RInv', NEW m \in Messages, DropGuard(m)
    PROVE  \A x \in Messages : turn'[x] = turn[x] => Stage'[x] = Stage[x]
<1>1. CASE turn[m] = "running"
  <2> DEFINE S == Waiting(m, "delivered")
  <2>1. at' = Move(S, "residual") /\ \A x \in S : at[x] = "delivered"
    BY <1>1 DEF DropGuard, Waiting
  <2> HIDE DEF S
  <2> QED
    BY <2>1, MoveWithin DEF JoinedPoints
<1>2. CASE turn[m] # "running"
    BY <1>2, Stays DEF DropGuard
<1> QED
    BY <1>1, <1>2

LEMMA OutcomeMaps ==
    ASSUME RInv, RInv', NEW m \in Messages, Produce(m) \/ Unwind(m)
    PROVE  UNCHANGED Contract!vars
<1>0. IInv /\ IInv' /\ TypeOK
    BY DEF RInv, IInv
<1>1. turn[m] \in Live /\ turn'[m] \in Live
    BY <1>0 DEF Produce, Unwind, TypeOK, Live, Phases
<1>2. Stage'[m] = Stage[m]
    BY <1>0, <1>1, Stages, NextStages DEF StageMeans
<1>3. \A x \in Messages \ {m} : turn'[x] = turn[x]
    BY <1>0 DEF Produce, Unwind, TypeOK
<1>4. \A x \in Messages \ {m} : Stage'[x] = Stage[x]
    BY <1>3, DropMaps DEF Produce, Unwind
<1> QED
    BY <1>2, <1>4, Stutters DEF Produce, Unwind

(* A whole set of messages goes from one stage to another.                 *)
LEMMA SetMoves ==
    ASSUME NEW S, NEW to, \A x \in S \cap Messages : Stage'[x] = to,
           \A x \in Messages \ S : Stage'[x] = Stage[x]
    PROVE  Stage' = Contract!Settle(S, to)
BY DEF Stage, Contract!Settle

(* The messages at a point of the queue of m are among those that wait on  *)
(* it.                                                                     *)
LEMMA WaitingJoined ==
    ASSUME IInv, NEW m \in Messages, NEW point \in JoinedPoints
    PROVE  Waiting(m, point) \subseteq Contract!Joined(m)
BY Stages DEF StageMeans, JoinedPoints, Waiting, Contract!Joined

LEMMA CheckpointMaps ==
    ASSUME RInv, RInv', NEW m \in Messages, Checkpoint(m)
    PROVE  Contract!Hear(m, Waiting(m, "delivered"))
<1>0. IInv /\ IInv' /\ TypeOK
    BY DEF RInv, IInv
<1>1. Stage[m] = "turn"
    BY <1>0, Stages DEF Checkpoint, StageMeans, Live, Phases
<1>2. Waiting(m, "delivered") \subseteq Contract!Joined(m)
    BY <1>0, WaitingJoined DEF JoinedPoints
<1>3. \A x \in Waiting(m, "delivered") \cap Messages : Stage'[x] = "heard"
    BY <1>0, NextStages DEF Checkpoint, Move, StageMeans
<1>4. \A x \in Messages \ Waiting(m, "delivered") : Stage'[x] = Stage[x]
    BY <1>0, Stays DEF Checkpoint, Move
<1>5. Stage' = Contract!Settle(Waiting(m, "delivered"), "heard")
    BY <1>3, <1>4, SetMoves
<1> QED
    BY <1>1, <1>2, <1>5, AnswersAlike DEF Checkpoint, Contract!Hear

LEMMA ClearQueueMaps ==
    ASSUME RInv, RInv', NEW t \in Threads, ClearQueue(t)
    PROVE  /\ inFlight[t] \in Messages
           /\ Contract!Clear(inFlight[t], Waiting(inFlight[t], "queued"))
<1>0. IInv /\ IInv' /\ TypeOK /\ Registered /\ RegisteredNotCancelled
    BY DEF RInv, IInv
<1> DEFINE h == inFlight[t]
<1>1. h \in Messages \ cancelled /\ at[h] = "accepted"
    BY <1>0 DEF ClearQueue, TypeOK, Registered, RegisteredNotCancelled
<1>2. h \in Contract!Started
    BY <1>0, <1>1, Stages DEF StageMeans, Spawned, Contract!Started
<1>3. Waiting(h, "queued") \subseteq Contract!Joined(h)
    BY <1>0, <1>1, WaitingJoined DEF JoinedPoints
<1>4. \A x \in Waiting(h, "queued") \cap Messages : Stage'[x] = "cleared"
    BY <1>0, NextStages DEF ClearQueue, Move, StageMeans
<1>5. \A x \in Messages \ Waiting(h, "queued") : Stage'[x] = Stage[x]
    BY <1>0, Stays DEF ClearQueue, Move
<1>6. Stage' = Contract!Settle(Waiting(h, "queued"), "cleared")
    BY <1>4, <1>5, SetMoves
<1> QED
    BY <1>1, <1>2, <1>3, <1>6, AnswersAlike DEF ClearQueue, Contract!Clear

LEMMA RespondMaps ==
    ASSUME RInv, RInv', NEW m \in Messages, NEW e \in {"reply", "error"}, Respond(m, e)
    PROVE  Contract!Answer(m)
<1>0. IInv /\ IInv' /\ TypeOK
    BY DEF RInv, IInv
<1>1. turn[m] \in Live /\ turn'[m] \in Live
    BY <1>0 DEF Respond, TypeOK, Live, Phases
<1>2. Stage[m] = "turn" /\ Stage'[m] = "turn"
    BY <1>0, <1>1, Stages, NextStages DEF StageMeans
<1>3. \A x \in Messages \ {m} : Stage'[x] = Stage[x]
    BY <1>0, Stays DEF Respond, queueVars, TypeOK
<1>4. Stage' = Stage
    BY <1>2, <1>3 DEF Stage
<1>5. AnsweredTurns' = AnsweredTurns \cup {m}
    BY <1>0 DEF Respond, Tell, AnsweredTurns, TypeOK
<1>6. OwedTurns' = OwedTurns
    BY DEF Respond, OwedTurns
<1> QED
    BY <1>2, <1>4, <1>5, <1>6 DEF Respond, queueVars, Contract!Answer

(* A turn that ends is answered, or in the hands of a stop.                *)
LEMMA EndsAnswered ==
    ASSUME IInv, NEW m \in Messages, m \in cancelled \/ turn[m] = "told"
    PROVE  m \in AnsweredTurns \cup OwedTurns
BY DEF IInv, Answers, Answered, AnsweredTurns, OwedTurns

(* The end of a turn, with the messages it sends on.                       *)
LEMMA EndMaps ==
    ASSUME RInv, RInv', NEW m \in Messages, NEW S \in SUBSET Messages,
           turn[m] \in Live, End(m), m \in AnsweredTurns \cup OwedTurns,
           S \subseteq Contract!Joined(m), S # {} => m \in AnsweredTurns,
           \A x \in S : Stage'[x] = "called",
           \A x \in Messages \ (S \cup {m}) : Stage'[x] = Stage[x],
           UNCHANGED <<host, told, cancelled, stop>>
    PROVE  Contract!End(m, S)
<1>0. IInv /\ IInv' /\ TypeOK
    BY DEF RInv, IInv
<1>1. Stage[m] = "turn" /\ m \notin S
    BY <1>0, Stages DEF StageMeans, Contract!Joined
<1>2. Stage'[m] = "over"
    BY <1>0, NextStages DEF StageMeans, End, TypeOK
<1>3. Stage' = [Contract!Settle(S, "called") EXCEPT ![m] = "over"]
    BY <1>1, <1>2 DEF Stage, Contract!Settle
<1> QED
    BY <1>1, <1>3, AnswersAlike DEF Contract!End

LEMMA DispatchFollowupsMaps ==
    ASSUME RInv, RInv', NEW m \in Messages, DispatchFollowups(m)
    PROVE  \E S \in SUBSET Messages : Contract!End(m, S)
<1>0. IInv /\ IInv' /\ TypeOK
    BY DEF RInv, IInv
<1>1. turn[m] \in Live /\ End(m) /\ m \in AnsweredTurns
    BY <1>0 DEF DispatchFollowups, Live, Phases, Answers, IInv, AnsweredTurns
<1>2. \A x \in Messages \ {m} : turn'[x] = turn[x]
    BY <1>0 DEF DispatchFollowups, End, TypeOK
<1>3. CASE Current(m) = m
  <2> DEFINE S == Followups(m)
  <2>1. S \in SUBSET Messages /\ S \subseteq Contract!Joined(m)
    BY <1>0, WaitingJoined DEF Followups, Waiting, JoinedPoints
  <2>2. at' = Move(S, "lookup")
    BY <1>3 DEF DispatchFollowups
  <2> HIDE DEF S
  <2>3. \A x \in S : Stage'[x] = "called"
    BY <1>0, <2>1, <2>2, NextStages DEF StageMeans, Move
  <2>4. \A x \in Messages \ (S \cup {m}) : Stage'[x] = Stage[x]
    BY <1>2, <2>2, Stays DEF Move
  <2>5. Contract!End(m, S)
    BY <1>1, <2>1, <2>3, <2>4, EndMaps DEF DispatchFollowups
  <2> QED
    BY <2>1, <2>5
<1>4. CASE Current(m) # m
  <2>1. \A x \in Messages \ {m} : Stage'[x] = Stage[x]
    BY <1>2, <1>4, Stays DEF DispatchFollowups
  <2>2. Contract!End(m, {})
    BY <1>1, <2>1, EndMaps DEF DispatchFollowups
  <2> QED
    BY <2>2
<1> QED
    BY <1>3, <1>4

(* The other ways a turn ends, which send nothing on.                      *)
LEMMA QuietEndMaps ==
    ASSUME RInv, RInv', NEW m \in Messages,
           Release(m) \/ LeaveParallel(m) \/ HardAbort(m)
    PROVE  Contract!End(m, {})
<1>0. IInv /\ IInv' /\ TypeOK
    BY DEF RInv, IInv
<1>1. turn[m] \in Live /\ End(m) /\ UNCHANGED <<host, told, cancelled, stop>>
    BY DEF Release, LeaveParallel, HardAbort, queueVars, Live, Phases
<1>2. m \in AnsweredTurns \cup OwedTurns
    BY <1>0, EndsAnswered DEF Release, LeaveParallel, HardAbort, IInv, Answers
<1>3. \A x \in Messages \ {m} : turn'[x] = turn[x]
    BY <1>0, <1>1 DEF End, TypeOK
<1>4. \A x \in Messages \ {m} : Stage'[x] = Stage[x]
  <2>1. CASE HardAbort(m)
    BY <1>3, <2>1, DropMaps DEF HardAbort
  <2>2. CASE Release(m) \/ LeaveParallel(m)
    BY <1>3, <2>2, Stays DEF Release, LeaveParallel, queueVars
  <2> QED
    BY <2>1, <2>2
<1> QED
    BY <1>1, <1>2, <1>4, EndMaps

(* The two halves of a stop hit turns nobody stopped before.               *)
LEMMA HitMaps ==
    ASSUME RInv, NEW s \in Stops, NEW hit \in SUBSET Messages, NEW new \in StopType,
           hit \cap cancelled = {}, \A x \in hit : at[x] = "accepted",
           stop' = [stop EXCEPT ![s] = new],
           new.victims = IF stop[s] = NULL THEN hit ELSE stop[s].victims \cup hit,
           cancelled' = cancelled \cup hit, UNCHANGED <<at, host, turn, told>>
    PROVE  Contract!Stop(hit)
<1>0. IInv /\ TypeOK
    BY DEF RInv, IInv
<1>1. hit \subseteq Contract!Started \ cancelled
    BY <1>0, Stages DEF StageMeans, Spawned, Contract!Started
<1>2. Stage' = Stage /\ AnsweredTurns' = AnsweredTurns
    BY DEF Stage, AnsweredTurns
<1>3. OwedTurns' = OwedTurns \cup hit
  <2>1. stop'[s] = new /\ new # NULL /\ \A z \in Stops \ {s} : stop'[z] = stop[z]
    BY <1>0, NullAssumption DEF TypeOK
  <2>2. stop[s] # NULL => new.victims = stop[s].victims \cup hit
    OBVIOUS
  <2>3. stop[s] = NULL => new.victims = hit
    OBVIOUS
  <2>4. \A x \in OwedTurns \cup hit : x \in OwedTurns'
    BY <2>1, <2>2, <2>3 DEF OwedTurns
  <2>5. \A x \in OwedTurns' : x \in OwedTurns \cup hit
    BY <2>1, <2>2, <2>3 DEF OwedTurns
  <2> QED
    BY <2>4, <2>5
<1> QED
    BY <1>1, <1>2, <1>3 DEF Contract!Stop

LEMMA StopPrimaryMaps ==
    ASSUME RInv, NEW s \in Stops, NEW t \in Threads, NEW target \in Messages \cup {NULL},
           StopPrimary(s, t, target)
    PROVE  \E X \in SUBSET Messages : Contract!Stop(X)
<1>0. TypeOK /\ Registered /\ RegisteredNotCancelled
    BY DEF RInv, IInv
<1> DEFINE hit == {m \in {inFlight[t]} \ {NULL} : Targets(m, target)}
           new == [at |-> "forks", thread |-> t, target |-> target, victims |-> hit]
<1>1. hit \in SUBSET Messages /\ hit \cap cancelled = {}
    BY <1>0 DEF TypeOK, RegisteredNotCancelled
<1>2. \A x \in hit : at[x] = "accepted"
    BY <1>0 DEF Registered
<1>3. new \in StopType /\ new.victims = hit
    BY <1>1 DEF StopType
<1>4. /\ stop[s] = NULL /\ stop' = [stop EXCEPT ![s] = new]
      /\ cancelled' = cancelled \cup hit /\ UNCHANGED <<at, host, turn, told>>
    BY DEF StopPrimary, queueVars
<1> HIDE DEF hit, new
<1> QED
    BY <1>1, <1>2, <1>3, <1>4, HitMaps

LEMMA StopForksMaps ==
    ASSUME RInv, NEW s \in Stops, StopForks(s)
    PROVE  \E X \in SUBSET Messages : Contract!Stop(X)
<1>0. TypeOK /\ Registered /\ RegisteredNotCancelled
    BY DEF RInv, IInv
<1> DEFINE hit == {m \in parallel : /\ msg[m].thread = stop[s].thread
                                    /\ Targets(m, stop[s].target)}
           new == [stop[s] EXCEPT !.at = "tell", !.victims = @ \cup hit]
<1>1. hit \in SUBSET Messages /\ hit \cap cancelled = {} /\ stop[s] \in StopType
    BY <1>0 DEF TypeOK, RegisteredNotCancelled, StopForks
<1>2. \A x \in hit : at[x] = "accepted"
    BY <1>0 DEF Registered
<1>3. new \in StopType /\ new.victims = stop[s].victims \cup hit
    BY <1>1 DEF StopType
<1>4. /\ stop[s] # NULL /\ stop' = [stop EXCEPT ![s] = new]
      /\ cancelled' = cancelled \cup hit /\ UNCHANGED <<at, host, turn, told>>
    BY <1>0, <1>1 DEF StopForks, queueVars, TypeOK, StopType
<1> HIDE DEF hit, new
<1> QED
    BY <1>1, <1>2, <1>3, <1>4, HitMaps

(* What a stop tells is owed by that stop alone.                           *)
LEMMA StopTellsMaps ==
    ASSUME RInv, NEW s \in Stops, StopTells(s)
    PROVE  \E X \in SUBSET Messages : Contract!Tell(X)
<1>0. TypeOK /\ Held
    BY DEF RInv, IInv
<1> DEFINE X == stop[s].victims
           new == [stop[s] EXCEPT !.at = "done", !.victims = {}]
<1>1. stop[s] # NULL /\ stop[s] \in StopType
    BY <1>0 DEF StopTells, TypeOK
<1>2. X \in SUBSET Messages /\ X \subseteq OwedTurns
    BY <1>1 DEF StopType, OwedTurns
<1>3. new \in StopType /\ new.victims = {}
    BY <1>1 DEF StopType
<1>4. /\ stop' = [stop EXCEPT ![s] = new] /\ told' = Tell(X, "cancelled")
      /\ UNCHANGED <<at, host, turn, cancelled>>
    BY <1>0, <1>1 DEF StopTells, queueVars, TypeOK, StopType
<1>5. stop'[s] = new /\ \A z \in Stops \ {s} : stop'[z] = stop[z]
    BY <1>0, <1>4 DEF TypeOK
<1>6. \A z \in Stops \ {s} : stop[z] # NULL => X \cap stop[z].victims = {}
    BY <1>0, <1>1 DEF Held
<1>7. Stage' = Stage
    BY <1>4 DEF Stage
<1> HIDE DEF new
<1>8. OwedTurns' = OwedTurns \ X
    BY <1>1, <1>3, <1>5, <1>6, NullAssumption DEF OwedTurns
<1> HIDE DEF X
<1>9. AnsweredTurns' = AnsweredTurns \cup X
    BY <1>0, <1>2, <1>4 DEF Tell, AnsweredTurns, TypeOK
<1> QED
    BY <1>2, <1>4, <1>7, <1>8, <1>9 DEF Contract!Tell

-------------------------------------------------------------------------------
LEMMA InitMaps == Init => Contract!Init
<1> SUFFICES ASSUME Init PROVE Contract!Init
    OBVIOUS
<1>1. \A m \in Messages : Stage[m] = "unsent"
    BY InitIInv, Stages DEF Init, StageMeans
<1>2. Stage = [m \in Messages |-> "unsent"]
    BY <1>1 DEF Stage
<1> QED
    BY <1>2 DEF Init, Contract!Init, AnsweredTurns, OwedTurns

LEMMA NextMaps == RInv /\ RInv' /\ [Next]_vars => [Contract!Next]_(Contract!vars)
<1> SUFFICES ASSUME RInv, RInv', [Next]_vars
             PROVE  Contract!Next \/ UNCHANGED Contract!vars
    OBVIOUS
<1> DEFINE Step == Contract!Next \/ UNCHANGED Contract!vars
<1>1. ASSUME NEW m \in Messages, NEW t \in Threads, NEW mode \in Modes,
             Receive(m, t, mode)
      PROVE  Step
    BY <1>1, ReceiveMaps DEF Contract!Next
<1>2. ASSUME NEW m \in Messages, Call(m) PROVE Step
  <2>1. CASE Enqueue(m)
    BY <2>1, EnqueueMaps DEF Contract!Next
  <2>2. CASE Supersede(m)
    BY <2>2, SupersedeMaps DEF Contract!Next
  <2>3. CASE Fork(m)
    <3>1. {} \in SUBSET Messages
      OBVIOUS
    <3> QED
      BY <2>3, <3>1, ForkMaps DEF Contract!Next
  <2>4. CASE FallThrough(m) \/ Register(m)
    BY <2>4, FallThroughMaps, RegisterMaps
  <2> QED
    BY <1>2, <2>1, <2>2, <2>3, <2>4 DEF Call
<1>3. ASSUME NEW m \in Messages, Steering(m) PROVE Step
  <2>1. CASE Checkpoint(m)
    <3>1. Waiting(m, "delivered") \in SUBSET Messages
      BY DEF Waiting
    <3> QED
      BY <2>1, <3>1, CheckpointMaps DEF Contract!Next
  <2>2. ASSUME NEW lane \in {"steer", "collect"}, Take(m, lane) PROVE Step
    BY <2>2, TakeMaps
  <2>3. CASE Deliver(m) \/ Requeue(m)
    BY <2>3, DeliverMaps, RequeueMaps
  <2> QED
    BY <1>3, <2>1, <2>2, <2>3 DEF Steering
<1>4. ASSUME NEW m \in Messages, Task(m) \/ HardAbort(m) PROVE Step
  <2>1. CASE Release(m) \/ LeaveParallel(m) \/ HardAbort(m)
    <3>1. {} \in SUBSET Messages
      OBVIOUS
    <3> QED
      BY <2>1, <3>1, QuietEndMaps DEF Contract!Next
  <2>2. CASE DispatchFollowups(m)
    BY <2>2, DispatchFollowupsMaps DEF Contract!Next
  <2>3. ASSUME NEW e \in {"reply", "error"}, Respond(m, e) PROVE Step
    BY <2>3, RespondMaps DEF Contract!Next
  <2>4. CASE Produce(m) \/ Unwind(m)
    BY <2>4, OutcomeMaps
  <2> QED
    BY <1>4, <2>1, <2>2, <2>3, <2>4 DEF Task
<1>5. ASSUME NEW m \in Messages, Arm(m) PROVE Step
    BY <1>5, ArmMaps
<1>6. ASSUME NEW s \in Stops, NEW t \in Threads,
             NEW target \in {NULL} \cup {m \in Messages : turn[m] # "none"},
             StopPrimary(s, t, target)
      PROVE  Step
    BY <1>6, StopPrimaryMaps DEF Contract!Next
<1>7. ASSUME NEW s \in Stops, Stopping(s) PROVE Step
    BY <1>7, StopForksMaps, StopTellsMaps DEF Stopping, Contract!Next
<1>8. ASSUME NEW t \in Threads, ClearQueue(t) PROVE Step
  <2>1. Waiting(inFlight[t], "queued") \in SUBSET Messages
    BY DEF Waiting
  <2> QED
    BY <1>8, <2>1, ClearQueueMaps DEF Contract!Next
<1>9. CASE UNCHANGED vars
    BY <1>9 DEF vars, queueVars, Contract!vars, Stage, AnsweredTurns, OwedTurns
<1> QED
    BY <1>1, <1>2, <1>3, <1>4, <1>5, <1>6, <1>7, <1>8, <1>9 DEF Next

(* A message joins no turn that was stopped and is heard by none that is   *)
(* over; it starts its own turn only once the turn it joined is answered;  *)
(* no turn is over in silence, none is stopped twice, and a stop tells     *)
(* exactly what it hit - at every interleaving of the sections of          *)
(* IN_FLIGHT, PARALLEL_IN_FLIGHT and the run queues.                       *)
THEOREM PromisesKept == Spec => ImplementsContract
<1>1. Init => Contract!Init
    BY InitMaps
<1>2. RInv /\ RInv' /\ [Next]_vars => [Contract!Next]_(Contract!vars)
    BY NextMaps
<1> QED
    BY <1>1, <1>2, RefinementInvariance, PTL DEF Spec, ImplementsContract, Contract!Spec
===============================================================================
