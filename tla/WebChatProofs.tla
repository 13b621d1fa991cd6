----------------------------- MODULE WebChatProofs -----------------------------
(***************************************************************************)
(* Proofs about chat turns, for every set of messages, threads and stops   *)
(* and whichever queue modes are in use.                                   *)
(***************************************************************************)
EXTENDS WebChat, TLAPS

-------------------------------------------------------------------------------
(* The inductive invariant.                                                *)

(* A turn exists from the moment its call has spawned it, and only a       *)
(* message that came in has left its first control point.                  *)
Spawned == {"inserting", "accepted"}
Shape ==
    \A m \in Messages :
        /\ msg[m] = NULL <=> at[m] = "unsent"
        /\ turn[m] # "none" <=> at[m] \in Spawned
        /\ at[m] \in {"unsent", "forking"} => host[m] = NULL

(* What is registered, or was cancelled, is a turn whose call returned,    *)
(* registered where it belongs.                                            *)
Registered ==
    /\ \A t \in Threads : inFlight[t] # NULL =>
         /\ at[inFlight[t]] = "accepted"
         /\ msg[inFlight[t]].thread = t /\ ~IsFork(inFlight[t])
    /\ \A m \in parallel : at[m] = "accepted" /\ IsFork(m)
    /\ \A m \in cancelled : at[m] = "accepted"

(* A turn that is cancelled or past its response has its answer, or a stop *)
(* that holds it and will tell.                                            *)
Answered(m) == \/ told[m] # {}
               \/ \E s \in Stops : stop[s] # NULL /\ m \in stop[s].victims
Answers ==
    /\ \A m \in cancelled : Answered(m)
    /\ \A m \in Messages :
         /\ turn[m] = "unwinding" => m \in cancelled
         /\ turn[m] = "told" => told[m] # {}
         /\ turn[m] = "ended" => Answered(m)

(* A message that has left the queue of a turn to start its own found that *)
(* turn answered.                                                          *)
Ordered ==
    \A m \in Messages :
        host[m] # NULL /\ at[m] \in {"lookup", "superseding", "inserting", "accepted"}
          => told[host[m]] # {}

IInv == TypeOK /\ Shape /\ Registered /\ RegisteredNotCancelled /\ Answers /\ Ordered

LEMMA ReceiveStep ==
    ASSUME IInv, NEW m \in Messages, NEW t \in Threads, NEW mode \in Modes, Receive(m, t, mode)
    PROVE  IInv'
<1>1. TypeOK'
    BY ModesAssumption DEF IInv, Receive, FirstPoint, AllModes, TypeOK, Shape,
       MsgType, StopType, Points, Phases
<1>2. Shape'
    BY NullAssumption, ModesAssumption DEF IInv, Receive, FirstPoint, AllModes,
       TypeOK, Shape, Spawned, MsgType, Points, Phases
<1>3. Registered'
    BY DEF IInv, Receive, Registered, IsFork, TypeOK
<1>4. RegisteredNotCancelled'
    BY DEF IInv, Receive, RegisteredNotCancelled
<1>5. Answers'
    BY DEF IInv, Receive, Answers, Answered
<1>6. Ordered'
    BY DEF IInv, Receive, Ordered, TypeOK, Shape, Spawned
<1> QED
    BY <1>1, <1>2, <1>3, <1>4, <1>5, <1>6 DEF IInv

LEMMA EnqueueStep ==
    ASSUME IInv, NEW m \in Messages, Enqueue(m)
    PROVE  IInv'
<1>1. TypeOK'
    BY DEF IInv, Enqueue, Current, TypeOK, Shape, MsgType, StopType, Points, Phases
<1>2. Shape'
    BY DEF IInv, Enqueue, Shape, TypeOK, Spawned
<1>3. Registered'
    BY DEF IInv, Enqueue, Registered, IsFork
<1>4. RegisteredNotCancelled'
    BY DEF IInv, Enqueue, RegisteredNotCancelled, TypeOK
<1>5. Answers'
    BY DEF IInv, Enqueue, Answers, Answered
<1>6. Ordered'
    BY DEF IInv, Enqueue, Ordered, TypeOK
<1> QED
    BY <1>1, <1>2, <1>3, <1>4, <1>5, <1>6 DEF IInv

LEMMA FallThroughStep ==
    ASSUME IInv, NEW m \in Messages, FallThrough(m)
    PROVE  IInv'
<1>1. TypeOK'
    BY DEF IInv, FallThrough, TypeOK, Shape, MsgType, StopType, Points, Phases
<1>2. Shape'
    BY DEF IInv, FallThrough, Shape, TypeOK, Spawned
<1>3. Registered'
    BY DEF IInv, FallThrough, Registered, IsFork
<1>4. RegisteredNotCancelled'
    BY DEF IInv, FallThrough, RegisteredNotCancelled
<1>5. Answers'
    BY DEF IInv, FallThrough, Answers, Answered, TypeOK
<1>6. Ordered'
    BY DEF IInv, FallThrough, Ordered
<1> QED
    BY <1>1, <1>2, <1>3, <1>4, <1>5, <1>6 DEF IInv

LEMMA SupersedeStep ==
    ASSUME IInv, NEW m \in Messages, Supersede(m)
    PROVE  IInv'
<1> Superseded(m) \subseteq Messages
    BY DEF IInv, TypeOK, Shape, Supersede, Superseded, Current, MsgType
<1>1. TypeOK'
  <2>1. told' \in [Messages -> SUBSET {"reply", "error", "cancelled"}]
    BY DEF IInv, TypeOK, Supersede, Tell
  <2>2. cancelled' \subseteq Messages
    BY DEF IInv, TypeOK, Supersede
  <2> QED
    BY <2>1, <2>2 DEF IInv, Supersede, TypeOK, Shape, MsgType, Points, Phases
<1>2. Shape'
    BY DEF IInv, Supersede, Shape, TypeOK, Spawned
<1>3. Registered'
    BY DEF IInv, Supersede, Superseded, Tell, Current, TypeOK, Shape, Spawned,
       Registered, RegisteredNotCancelled, IsFork, MsgType
<1>4. RegisteredNotCancelled'
    BY NullAssumption DEF IInv, Supersede, Superseded, Tell, Current, TypeOK, Shape,
       Spawned, Registered, RegisteredNotCancelled, IsFork, MsgType
<1>5. Answers'
  <2>1. \A x \in Superseded(m) : told'[x] # {} /\ x \in cancelled'
    BY DEF IInv, TypeOK, Supersede, Tell
  <2>2. \A x \in Messages : told[x] # {} => told'[x] # {}
    BY DEF IInv, TypeOK, Supersede, Tell
  <2>3. \A x \in Messages : turn'[x] \in {"unwinding", "told", "ended"} => turn'[x] = turn[x]
    BY DEF IInv, TypeOK, Supersede
  <2>4. cancelled' = cancelled \cup Superseded(m) /\ stop' = stop
    BY DEF Supersede
  <2>5. \A x \in Messages : Answered(x) => Answered(x)'
    BY <2>2, <2>4 DEF Answered
  <2> QED
    BY <2>1, <2>2, <2>3, <2>4, <2>5 DEF IInv, TypeOK, Answers, Answered
<1>6. Ordered'
    BY DEF IInv, Supersede, Tell, Current, TypeOK, Shape, Spawned, Answers, Ordered,
       Points
<1> QED
    BY <1>1, <1>2, <1>3, <1>4, <1>5, <1>6 DEF IInv

LEMMA ForkStep ==
    ASSUME IInv, NEW m \in Messages, Fork(m)
    PROVE  IInv'
<1>1. TypeOK'
    BY DEF IInv, Fork, TypeOK, Shape, MsgType, StopType, Points, Phases
<1>2. Shape'
    BY DEF IInv, Fork, Shape, TypeOK, Spawned
<1>3. Registered'
    BY DEF IInv, Fork, Registered, IsFork
<1>4. RegisteredNotCancelled'
    BY DEF IInv, Fork, RegisteredNotCancelled
<1>5. Answers'
    BY DEF IInv, Fork, Answers, Answered
<1>6. Ordered'
    BY DEF IInv, Fork, Ordered, TypeOK, Shape, Spawned
<1> QED
    BY <1>1, <1>2, <1>3, <1>4, <1>5, <1>6 DEF IInv

LEMMA RegisterStep ==
    ASSUME IInv, NEW m \in Messages, Register(m)
    PROVE  IInv'
<1>1. TypeOK'
    BY DEF IInv, Register, TypeOK, Shape, MsgType, StopType, Points, Phases
<1>2. Shape'
    BY DEF IInv, Register, Shape, TypeOK, Spawned
<1>3. Registered'
    BY DEF IInv, Register, Registered, IsFork, TypeOK
<1>4. RegisteredNotCancelled'
    BY DEF IInv, Register, TypeOK, Shape, Spawned, Registered, RegisteredNotCancelled,
       IsFork, MsgType
<1>5. Answers'
    BY DEF IInv, Register, Answers, Answered
<1>6. Ordered'
    BY DEF IInv, Register, Ordered
<1> QED
    BY <1>1, <1>2, <1>3, <1>4, <1>5, <1>6 DEF IInv

LEMMA ArmStep ==
    ASSUME IInv, NEW m \in Messages, Arm(m)
    PROVE  IInv'
<1>1. TypeOK'
    BY DEF IInv, Arm, queueVars, TypeOK, Shape, MsgType, StopType, Points, Phases
<1>2. Shape'
    BY DEF IInv, Arm, queueVars, Shape
<1>3. Registered'
    BY DEF IInv, Arm, queueVars, Registered, IsFork
<1>4. RegisteredNotCancelled'
    BY DEF IInv, Arm, queueVars, RegisteredNotCancelled
<1>5. Answers'
    BY DEF IInv, Arm, queueVars, Answers, Answered
<1>6. Ordered'
    BY DEF IInv, Arm, queueVars, Ordered
<1> QED
    BY <1>1, <1>2, <1>3, <1>4, <1>5, <1>6 DEF IInv

LEMMA TakeStep ==
    ASSUME IInv, NEW m \in Messages, NEW lane \in {"steer", "collect"}, Take(m, lane)
    PROVE  IInv'
<1>1. TypeOK'
    BY DEF IInv, Take, Move, TypeOK, Shape, MsgType, StopType, Points, Phases
<1>2. Shape'
    BY DEF IInv, Take, Waiting, Move, TypeOK, Shape, Spawned, MsgType, Points, Phases
<1>3. Registered'
    BY DEF IInv, Take, Waiting, Move, TypeOK, Shape, Spawned, Registered,
       RegisteredNotCancelled, IsFork, MsgType
<1>4. RegisteredNotCancelled'
    BY DEF IInv, Take, RegisteredNotCancelled
<1>5. Answers'
    BY DEF IInv, Take, Answers, Answered
<1>6. Ordered'
    BY DEF IInv, Take, Move, TypeOK, Shape, Spawned, Answers, Ordered, Points
<1> QED
    BY <1>1, <1>2, <1>3, <1>4, <1>5, <1>6 DEF IInv

LEMMA DeliverStep ==
    ASSUME IInv, NEW m \in Messages, Deliver(m)
    PROVE  IInv'
<1>1. TypeOK'
    BY DEF IInv, Deliver, Move, TypeOK, Shape, MsgType, StopType, Points, Phases
<1>2. Shape'
    BY DEF IInv, Deliver, Waiting, Move, TypeOK, Shape, Spawned, MsgType, Points,
       Phases
<1>3. Registered'
    BY DEF IInv, Deliver, Waiting, Move, TypeOK, Shape, Spawned, Registered,
       RegisteredNotCancelled, IsFork, MsgType
<1>4. RegisteredNotCancelled'
    BY DEF IInv, Deliver, RegisteredNotCancelled
<1>5. Answers'
    BY DEF IInv, Deliver, Answers, Answered
<1>6. Ordered'
    BY DEF IInv, Deliver, Move, TypeOK, Shape, Spawned, Answers, Ordered, Points
<1> QED
    BY <1>1, <1>2, <1>3, <1>4, <1>5, <1>6 DEF IInv

LEMMA CheckpointStep ==
    ASSUME IInv, NEW m \in Messages, Checkpoint(m)
    PROVE  IInv'
<1>1. TypeOK'
    BY DEF IInv, Checkpoint, Move, TypeOK, Shape, MsgType, StopType, Points, Phases
<1>2. Shape'
    BY DEF IInv, Checkpoint, Waiting, Move, TypeOK, Shape, Spawned, MsgType, Points,
       Phases
<1>3. Registered'
    BY DEF IInv, Checkpoint, Waiting, Move, TypeOK, Shape, Spawned, Registered,
       RegisteredNotCancelled, IsFork, MsgType
<1>4. RegisteredNotCancelled'
    BY DEF IInv, Checkpoint, RegisteredNotCancelled
<1>5. Answers'
    BY DEF IInv, Checkpoint, Answers, Answered
<1>6. Ordered'
    BY DEF IInv, Checkpoint, Move, TypeOK, Shape, Spawned, Answers, Ordered, Points
<1> QED
    BY <1>1, <1>2, <1>3, <1>4, <1>5, <1>6 DEF IInv

LEMMA RequeueStep ==
    ASSUME IInv, NEW m \in Messages, Requeue(m)
    PROVE  IInv'
<1>1. TypeOK'
    BY DEF IInv, Requeue, Move, TypeOK, Shape, MsgType, StopType, Points, Phases
<1>2. Shape'
    BY DEF IInv, Requeue, Waiting, Move, TypeOK, Shape, Spawned, MsgType, Points,
       Phases
<1>3. Registered'
    BY DEF IInv, Requeue, Waiting, Move, TypeOK, Shape, Spawned, Registered,
       RegisteredNotCancelled, IsFork, MsgType
<1>4. RegisteredNotCancelled'
    BY DEF IInv, Requeue, RegisteredNotCancelled
<1>5. Answers'
    BY DEF IInv, Requeue, Answers, Answered
<1>6. Ordered'
    BY DEF IInv, Requeue, Move, TypeOK, Shape, Spawned, Answers, Ordered, Points
<1> QED
    BY <1>1, <1>2, <1>3, <1>4, <1>5, <1>6 DEF IInv

LEMMA ProduceStep ==
    ASSUME IInv, NEW m \in Messages, Produce(m)
    PROVE  IInv'
<1>1. TypeOK'
    BY DEF IInv, Produce, DropGuard, Waiting, Move, TypeOK, Shape, MsgType, StopType,
       Points, Phases
<1>2. Shape'
    BY DEF IInv, Produce, DropGuard, Waiting, Move, TypeOK, Shape, Spawned, MsgType,
       Points, Phases
<1>3. Registered'
    BY DEF IInv, Produce, DropGuard, Waiting, Move, TypeOK, Shape, Spawned,
       Registered, RegisteredNotCancelled, IsFork, MsgType
<1>4. RegisteredNotCancelled'
    BY DEF IInv, Produce, RegisteredNotCancelled
<1>5. Answers'
    BY DEF IInv, Produce, Answers, Answered
<1>6. Ordered'
    BY DEF IInv, Produce, DropGuard, Waiting, Move, TypeOK, Shape, Spawned, Answers,
       Ordered, Points
<1> QED
    BY <1>1, <1>2, <1>3, <1>4, <1>5, <1>6 DEF IInv

LEMMA UnwindStep ==
    ASSUME IInv, NEW m \in Messages, Unwind(m)
    PROVE  IInv'
<1>1. TypeOK'
    BY DEF IInv, Unwind, DropGuard, Waiting, Move, TypeOK, Shape, MsgType, StopType,
       Points, Phases
<1>2. Shape'
    BY DEF IInv, Unwind, DropGuard, Waiting, Move, TypeOK, Shape, Spawned, MsgType,
       Points, Phases
<1>3. Registered'
    BY DEF IInv, Unwind, DropGuard, Waiting, Move, TypeOK, Shape, Spawned, Registered,
       RegisteredNotCancelled, IsFork, MsgType
<1>4. RegisteredNotCancelled'
    BY DEF IInv, Unwind, RegisteredNotCancelled
<1>5. Answers'
    BY DEF IInv, Unwind, Answers, Answered
<1>6. Ordered'
    BY DEF IInv, Unwind, DropGuard, Waiting, Move, TypeOK, Shape, Spawned, Answers,
       Ordered, Points
<1> QED
    BY <1>1, <1>2, <1>3, <1>4, <1>5, <1>6 DEF IInv

LEMMA DispatchFollowupsStep ==
    ASSUME IInv, NEW m \in Messages, DispatchFollowups(m)
    PROVE  IInv'
<1>1. TypeOK'
    BY DEF IInv, DispatchFollowups, Waiting, Move, End, Deregister, Current, TypeOK,
       Shape, MsgType, StopType, Points, Phases
<1>2. Shape'
    BY DEF IInv, DispatchFollowups, Followups, Waiting, Move, End, Deregister,
       Current, TypeOK, Shape, Spawned, MsgType, Points, Phases
<1>3. Registered'
    BY DEF IInv, DispatchFollowups, Followups, Waiting, Move, End, Deregister,
       Current, TypeOK, Shape, Spawned, Registered, RegisteredNotCancelled, IsFork,
       MsgType
<1>4. RegisteredNotCancelled'
    BY NullAssumption DEF IInv, DispatchFollowups, Waiting, Move, End, Deregister,
       Current, TypeOK, Shape, Spawned, Registered, RegisteredNotCancelled, IsFork,
       MsgType
<1>5. Answers'
    BY DEF IInv, DispatchFollowups, Waiting, Move, End, Deregister, Current, TypeOK,
       Answers, Answered, StopType, Shape, Spawned
<1>6. Ordered'
    BY DEF IInv, DispatchFollowups, Followups, Waiting, Move, End, Deregister,
       Current, TypeOK, Shape, Spawned, Answers, Ordered, Points
<1> QED
    BY <1>1, <1>2, <1>3, <1>4, <1>5, <1>6 DEF IInv

LEMMA ReleaseStep ==
    ASSUME IInv, NEW m \in Messages, Release(m)
    PROVE  IInv'
<1>1. TypeOK'
    BY DEF IInv, Release, queueVars, End, Deregister, TypeOK, Shape, MsgType,
       StopType, Points, Phases
<1>2. Shape'
    BY DEF IInv, Release, queueVars, End, Deregister, TypeOK, Shape, Spawned, MsgType,
       Points, Phases
<1>3. Registered'
    BY DEF IInv, Release, queueVars, Deregister, TypeOK, Shape, Spawned, Registered,
       RegisteredNotCancelled, IsFork, MsgType
<1>4. RegisteredNotCancelled'
    BY NullAssumption DEF IInv, Release, Deregister, TypeOK, Shape, Spawned,
       Registered, RegisteredNotCancelled, IsFork, MsgType
<1>5. Answers'
    BY DEF IInv, Release, End, Deregister, TypeOK, Answers, Answered, StopType, Shape,
       Spawned
<1>6. Ordered'
    BY DEF IInv, Release, queueVars, Ordered
<1> QED
    BY <1>1, <1>2, <1>3, <1>4, <1>5, <1>6 DEF IInv

LEMMA LeaveParallelStep ==
    ASSUME IInv, NEW m \in Messages, LeaveParallel(m)
    PROVE  IInv'
<1>1. TypeOK'
    BY DEF IInv, LeaveParallel, queueVars, End, TypeOK, Shape, MsgType, StopType,
       Points, Phases
<1>2. Shape'
    BY DEF IInv, LeaveParallel, queueVars, End, TypeOK, Shape, Spawned, MsgType,
       Points, Phases
<1>3. Registered'
    BY DEF IInv, LeaveParallel, queueVars, Registered, IsFork
<1>4. RegisteredNotCancelled'
    BY DEF IInv, LeaveParallel, queueVars, RegisteredNotCancelled
<1>5. Answers'
    BY DEF IInv, LeaveParallel, End, TypeOK, Answers, Answered, StopType, Shape,
       Spawned
<1>6. Ordered'
    BY DEF IInv, LeaveParallel, queueVars, Ordered
<1> QED
    BY <1>1, <1>2, <1>3, <1>4, <1>5, <1>6 DEF IInv

LEMMA RespondStep ==
    ASSUME IInv, NEW m \in Messages, NEW e \in {"reply", "error"}, Respond(m, e)
    PROVE  IInv'
<1> TypeOK /\ e \in {"reply", "error", "cancelled"}
    BY DEF IInv
<1>1. TypeOK'
    BY DEF Respond, queueVars, Tell, TypeOK, Shape, MsgType, StopType, Points, Phases
<1>2. Shape'
    BY DEF IInv, Respond, queueVars, Shape
<1>3. Registered'
    BY DEF IInv, Respond, queueVars, Registered, IsFork
<1>4. RegisteredNotCancelled'
    BY DEF IInv, Respond, queueVars, RegisteredNotCancelled
<1>5. Answers'
    BY DEF IInv, Respond, Tell, TypeOK, Answers, Answered, StopType, Shape, Spawned
<1>6. Ordered'
    BY DEF IInv, Respond, queueVars, Tell, TypeOK, Shape, Spawned, Answers, Ordered,
       Points
<1> QED
    BY <1>1, <1>2, <1>3, <1>4, <1>5, <1>6 DEF IInv

LEMMA HardAbortStep ==
    ASSUME IInv, NEW m \in Messages, HardAbort(m)
    PROVE  IInv'
<1>1. TypeOK'
    BY DEF IInv, HardAbort, DropGuard, Waiting, Move, End, Live, TypeOK, Shape,
       MsgType, StopType, Points, Phases
<1>2. Shape'
    BY DEF IInv, HardAbort, DropGuard, Waiting, Move, End, Live, TypeOK, Shape,
       Spawned, MsgType, Points, Phases
<1>3. Registered'
    BY DEF IInv, HardAbort, DropGuard, Waiting, Move, End, Live, TypeOK, Shape,
       Spawned, Registered, RegisteredNotCancelled, IsFork, MsgType
<1>4. RegisteredNotCancelled'
    BY DEF IInv, HardAbort, RegisteredNotCancelled
<1>5. Answers'
    BY DEF IInv, HardAbort, Waiting, Move, End, Live, TypeOK, Answers, Answered,
       StopType, Shape, Spawned
<1>6. Ordered'
    BY DEF IInv, HardAbort, DropGuard, Waiting, Move, End, Live, TypeOK, Shape,
       Spawned, Answers, Ordered, Points
<1> QED
    BY <1>1, <1>2, <1>3, <1>4, <1>5, <1>6 DEF IInv

LEMMA StopPrimaryStep ==
    ASSUME IInv, NEW s \in Stops, NEW t \in Threads, NEW target \in Messages \cup {NULL}, StopPrimary(s, t, target)
    PROVE  IInv'
<1>1. TypeOK'
    BY DEF IInv, StopPrimary, queueVars, TypeOK, Shape, MsgType, StopType, Points,
       Phases
<1>2. Shape'
    BY DEF IInv, StopPrimary, queueVars, Shape
<1>3. Registered'
    BY DEF IInv, StopPrimary, queueVars, Registered, IsFork
<1>4. RegisteredNotCancelled'
    BY NullAssumption DEF IInv, StopPrimary, TypeOK, Shape, Spawned, Registered,
       RegisteredNotCancelled, IsFork, MsgType
<1>5. Answers'
  <2> DEFINE hit == {m \in {inFlight[t]} \ {NULL} : Targets(m, target)}
             new == [at |-> "forks", thread |-> t, target |-> target, victims |-> hit]
  <2>1. hit \subseteq Messages /\ new \in StopType /\ new.victims = hit
    BY DEF IInv, TypeOK, StopType
  <2>2. stop[s] = NULL /\ stop' = [stop EXCEPT ![s] = new]
    BY DEF StopPrimary
  <2>3. cancelled' = cancelled \cup hit /\ UNCHANGED <<turn, told>>
    BY DEF StopPrimary
  <2> HIDE DEF new
  <2>4. stop'[s] = new /\ \A z \in Stops : stop[z] # NULL => stop'[z] = stop[z]
    BY <2>2 DEF IInv, TypeOK
  <2> HIDE DEF hit
  <2>5. \A x \in Messages : Answered(x) => Answered(x)'
    BY <2>3, <2>4 DEF Answered
  <2>6. \A x \in hit : Answered(x)'
    BY <2>1, <2>4, NullAssumption DEF Answered
  <2> QED
    BY <2>1, <2>3, <2>5, <2>6 DEF IInv, Answers, TypeOK
<1>6. Ordered'
    BY DEF IInv, StopPrimary, queueVars, Ordered
<1> QED
    BY <1>1, <1>2, <1>3, <1>4, <1>5, <1>6 DEF IInv

LEMMA StopForksStep ==
    ASSUME IInv, NEW s \in Stops, StopForks(s)
    PROVE  IInv'
<1> DEFINE hit == {m \in parallel : msg[m].thread = stop[s].thread /\ Targets(m, stop[s].target)}
<1>a. stop[s] \in StopType /\ hit \subseteq Messages
    BY DEF IInv, TypeOK, StopForks
<1>b. /\ stop'[s] \in StopType /\ stop'[s].victims = stop[s].victims \cup hit
      /\ stop' = [stop EXCEPT ![s] = stop'[s]]
  <2> DEFINE new == [stop[s] EXCEPT !.at = "tell", !.victims = @ \cup hit]
  <2>1. new \in StopType /\ new.victims = stop[s].victims \cup hit
    BY <1>a DEF StopType
  <2>2. stop' = [stop EXCEPT ![s] = new]
    BY <1>a DEF StopForks, IInv, TypeOK, StopType
  <2> HIDE DEF new
  <2> QED
    BY <2>1, <2>2 DEF IInv, TypeOK
<1>c. /\ cancelled' = cancelled \cup hit /\ parallel' = parallel \ hit
      /\ UNCHANGED <<msg, queueVars, turn, told, inFlight>>
    BY DEF StopForks
<1> HIDE DEF hit
<1>1. TypeOK'
    BY <1>a, <1>b, <1>c DEF IInv, TypeOK, queueVars
<1>2. Shape'
    BY DEF IInv, StopForks, queueVars, Shape
<1>3. Registered'
    BY DEF IInv, StopForks, queueVars, Registered, IsFork
<1>4. RegisteredNotCancelled'
    BY NullAssumption DEF IInv, StopForks, TypeOK, Shape, Spawned, Registered,
       RegisteredNotCancelled, IsFork, MsgType
<1>5. Answers'
  <2>1. \A x \in Messages : Answered(x) => Answered(x)'
    BY <1>a, <1>b, <1>c, NullAssumption DEF Answered, IInv, TypeOK
  <2>2. \A x \in hit : Answered(x)'
    BY <1>a, <1>b, NullAssumption DEF Answered
  <2> QED
    BY <1>a, <1>c, <2>1, <2>2 DEF IInv, Answers, TypeOK, queueVars
<1>6. Ordered'
    BY DEF IInv, StopForks, queueVars, Ordered
<1> QED
    BY <1>1, <1>2, <1>3, <1>4, <1>5, <1>6 DEF IInv

LEMMA StopTellsStep ==
    ASSUME IInv, NEW s \in Stops, StopTells(s)
    PROVE  IInv'
<1>1. TypeOK'
  <2> DEFINE new == [stop[s] EXCEPT !.at = "done", !.victims = {}]
  <2>1. stop[s] \in StopType
    BY DEF IInv, TypeOK, StopTells
  <2>2. new \in StopType
    BY <2>1 DEF StopType
  <2>3. stop' = [stop EXCEPT ![s] = new]
    BY <2>1 DEF StopTells, IInv, TypeOK, StopType
  <2> HIDE DEF new
  <2>4. stop' \in [Stops -> StopType \cup {NULL}]
    BY <2>2, <2>3 DEF IInv, TypeOK
  <2>5. told' \in [Messages -> SUBSET {"reply", "error", "cancelled"}]
    BY DEF IInv, TypeOK, StopTells, Tell
  <2> QED
    BY <2>4, <2>5 DEF IInv, TypeOK, StopTells, queueVars
<1>2. Shape'
    BY DEF IInv, StopTells, queueVars, Shape
<1>3. Registered'
    BY DEF IInv, StopTells, queueVars, Registered, IsFork
<1>4. RegisteredNotCancelled'
    BY DEF IInv, StopTells, queueVars, RegisteredNotCancelled
<1>5. Answers'
    BY DEF IInv, StopTells, Tell, TypeOK, Answers, Answered, StopType, Shape, Spawned
<1>6. Ordered'
    BY DEF IInv, StopTells, queueVars, Tell, TypeOK, Shape, Spawned, Answers, Ordered,
       Points
<1> QED
    BY <1>1, <1>2, <1>3, <1>4, <1>5, <1>6 DEF IInv

LEMMA ClearQueueStep ==
    ASSUME IInv, NEW t \in Threads, ClearQueue(t)
    PROVE  IInv'
<1>1. TypeOK'
    BY DEF IInv, ClearQueue, Move, TypeOK, Shape, MsgType, StopType, Points, Phases
<1>2. Shape'
    BY DEF IInv, ClearQueue, Waiting, Move, TypeOK, Shape, Spawned, MsgType, Points,
       Phases
<1>3. Registered'
    BY DEF IInv, ClearQueue, Waiting, Move, TypeOK, Shape, Spawned, Registered,
       RegisteredNotCancelled, IsFork, MsgType
<1>4. RegisteredNotCancelled'
    BY DEF IInv, ClearQueue, RegisteredNotCancelled
<1>5. Answers'
    BY DEF IInv, ClearQueue, Answers, Answered
<1>6. Ordered'
    BY DEF IInv, ClearQueue, Move, TypeOK, Shape, Spawned, Answers, Ordered, Points
<1> QED
    BY <1>1, <1>2, <1>3, <1>4, <1>5, <1>6 DEF IInv

-------------------------------------------------------------------------------
LEMMA InitIInv == Init => IInv
<1> SUFFICES ASSUME Init PROVE IInv
    OBVIOUS
<1>1. TypeOK
    BY DEF Init, TypeOK, Points, Phases
<1>2. Shape /\ Registered /\ RegisteredNotCancelled
    BY DEF Init, Shape, Registered, RegisteredNotCancelled, Spawned
<1>3. Answers /\ Ordered
    BY DEF Init, Answers, Ordered
<1> QED
    BY <1>1, <1>2, <1>3 DEF IInv

LEMMA InvStep == IInv /\ [Next]_vars => IInv'
<1> SUFFICES ASSUME IInv, [Next]_vars PROVE IInv'
    OBVIOUS
<1>1. ASSUME NEW m \in Messages, NEW t \in Threads, NEW mode \in Modes,
             Receive(m, t, mode)
      PROVE  IInv'
    BY <1>1, ReceiveStep
<1>2. ASSUME NEW m \in Messages, Call(m) PROVE IInv'
    BY <1>2, EnqueueStep, FallThroughStep, SupersedeStep, ForkStep, RegisterStep
       DEF Call
<1>3. ASSUME NEW m \in Messages, Steering(m) PROVE IInv'
    BY <1>3, TakeStep, DeliverStep, CheckpointStep, RequeueStep DEF Steering
<1>4. ASSUME NEW m \in Messages, Task(m) PROVE IInv'
    BY <1>4, ProduceStep, UnwindStep, RespondStep, DispatchFollowupsStep, ReleaseStep,
       LeaveParallelStep
       DEF Task
<1>5. ASSUME NEW m \in Messages, Arm(m) \/ HardAbort(m) PROVE IInv'
    BY <1>5, ArmStep, HardAbortStep
<1>6. ASSUME NEW s \in Stops, NEW t \in Threads,
             NEW target \in {NULL} \cup {m \in Messages : turn[m] # "none"},
             StopPrimary(s, t, target)
      PROVE  IInv'
    BY <1>6, StopPrimaryStep
<1>7. ASSUME NEW s \in Stops, Stopping(s) PROVE IInv'
    BY <1>7, StopForksStep, StopTellsStep DEF Stopping
<1>8. ASSUME NEW t \in Threads, ClearQueue(t) PROVE IInv'
    BY <1>8, ClearQueueStep
<1>9. CASE UNCHANGED vars
    BY <1>9 DEF IInv, TypeOK, Shape, Registered, RegisteredNotCancelled, Answers, Ordered,
       Answered, IsFork, Spawned, vars, queueVars
<1> QED
    BY <1>1, <1>2, <1>3, <1>4, <1>5, <1>6, <1>7, <1>8, <1>9 DEF Next

THEOREM Invariance == Spec => []IInv
<1> QED
    BY InitIInv, InvStep, PTL DEF Spec

-------------------------------------------------------------------------------
(* What it says, property by property.                                     *)

(* Every variable keeps its type, whatever start_chat calls, turn tasks,   *)
(* forwarders and stops do at once.                                        *)
THEOREM TypeCorrect == Spec => []TypeOK
<1>1. IInv => TypeOK
    BY DEF IInv
<1> QED
    BY <1>1, Invariance, PTL

(* Neither IN_FLIGHT nor PARALLEL_IN_FLIGHT ever names a turn whose token  *)
(* was cancelled.                                                          *)
THEOREM NotCancelled == Spec => []RegisteredNotCancelled
<1>1. IInv => RegisteredNotCancelled
    BY DEF IInv
<1> QED
    BY <1>1, Invariance, PTL

(* No turn task ends without a terminal event for its client, or a stop    *)
(* in progress that will publish one (#4746).                              *)
THEOREM NoSilentEnd == Spec => []EndedAnswered
<1>1. IInv => EndedAnswered
    BY DEF IInv, Answers, Answered, EndedAnswered
<1> QED
    BY <1>1, Invariance, PTL

(* A followup runs only after the client of the turn it waited for has its *)
(* terminal event, even if it was queued, fell through and superseded      *)
(* others on the way.                                                      *)
THEOREM FollowupsOrdered == Spec => []FollowupAfterHost
<1>1. IInv => FollowupAfterHost
    BY DEF IInv, Shape, Spawned, Ordered, FollowupAfterHost
<1> QED
    BY <1>1, Invariance, PTL

-------------------------------------------------------------------------------
(* Who writes the registrations and the cancel tokens.                     *)
LEMMA InFlightWriters ==
    ASSUME [Next]_vars
    PROVE  \/ UNCHANGED inFlight
           \/ \E m \in Messages : \/ Supersede(m) \/ Register(m)
                                  \/ DispatchFollowups(m) \/ Release(m)
           \/ \E s \in Stops, t \in Threads, target \in Messages \cup {NULL} :
                StopPrimary(s, t, target)
BY DEF Next, vars, Receive, Call, Enqueue, FallThrough, Fork, Arm, Steering, Take, Deliver,
       Checkpoint, Requeue, Task, Produce, Unwind, LeaveParallel, Respond, HardAbort,
       Stopping, StopForks, StopTells, ClearQueue

LEMMA CancelWriters ==
    ASSUME [Next]_vars
    PROVE  \/ UNCHANGED cancelled
           \/ \E m \in Messages : Supersede(m)
           \/ \E s \in Stops, t \in Threads, target \in Messages \cup {NULL} :
                StopPrimary(s, t, target)
           \/ \E s \in Stops : StopForks(s)
BY DEF Next, vars, Receive, Call, Enqueue, FallThrough, Fork, Register, Arm, Steering, Take,
       Deliver, Checkpoint, Requeue, Task, Produce, Unwind, DispatchFollowups, Release,
       LeaveParallel, Respond, HardAbort, Stopping, StopTells, ClearQueue

(* The request_id comparison of the turn task, and the removals of         *)
(* start_chat and cancel_chat_scoped, evict no turn that is neither over   *)
(* nor cancelled.                                                          *)
THEOREM EvictionsOwned == Spec => EvictionOwned
<1> DEFINE Owned ==
      \A t \in Threads : inFlight[t] # NULL /\ inFlight'[t] = NULL
                           => inFlight[t] \in cancelled' \/ turn'[inFlight[t]] = "ended"
<1>1. IInv /\ [Next]_vars => [Owned]_vars
  <2> SUFFICES ASSUME IInv, [Next]_vars PROVE Owned
    OBVIOUS
  <2>0. TypeOK /\ Shape
    BY DEF IInv
  <2>1. CASE UNCHANGED inFlight
    BY <2>1
  <2>2. ASSUME NEW m \in Messages, Supersede(m) PROVE Owned
    BY <2>0, <2>2 DEF Supersede, Superseded, Current, TypeOK, Shape, MsgType
  <2>3. ASSUME NEW m \in Messages, Register(m) PROVE Owned
    BY <2>0, <2>3, NullAssumption DEF Register, TypeOK, Shape, MsgType
  <2>4. ASSUME NEW m \in Messages, DispatchFollowups(m) \/ Release(m) PROVE Owned
    BY <2>0, <2>4 DEF DispatchFollowups, Release, Deregister, End, TypeOK, Shape, MsgType
  <2>5. ASSUME NEW s \in Stops, NEW t \in Threads, NEW target \in Messages \cup {NULL},
               StopPrimary(s, t, target)
        PROVE  Owned
    BY <2>0, <2>5 DEF StopPrimary, TypeOK
  <2> QED
    BY InFlightWriters, <2>1, <2>2, <2>3, <2>4, <2>5
<1> QED
    BY <1>1, Invariance, PTL DEF Spec, EvictionOwned

(* cancel_should_target and the removal from the map of one's own thread:  *)
(* only a newer message on the thread, or a stop meant for it, cancels a   *)
(* turn (#4760).                                                           *)
THEOREM CancelsCaused == Spec => CancelHasCause
<1> DEFINE Caused ==
      \A x \in cancelled' \ cancelled :
         \/ \E m \in Messages :
              /\ at[m] = "superseding" /\ at'[m] # at[m]
              /\ msg[m].thread = msg[x].thread /\ ~IsFork(x)
         \/ \E s \in Stops :
              /\ stop'[s] # stop[s]
              /\ stop'[s].thread = msg[x].thread /\ stop'[s].target \in {NULL, x}
<1>1. IInv /\ [Next]_vars => [Caused]_vars
  <2> SUFFICES ASSUME IInv, [Next]_vars PROVE Caused
    OBVIOUS
  <2>0. TypeOK /\ Shape /\ Registered
    BY DEF IInv
  <2>1. CASE UNCHANGED cancelled
    BY <2>1
  <2>2. ASSUME NEW m \in Messages, Supersede(m) PROVE Caused
    <3>1. /\ at[m] = "superseding" /\ at'[m] # at[m] /\ msg[m].thread \in Threads
          /\ cancelled' \ cancelled \subseteq Superseded(m)
      BY <2>0, <2>2 DEF Supersede, TypeOK, Shape, MsgType
    <3>2. \A x \in Superseded(m) : msg[x].thread = msg[m].thread /\ ~IsFork(x)
      BY <2>0, <3>1 DEF Superseded, Current, Registered
    <3> QED
      BY <3>1, <3>2
  <2>3. ASSUME NEW s \in Stops, NEW t \in Threads, NEW target \in Messages \cup {NULL},
               StopPrimary(s, t, target)
        PROVE  Caused
    <3>1. /\ stop[s] = NULL /\ stop'[s] \in StopType
          /\ stop'[s].thread = t /\ stop'[s].target = target
      BY <2>0, <2>3 DEF StopPrimary, TypeOK, StopType
    <3>2. \A x \in cancelled' \ cancelled :
            x = inFlight[t] /\ x # NULL /\ target \in {NULL, x}
      BY <2>3 DEF StopPrimary, Targets
    <3>3. \A x \in cancelled' \ cancelled : msg[x].thread = t
      BY <2>0, <3>2 DEF Registered
    <3> QED
      BY <3>1, <3>2, <3>3, NullAssumption
  <2>4. ASSUME NEW s \in Stops, StopForks(s) PROVE Caused
    <3>1. stop[s] \in StopType /\ stop[s].at = "forks"
      BY <2>0, <2>4 DEF StopForks, TypeOK
    <3>2. /\ stop'[s].at = "tell" /\ stop'[s].thread = stop[s].thread
          /\ stop'[s].target = stop[s].target
      BY <2>0, <2>4, <3>1 DEF StopForks, TypeOK, StopType
    <3>3. \A x \in cancelled' \ cancelled :
            msg[x].thread = stop[s].thread /\ stop[s].target \in {NULL, x}
      BY <2>4 DEF StopForks, Targets
    <3> QED
      BY <3>1, <3>2, <3>3
  <2> QED
    BY CancelWriters, <2>1, <2>2, <2>3, <2>4
<1> QED
    BY <1>1, Invariance, PTL DEF Spec, CancelHasCause
===============================================================================
