----------------------- MODULE BackgroundDeliveryProofs -----------------------
(***************************************************************************)
(* Proofs about BackgroundDelivery for any number of sessions, sub-agents, *)
(* threads and overlapping attempts, whatever the flags.                   *)
(***************************************************************************)
EXTENDS BackgroundDelivery, TLAPS

(* An attempt past the claim of its slot holds it until it releases it.    *)
Slotted == \A d \in Attempts : at[d] \in Owning => session[d] \in slots

(* Results are discarded only for threads that are deleted already.        *)
Discards ==
    /\ tombs \subseteq gone /\ left \subseteq gone
    /\ \A th \in Threads :
          deletion[th] \in {"aborting", "discarding"} => th \in gone
    /\ purge \in {"aborting", "discarding"} => gone = Threads

(* A sub-agent is cancelled once, while it is listed.                      *)
CancelledOnce ==
    /\ cancelling \subseteq cancelled
    /\ \A t \in cancelled : entry[t] = "removed"

(* Every carried result was recorded by the sub-agent itself or by the     *)
(* cancel: a result to come, a copy in the queue, a copy in hand and the   *)
(* turns that carried one add up to no more than that.                     *)
Held(t) == \E d \in Attempts : t \in hand[d]
One(b) == IF b THEN 1 ELSE 0
Unrecorded == {"none", "running", "signalled"}
Budget ==
    \A t \in Tasks :
        delivered[t] + One(t \in pending) + One(Held(t))
            + One(agent[t] \in Unrecorded) + One(t \in cancelling)
          <= 1 + One(t \in cancelled)

IInv ==
    /\ TypeOK /\ Slotted /\ OneDeliveryPerSession /\ Discards
    /\ CancelledOnce /\ Budget /\ NoResultLost /\ NothingQueuedForGone

LEMMA ThreadType == \A t \in Tasks : Thread(t) \in Threads
  BY SessionsAssumption DEF Thread

(* Two attempts never hold results of one session.                         *)
LEMMA HeldOnce ==
    ASSUME TypeOK, OneDeliveryPerSession
    PROVE  \A d, e \in Attempts, t \in Tasks :
              (at[d] \in Owning /\ SessionOf[t] = session[d] /\ t \in hand[e])
                 => d = e
  <1> SUFFICES ASSUME NEW d \in Attempts, NEW e \in Attempts, NEW t \in Tasks,
                      at[d] \in Owning, SessionOf[t] = session[d], t \in hand[e]
               PROVE  d = e
    OBVIOUS
  <1>1. at[e] \in {"holding", "turn", "requeueing"} /\ session[e] = session[d]
    BY DEF TypeOK
  <1> QED
    BY <1>1 DEF OneDeliveryPerSession, Owning

(* What record_outcome does to the queue.                                  *)
LEMMA RecordFacts ==
    ASSUME IInv, NEW t \in Tasks, RecordOutcome(t)
    PROVE  /\ pending' = pending \cup {t} \/ pending' = pending
           /\ recorded' = recorded \cup {t} \/ recorded' = recorded
           /\ pending' \subseteq Tasks /\ recorded' \subseteq Tasks
           /\ pending \subseteq pending'
           /\ t \in pending' \/ t \in collected \/ Thread(t) \in gone
           /\ t \in pending' => t \in pending \/ Accepts(t)
           /\ \A x \in recorded' : x \in recorded \/ (x = t /\ t \in pending')
    BY DEF RecordOutcome, Accepts, IInv, TypeOK, Discards

LEMMA BeginTurnKeeps ==
    ASSUME IInv, NEW s \in Sessions, BeginTurn(s)
    PROVE  IInv'
<1>0. UNCHANGED <<busy, sleeping, slots, at, session, hand, pending, tombs,
                  collected, agent, usable, entry, cancelling, deletion,
                  purge, left, gone, recorded, delivered, cancelled>>
  BY
    DEF BeginTurn, Publish, turnVars, deliveryVars, queueVars, agentVars,
        threadVars, QuietVars
<1>b. bus' \in Seq(Kinds \X Sessions)
  <2>1. <<"started", s>> \in Kinds \X Sessions
    BY SessionsAssumption DEF Kinds
  <2> QED
    BY <2>1 DEF BeginTurn, Publish, IInv, TypeOK
<1>k. Slotted' /\ OneDeliveryPerSession' /\ Discards' /\ CancelledOnce' /\
      Budget' /\ NoResultLost' /\ NothingQueuedForGone'
  BY <1>0
    DEF IInv, Slotted, OneDeliveryPerSession, Discards, CancelledOnce,
        Budget, Held, NoResultLost, NothingQueuedForGone
<1>1. TypeOK'
  BY <1>0, <1>b DEF IInv, TypeOK, BeginTurn, Publish
<1> QED
  BY <1>k, <1>1 DEF IInv

LEMMA RefuseTurnKeeps ==
    ASSUME IInv, NEW s \in Sessions, RefuseTurn(s)
    PROVE  IInv'
<1>0. UNCHANGED <<turns, busy, sleeping, slots, at, session, hand, pending,
                  tombs, collected, agent, usable, entry, cancelling,
                  deletion, purge, left, gone, recorded, delivered,
                  cancelled>>
  BY
    DEF RefuseTurn, Publish, turnVars, deliveryVars, queueVars, agentVars,
        threadVars, QuietVars
<1>b. bus' \in Seq(Kinds \X Sessions)
  <2>1. <<"ended", s>> \in Kinds \X Sessions
    BY SessionsAssumption DEF Kinds
  <2> QED
    BY <2>1 DEF RefuseTurn, Publish, IInv, TypeOK
<1>k. Slotted' /\ OneDeliveryPerSession' /\ Discards' /\ CancelledOnce' /\
      Budget' /\ NoResultLost' /\ NothingQueuedForGone'
  BY <1>0
    DEF IInv, Slotted, OneDeliveryPerSession, Discards, CancelledOnce,
        Budget, Held, NoResultLost, NothingQueuedForGone
<1>1. TypeOK'
  BY <1>0, <1>b DEF IInv, TypeOK, RefuseTurn, Publish
<1> QED
  BY <1>k, <1>1 DEF IInv

LEMMA EndTurnKeeps ==
    ASSUME IInv, NEW s \in Sessions, EndTurn(s)
    PROVE  IInv'
<1>0. UNCHANGED <<begun, busy, sleeping, slots, at, session, hand, pending,
                  tombs, collected, agent, usable, entry, cancelling,
                  deletion, purge, left, gone, recorded, delivered,
                  cancelled>>
  BY
    DEF EndTurn, Publish, turnVars, deliveryVars, queueVars, agentVars,
        threadVars, QuietVars
<1>b. bus' \in Seq(Kinds \X Sessions)
  <2>1. <<"ended", s>> \in Kinds \X Sessions
    BY SessionsAssumption DEF Kinds
  <2> QED
    BY <2>1 DEF EndTurn, Publish, IInv, TypeOK
<1>k. Slotted' /\ OneDeliveryPerSession' /\ Discards' /\ CancelledOnce' /\
      Budget' /\ NoResultLost' /\ NothingQueuedForGone'
  BY <1>0
    DEF IInv, Slotted, OneDeliveryPerSession, Discards, CancelledOnce,
        Budget, Held, NoResultLost, NothingQueuedForGone
<1>1. TypeOK'
  BY <1>0, <1>b DEF IInv, TypeOK, EndTurn, Publish
<1> QED
  BY <1>k, <1>1 DEF IInv

LEMMA DropTurnKeeps ==
    ASSUME IInv, NEW s \in Sessions, DropTurn(s)
    PROVE  IInv'
<1>0. UNCHANGED <<begun, bus, busy, sleeping, slots, at, session, hand,
                  pending, tombs, collected, agent, usable, entry,
                  cancelling, deletion, purge, left, gone, recorded,
                  delivered, cancelled>>
  BY
    DEF DropTurn, turnVars, deliveryVars, queueVars, agentVars, threadVars,
        QuietVars
<1>k. Slotted' /\ OneDeliveryPerSession' /\ Discards' /\ CancelledOnce' /\
      Budget' /\ NoResultLost' /\ NothingQueuedForGone'
  BY <1>0
    DEF IInv, Slotted, OneDeliveryPerSession, Discards, CancelledOnce,
        Budget, Held, NoResultLost, NothingQueuedForGone
<1>1. TypeOK'
  BY <1>0 DEF IInv, TypeOK, DropTurn
<1> QED
  BY <1>k, <1>1 DEF IInv

LEMMA HandleKeeps ==
    ASSUME IInv, Handle
    PROVE  IInv'
<1>0. UNCHANGED <<turns, begun, slots, at, session, hand, pending, tombs,
                  collected, agent, usable, entry, cancelling, deletion,
                  purge, left, gone, recorded, delivered, cancelled>>
  BY
    DEF Handle, turnVars, deliveryVars, queueVars, agentVars, threadVars,
        QuietVars
<1>b. /\ bus' \in Seq(Kinds \X Sessions)
      /\ Head(bus)[1] \in Kinds /\ Head(bus)[2] \in Sessions
  BY DEF Handle, IInv, TypeOK
<1>k. Slotted' /\ OneDeliveryPerSession' /\ Discards' /\ CancelledOnce' /\
      Budget' /\ NoResultLost' /\ NothingQueuedForGone'
  BY <1>0
    DEF IInv, Slotted, OneDeliveryPerSession, Discards, CancelledOnce,
        Budget, Held, NoResultLost, NothingQueuedForGone
<1>1. TypeOK'
  <2>1. busy' \subseteq Sessions
    BY <1>b DEF Handle, IInv, TypeOK, Kinds
  <2>2. sleeping' = sleeping
          \/ sleeping' = [sleeping EXCEPT ![Head(bus)[2]] = @ + 1]
    BY DEF Handle
  <2>3. sleeping \in [Sessions -> Nat]
    BY DEF IInv, TypeOK
  <2>4. ASSUME NEW s \in Sessions,
               sleeping' = [sleeping EXCEPT ![s] = @ + 1]
        PROVE  sleeping' \in [Sessions -> Nat]
    BY <2>3, <2>4
  <2>5. sleeping' \in [Sessions -> Nat]
    BY <1>b, <2>2, <2>3, <2>4
  <2> QED
    BY <1>0, <1>b, <2>1, <2>5 DEF IInv, TypeOK
<1> QED
  BY <1>k, <1>1 DEF IInv

LEMMA SpawnKeeps ==
    ASSUME IInv, NEW t \in Tasks, Spawn(t)
    PROVE  IInv'
<1>0. UNCHANGED <<turns, begun, bus, busy, sleeping, slots, at, session,
                  hand, pending, tombs, collected, usable, entry,
                  cancelling, deletion, purge, left, gone, recorded,
                  delivered, cancelled>>
  BY
    DEF Spawn, turnVars, deliveryVars, queueVars, agentVars, threadVars,
        QuietVars
<1>k. Slotted' /\ OneDeliveryPerSession' /\ Discards' /\ CancelledOnce' /\
      NoResultLost' /\ NothingQueuedForGone'
  BY <1>0
    DEF IInv, Slotted, OneDeliveryPerSession, Discards, CancelledOnce,
        NoResultLost, NothingQueuedForGone
<1>1. TypeOK'
  <2>1. agent' \in [Tasks -> Stages]
    BY DEF Spawn, IInv, TypeOK, Stages
  <2> QED
    BY <1>0, <2>1 DEF IInv, TypeOK
<1>2. Budget'
  BY <1>0 DEF IInv, TypeOK, Budget, Held, One, Unrecorded, Spawn
<1> QED
  BY <1>k, <1>1, <1>2 DEF IInv

LEMMA RegisterKeeps ==
    ASSUME IInv, NEW t \in Tasks, Register(t)
    PROVE  IInv'
<1>0. UNCHANGED <<turns, begun, bus, busy, sleeping, slots, at, session,
                  hand, pending, tombs, collected, agent, usable,
                  cancelling, deletion, purge, left, gone, recorded,
                  delivered, cancelled>>
  BY
    DEF Register, turnVars, deliveryVars, queueVars, agentVars, threadVars,
        QuietVars
<1>k. Slotted' /\ OneDeliveryPerSession' /\ Discards' /\ Budget' /\
      NoResultLost' /\ NothingQueuedForGone'
  BY <1>0
    DEF IInv, Slotted, OneDeliveryPerSession, Discards, Budget, Held,
        NoResultLost, NothingQueuedForGone
<1>1. TypeOK'
  BY <1>0 DEF IInv, TypeOK, Register
<1>2. CancelledOnce'
  BY <1>0 DEF IInv, TypeOK, CancelledOnce, Register
<1> QED
  BY <1>k, <1>1, <1>2 DEF IInv

LEMMA SignalKeeps ==
    ASSUME IInv, NEW t \in Tasks, Signal(t)
    PROVE  IInv'
<1>0. UNCHANGED <<turns, begun, bus, busy, sleeping, slots, at, session,
                  hand, pending, tombs, collected, entry, cancelling,
                  deletion, purge, left, gone, recorded, delivered,
                  cancelled>>
  BY
    DEF Signal, turnVars, deliveryVars, queueVars, agentVars, threadVars,
        QuietVars
<1>k. Slotted' /\ OneDeliveryPerSession' /\ Discards' /\ CancelledOnce' /\
      NoResultLost' /\ NothingQueuedForGone'
  BY <1>0
    DEF IInv, Slotted, OneDeliveryPerSession, Discards, CancelledOnce,
        NoResultLost, NothingQueuedForGone
<1>1. TypeOK'
  <2>1. agent' \in [Tasks -> Stages] /\ usable' \subseteq Tasks
    BY DEF Signal, IInv, TypeOK, Stages
  <2> QED
    BY <1>0, <2>1 DEF IInv, TypeOK
<1>2. Budget'
  BY <1>0 DEF IInv, TypeOK, Budget, Held, One, Unrecorded, Signal
<1> QED
  BY <1>k, <1>1, <1>2 DEF IInv

LEMMA RecordKeeps ==
    ASSUME IInv, NEW t \in Tasks, Record(t)
    PROVE  IInv'
<1>0. UNCHANGED <<turns, begun, bus, busy, sleeping, slots, at, session,
                  hand, tombs, collected, usable, entry, cancelling,
                  deletion, purge, left, gone, delivered, cancelled>>
  BY
    DEF Record, turnVars, deliveryVars, queueVars, agentVars, threadVars,
        QuietVars
<1>r. agent[t] = "signalled" /\ agent' = [agent EXCEPT ![t] = "recorded"]
  BY DEF Record
<1>s. /\ pending' = pending \cup {t} \/ pending' = pending
      /\ pending' \subseteq Tasks /\ recorded' \subseteq Tasks
      /\ t \in pending' => t \in pending \/ Accepts(t)
      /\ \A x \in recorded' : x \in recorded \/ (x = t /\ t \in pending')
  BY RecordFacts DEF Record
<1>k. Slotted' /\ OneDeliveryPerSession' /\ Discards' /\ CancelledOnce'
  BY <1>0 DEF IInv, Slotted, OneDeliveryPerSession, Discards, CancelledOnce
<1>1. TypeOK'
  BY <1>0, <1>r, <1>s DEF IInv, TypeOK, Accepts, Stages
<1>2. Budget'
  BY <1>0, <1>r, <1>s
    DEF IInv, TypeOK, Budget, Held, One, Unrecorded, Accepts, Stages
<1>3. NoResultLost'
  BY <1>0, <1>r, <1>s DEF IInv, TypeOK, NoResultLost, Accepts, Stages
<1>4. NothingQueuedForGone'
  BY <1>0, <1>r, <1>s DEF IInv, TypeOK, NothingQueuedForGone, Accepts, Stages
<1> QED
  BY <1>k, <1>1, <1>2, <1>3, <1>4 DEF IInv

LEMMA AnnounceKeeps ==
    ASSUME IInv, NEW t \in Tasks, Announce(t)
    PROVE  IInv'
<1>0. UNCHANGED <<turns, begun, busy, sleeping, slots, at, session, hand,
                  pending, tombs, collected, usable, entry, cancelling,
                  deletion, purge, left, gone, recorded, delivered,
                  cancelled>>
  BY
    DEF Announce, Publish, turnVars, deliveryVars, queueVars, agentVars,
        threadVars, QuietVars
<1>b. bus' \in Seq(Kinds \X Sessions)
  <2>1. <<"finished", SessionOf[t]>> \in Kinds \X Sessions
    BY SessionsAssumption DEF Kinds
  <2> QED
    BY <2>1 DEF Announce, Publish, IInv, TypeOK
<1>k. Slotted' /\ OneDeliveryPerSession' /\ Discards' /\ CancelledOnce' /\
      NoResultLost' /\ NothingQueuedForGone'
  BY <1>0
    DEF IInv, Slotted, OneDeliveryPerSession, Discards, CancelledOnce,
        NoResultLost, NothingQueuedForGone
<1>1. TypeOK'
  <2>1. agent' \in [Tasks -> Stages]
    BY DEF Announce, IInv, TypeOK, Stages
  <2> QED
    BY <1>0, <1>b, <2>1 DEF IInv, TypeOK
<1>2. Budget'
  BY <1>0, <1>b
    DEF IInv, TypeOK, Budget, Held, One, Unrecorded, Announce, Publish
<1> QED
  BY <1>k, <1>1, <1>2 DEF IInv

LEMMA CollectKeeps ==
    ASSUME IInv, NEW t \in Tasks, Collect(t)
    PROVE  IInv'
<1>0. UNCHANGED <<turns, begun, bus, busy, sleeping, slots, at, session,
                  hand, tombs, agent, usable, cancelling, deletion, purge,
                  left, gone, recorded, delivered, cancelled>>
  BY
    DEF Collect, turnVars, deliveryVars, queueVars, agentVars, threadVars,
        QuietVars
<1>k. Slotted' /\ OneDeliveryPerSession' /\ Discards'
  BY <1>0 DEF IInv, Slotted, OneDeliveryPerSession, Discards
<1>1. TypeOK'
  BY <1>0 DEF IInv, TypeOK, Collect
<1>2. CancelledOnce'
  BY <1>0 DEF IInv, TypeOK, CancelledOnce, Collect
<1>3. Budget'
  BY <1>0 DEF IInv, TypeOK, Budget, Held, One, Unrecorded, Collect
<1>4. NoResultLost'
  BY <1>0 DEF IInv, TypeOK, NoResultLost, Collect
<1>5. NothingQueuedForGone'
  BY <1>0 DEF IInv, TypeOK, NothingQueuedForGone, Collect
<1> QED
  BY <1>k, <1>1, <1>2, <1>3, <1>4, <1>5 DEF IInv

LEMMA CancelTaskKeeps ==
    ASSUME IInv, NEW t \in Tasks, CancelTask(t)
    PROVE  IInv'
<1>0. UNCHANGED <<turns, begun, bus, busy, sleeping, slots, at, session,
                  hand, pending, tombs, collected, usable, deletion, purge,
                  left, gone, recorded, delivered>>
  BY
    DEF CancelTask, Abort, Unlist, Listed, turnVars, deliveryVars,
        queueVars, agentVars, threadVars, QuietVars
<1>a. agent' \in [Tasks -> Stages]
      /\ \A x \in Tasks : agent'[x] \in Unrecorded => agent[x] \in Unrecorded
  BY DEF CancelTask, Abort, IInv, TypeOK, Stages, Unrecorded
<1>e. entry' \in [Tasks -> {"none", "listed", "removed"}]
      /\ \A x \in Tasks : entry[x] = "removed" => entry'[x] = "removed"
  BY DEF CancelTask, Unlist, Listed, IInv, TypeOK
<1>k. Slotted' /\ OneDeliveryPerSession' /\ Discards' /\ NoResultLost' /\
      NothingQueuedForGone'
  BY <1>0
    DEF IInv, Slotted, OneDeliveryPerSession, Discards, NoResultLost,
        NothingQueuedForGone
<1>1. TypeOK'
  BY <1>0, <1>a, <1>e DEF IInv, TypeOK, CancelTask, Abort, Unlist, Listed
<1>2. CancelledOnce'
  BY <1>0, <1>a, <1>e
    DEF IInv, TypeOK, CancelledOnce, CancelTask, Abort, Unlist, Listed
<1>3. Budget'
  <2> SUFFICES ASSUME NEW x \in Tasks
               PROVE  (delivered[x] + One(x \in pending) + One(Held(x))
                         + One(agent[x] \in Unrecorded)
                         + One(x \in cancelling) <= 1 + One(x \in cancelled))'
    BY DEF Budget
  <2>1. /\ delivered[x] \in Nat
        /\ delivered[x] + One(x \in pending) + One(Held(x))
              + One(agent[x] \in Unrecorded) + One(x \in cancelling)
             <= 1 + One(x \in cancelled)
    BY DEF IInv, TypeOK, Budget
  <2>2. Held(x)' <=> Held(x)
    BY <1>0 DEF Held
  <2>3. (x \in cancelling' /\ x \notin cancelling)
           => (x \in cancelled' /\ x \notin cancelled)
    BY DEF CancelTask, Listed, IInv, CancelledOnce
  <2>4. x \in cancelled => x \in cancelled'
    BY DEF CancelTask
  <2>5. agent'[x] \in Unrecorded => agent[x] \in Unrecorded
    BY <1>a
  <2> QED
    BY <1>0, <2>1, <2>2, <2>3, <2>4, <2>5 DEF One
<1> QED
  BY <1>k, <1>1, <1>2, <1>3 DEF IInv

LEMMA RecordCancelledKeeps ==
    ASSUME IInv, NEW t \in Tasks, RecordCancelled(t)
    PROVE  IInv'
<1>0. UNCHANGED <<turns, begun, bus, busy, sleeping, slots, at, session,
                  hand, tombs, collected, agent, usable, entry, deletion,
                  purge, left, gone, delivered, cancelled>>
  BY
    DEF RecordCancelled, turnVars, deliveryVars, queueVars, agentVars,
        threadVars, QuietVars
<1>r. t \in cancelling /\ cancelling' = cancelling \ {t}
  BY DEF RecordCancelled
<1>s. /\ pending' = pending \cup {t} \/ pending' = pending
      /\ pending' \subseteq Tasks /\ recorded' \subseteq Tasks
      /\ t \in pending' => t \in pending \/ Accepts(t)
      /\ \A x \in recorded' : x \in recorded \/ (x = t /\ t \in pending')
  BY RecordFacts DEF RecordCancelled
<1>k. Slotted' /\ OneDeliveryPerSession' /\ Discards'
  BY <1>0 DEF IInv, Slotted, OneDeliveryPerSession, Discards
<1>1. TypeOK'
  BY <1>0, <1>r, <1>s DEF IInv, TypeOK, Accepts
<1>2. CancelledOnce'
  BY <1>0, <1>r, <1>s DEF IInv, TypeOK, CancelledOnce, Accepts
<1>3. Budget'
  BY <1>0, <1>r, <1>s DEF IInv, TypeOK, Budget, Held, One, Unrecorded, Accepts
<1>4. NoResultLost'
  BY <1>0, <1>r, <1>s DEF IInv, TypeOK, NoResultLost, Accepts
<1>5. NothingQueuedForGone'
  BY <1>0, <1>r, <1>s DEF IInv, TypeOK, NothingQueuedForGone, Accepts
<1> QED
  BY <1>k, <1>1, <1>2, <1>3, <1>4, <1>5 DEF IInv

LEMMA DeleteRowKeeps ==
    ASSUME IInv, NEW th \in Threads, DeleteRow(th)
    PROVE  IInv'
<1>0. UNCHANGED <<turns, begun, bus, busy, sleeping, slots, at, session,
                  hand, pending, tombs, collected, agent, usable, entry,
                  cancelling, purge, left, recorded, delivered, cancelled>>
  BY
    DEF DeleteRow, turnVars, deliveryVars, queueVars, agentVars, threadVars,
        QuietVars
<1>k. Slotted' /\ OneDeliveryPerSession' /\ CancelledOnce' /\ Budget' /\
      NothingQueuedForGone'
  BY <1>0
    DEF IInv, Slotted, OneDeliveryPerSession, CancelledOnce, Budget, Held,
        NothingQueuedForGone
<1>1. TypeOK'
  BY <1>0 DEF IInv, TypeOK, DeleteRow
<1>2. Discards'
  BY <1>0 DEF IInv, TypeOK, Discards, DeleteRow
<1>3. NoResultLost'
  BY <1>0 DEF IInv, TypeOK, NoResultLost, DeleteRow
<1> QED
  BY <1>k, <1>1, <1>2, <1>3 DEF IInv

LEMMA AbortThreadKeeps ==
    ASSUME IInv, NEW th \in Threads, AbortThread(th)
    PROVE  IInv'
<1>0. UNCHANGED <<turns, begun, bus, busy, sleeping, slots, at, session,
                  hand, pending, tombs, collected, usable, cancelling,
                  purge, left, gone, recorded, delivered, cancelled>>
  BY
    DEF AbortThread, Abort, Unlist, Listed, turnVars, deliveryVars,
        queueVars, agentVars, threadVars, QuietVars
<1>a. agent' \in [Tasks -> Stages]
      /\ \A x \in Tasks : agent'[x] \in Unrecorded => agent[x] \in Unrecorded
  BY DEF AbortThread, Abort, IInv, TypeOK, Stages, Unrecorded
<1>e. entry' \in [Tasks -> {"none", "listed", "removed"}]
      /\ \A x \in Tasks : entry[x] = "removed" => entry'[x] = "removed"
  BY DEF AbortThread, Unlist, Listed, IInv, TypeOK
<1>k. Slotted' /\ OneDeliveryPerSession' /\ NoResultLost' /\
      NothingQueuedForGone'
  BY <1>0
    DEF IInv, Slotted, OneDeliveryPerSession, NoResultLost,
        NothingQueuedForGone
<1>1. TypeOK'
  BY <1>0, <1>a, <1>e DEF IInv, TypeOK, AbortThread, Abort, Unlist, Listed
<1>2. Discards'
  BY <1>0, <1>a, <1>e
    DEF IInv, TypeOK, Discards, AbortThread, Abort, Unlist, Listed
<1>3. CancelledOnce'
  BY <1>0, <1>a, <1>e
    DEF IInv, TypeOK, CancelledOnce, AbortThread, Abort, Unlist, Listed
<1>4. Budget'
  BY <1>0, <1>a, <1>e
    DEF IInv, TypeOK, Budget, Held, One, Unrecorded, AbortThread, Abort,
        Unlist, Listed
<1> QED
  BY <1>k, <1>1, <1>2, <1>3, <1>4 DEF IInv

LEMMA DiscardThreadKeeps ==
    ASSUME IInv, NEW th \in Threads, DiscardThread(th)
    PROVE  IInv'
<1>0. UNCHANGED <<turns, begun, bus, busy, sleeping, slots, at, session,
                  hand, collected, agent, usable, entry, cancelling, purge,
                  left, gone, recorded, delivered, cancelled>>
  BY
    DEF DiscardThread, Tombstone, turnVars, deliveryVars, queueVars,
        agentVars, threadVars, QuietVars
<1>d. /\ th \in gone /\ tombs' = tombs \cup {th}
      /\ pending' = pending \ On(th)
  BY DEF DiscardThread, Tombstone, IInv, Discards
<1>k. Slotted' /\ OneDeliveryPerSession' /\ CancelledOnce'
  BY <1>0 DEF IInv, Slotted, OneDeliveryPerSession, CancelledOnce
<1>1. TypeOK'
  BY <1>0, <1>d, ThreadType DEF IInv, TypeOK, DiscardThread, On
<1>2. Discards'
  BY <1>0, <1>d, ThreadType DEF IInv, TypeOK, Discards, DiscardThread, On
<1>3. Budget'
  BY <1>0, <1>d, ThreadType
    DEF IInv, TypeOK, Budget, Held, One, Unrecorded, DiscardThread, On
<1>4. NoResultLost'
  BY <1>0, <1>d, ThreadType DEF IInv, TypeOK, NoResultLost, DiscardThread, On
<1>5. NothingQueuedForGone'
  BY <1>0, <1>d, ThreadType
    DEF IInv, TypeOK, NothingQueuedForGone, DiscardThread, On
<1> QED
  BY <1>k, <1>1, <1>2, <1>3, <1>4, <1>5 DEF IInv

LEMMA PurgeRowsKeeps ==
    ASSUME IInv, PurgeRows
    PROVE  IInv'
<1>0. UNCHANGED <<turns, begun, bus, busy, sleeping, slots, at, session,
                  hand, pending, tombs, collected, agent, usable, entry,
                  cancelling, deletion, left, recorded, delivered,
                  cancelled>>
  BY
    DEF PurgeRows, turnVars, deliveryVars, queueVars, agentVars, threadVars,
        QuietVars
<1>k. Slotted' /\ OneDeliveryPerSession' /\ CancelledOnce' /\ Budget' /\
      NothingQueuedForGone'
  BY <1>0
    DEF IInv, Slotted, OneDeliveryPerSession, CancelledOnce, Budget, Held,
        NothingQueuedForGone
<1>1. TypeOK'
  BY <1>0 DEF IInv, TypeOK, PurgeRows
<1>2. Discards'
  BY <1>0 DEF IInv, TypeOK, Discards, PurgeRows
<1>3. NoResultLost'
  BY <1>0 DEF IInv, TypeOK, NoResultLost, PurgeRows
<1> QED
  BY <1>k, <1>1, <1>2, <1>3 DEF IInv

LEMMA PurgeAbortKeeps ==
    ASSUME IInv, PurgeAbort
    PROVE  IInv'
<1>0. UNCHANGED <<turns, begun, bus, busy, sleeping, slots, at, session,
                  hand, pending, tombs, collected, usable, cancelling,
                  deletion, gone, recorded, delivered, cancelled>>
  BY
    DEF PurgeAbort, Abort, Unlist, Listed, turnVars, deliveryVars,
        queueVars, agentVars, threadVars, QuietVars
<1>a. agent' \in [Tasks -> Stages]
      /\ \A x \in Tasks : agent'[x] \in Unrecorded => agent[x] \in Unrecorded
  BY DEF PurgeAbort, Abort, IInv, TypeOK, Stages, Unrecorded
<1>e. entry' \in [Tasks -> {"none", "listed", "removed"}]
      /\ \A x \in Tasks : entry[x] = "removed" => entry'[x] = "removed"
  BY DEF PurgeAbort, Unlist, Listed, IInv, TypeOK
<1>k. Slotted' /\ OneDeliveryPerSession' /\ NoResultLost' /\
      NothingQueuedForGone'
  BY <1>0
    DEF IInv, Slotted, OneDeliveryPerSession, NoResultLost,
        NothingQueuedForGone
<1>1. TypeOK'
  <2>1. purge' = "discarding" /\ left' \subseteq Threads
    BY ThreadType DEF PurgeAbort, Listed
  <2> QED
    BY <1>0, <1>a, <1>e, <2>1 DEF IInv, TypeOK
<1>2. Discards'
  <2>1. purge = "aborting" /\ left' \subseteq Threads
    BY ThreadType DEF PurgeAbort, Listed
  <2> QED
    BY <1>0, <2>1 DEF IInv, Discards, TypeOK, PurgeAbort
<1>3. CancelledOnce'
  BY <1>0, <1>a, <1>e
    DEF IInv, TypeOK, CancelledOnce, PurgeAbort, Abort, Unlist, Listed
<1>4. Budget'
  BY <1>0, <1>a, <1>e
    DEF IInv, TypeOK, Budget, Held, One, Unrecorded, PurgeAbort, Abort,
        Unlist, Listed
<1> QED
  BY <1>k, <1>1, <1>2, <1>3, <1>4 DEF IInv

LEMMA PurgeDiscardKeeps ==
    ASSUME IInv, NEW th \in Threads, PurgeDiscard(th)
    PROVE  IInv'
<1>0. UNCHANGED <<turns, begun, bus, busy, sleeping, slots, at, session,
                  hand, collected, agent, usable, entry, cancelling,
                  deletion, purge, gone, recorded, delivered, cancelled>>
  BY
    DEF PurgeDiscard, Tombstone, turnVars, deliveryVars, queueVars,
        agentVars, threadVars, QuietVars
<1>d. /\ th \in gone /\ tombs' = tombs \cup {th}
      /\ pending' = pending \ On(th)
  BY DEF PurgeDiscard, Tombstone, IInv, Discards
<1>k. Slotted' /\ OneDeliveryPerSession' /\ CancelledOnce'
  BY <1>0 DEF IInv, Slotted, OneDeliveryPerSession, CancelledOnce
<1>1. TypeOK'
  BY <1>0, <1>d, ThreadType DEF IInv, TypeOK, PurgeDiscard, On
<1>2. Discards'
  BY <1>0, <1>d, ThreadType DEF IInv, TypeOK, Discards, PurgeDiscard, On
<1>3. Budget'
  BY <1>0, <1>d, ThreadType
    DEF IInv, TypeOK, Budget, Held, One, Unrecorded, PurgeDiscard, On
<1>4. NoResultLost'
  BY <1>0, <1>d, ThreadType DEF IInv, TypeOK, NoResultLost, PurgeDiscard, On
<1>5. NothingQueuedForGone'
  BY <1>0, <1>d, ThreadType
    DEF IInv, TypeOK, NothingQueuedForGone, PurgeDiscard, On
<1> QED
  BY <1>k, <1>1, <1>2, <1>3, <1>4, <1>5 DEF IInv

LEMMA PurgeClearKeeps ==
    ASSUME IInv, PurgeClear
    PROVE  IInv'
<1>0. UNCHANGED <<turns, begun, bus, busy, sleeping, slots, at, session,
                  hand, tombs, collected, agent, usable, entry, cancelling,
                  deletion, left, gone, recorded, delivered, cancelled>>
  BY
    DEF PurgeClear, turnVars, deliveryVars, queueVars, agentVars,
        threadVars, QuietVars
<1>d. pending' = {} /\ Threads \subseteq gone
  BY DEF PurgeClear, IInv, Discards
<1>k. Slotted' /\ OneDeliveryPerSession' /\ CancelledOnce'
  BY <1>0 DEF IInv, Slotted, OneDeliveryPerSession, CancelledOnce
<1>1. TypeOK'
  BY <1>0, <1>d, ThreadType DEF IInv, TypeOK, PurgeClear
<1>2. Discards'
  BY <1>0, <1>d, ThreadType DEF IInv, TypeOK, Discards, PurgeClear
<1>3. Budget'
  <2> SUFFICES ASSUME NEW x \in Tasks
               PROVE  (delivered[x] + One(x \in pending) + One(Held(x))
                         + One(agent[x] \in Unrecorded)
                         + One(x \in cancelling) <= 1 + One(x \in cancelled))'
    BY DEF Budget
  <2>1. /\ delivered[x] \in Nat
        /\ delivered[x] + One(x \in pending) + One(Held(x))
              + One(agent[x] \in Unrecorded) + One(x \in cancelling)
             <= 1 + One(x \in cancelled)
    BY DEF IInv, TypeOK, Budget
  <2>2. Held(x)' <=> Held(x)
    BY <1>0 DEF Held
  <2> QED
    BY <1>0, <1>d, <2>1, <2>2 DEF One
<1>4. NoResultLost'
  BY <1>0, <1>d, ThreadType DEF IInv, TypeOK, NoResultLost, PurgeClear
<1>5. NothingQueuedForGone'
  BY <1>0, <1>d, ThreadType DEF IInv, TypeOK, NothingQueuedForGone, PurgeClear
<1> QED
  BY <1>k, <1>1, <1>2, <1>3, <1>4, <1>5 DEF IInv

LEMMA WakeKeeps ==
    ASSUME IInv, NEW s \in Sessions, NEW d \in Attempts, Wake(s, d)
    PROVE  IInv'
<1>0. UNCHANGED <<turns, begun, bus, busy, slots, hand, pending, tombs,
                  collected, agent, usable, entry, cancelling, deletion,
                  purge, left, gone, recorded, delivered, cancelled>>
  BY
    DEF Wake, Goto, turnVars, deliveryVars, queueVars, agentVars,
        threadVars, QuietVars
<1>w. /\ sleeping[s] > 0 /\ sleeping' = [sleeping EXCEPT ![s] = @ - 1]
      /\ \/ at' = at /\ session' = session
         \/ /\ at' = [at EXCEPT ![d] = "looking"]
            /\ session' = [session EXCEPT ![d] = s]
  BY DEF Wake, Goto
<1>t. /\ at[d] = "free" /\ at' \in [Attempts -> Phases]
      /\ \A e \in Attempts : e # d => at'[e] = at[e]
      /\ at'[d] \in {"free", "looking"}
      /\ \A e \in Attempts : e # d => session'[e] = session[e]
      /\ session' \in [Attempts -> Sessions \cup {NULL}]
      /\ at'[d] = "looking" => session'[d] # NULL
      /\ sleeping' \in [Sessions -> Nat]
  <2>1. at[d] = "free" /\ s \in Sessions
    BY DEF Wake
  <2>2. sleeping' \in [Sessions -> Nat]
    BY <1>w DEF IInv, TypeOK
  <2>3. s # NULL
    BY SessionsAssumption
  <2>4. at \in [Attempts -> Phases] /\ "looking" \in Phases
        /\ session \in [Attempts -> Sessions \cup {NULL}]
    BY DEF IInv, TypeOK, Phases
  <2>5. CASE at' = at /\ session' = session
    BY <2>1, <2>2, <2>4, <2>5
  <2>6. CASE /\ at' = [at EXCEPT ![d] = "looking"]
             /\ session' = [session EXCEPT ![d] = s]
    BY <2>1, <2>2, <2>3, <2>4, <2>6
  <2> QED
    BY <1>w, <2>5, <2>6
<1>k. Discards' /\ CancelledOnce' /\ Budget' /\ NoResultLost' /\
      NothingQueuedForGone'
  BY <1>0
    DEF IInv, Discards, CancelledOnce, Budget, Held, NoResultLost,
        NothingQueuedForGone
<1>1. TypeOK'
  <2>1. ASSUME NEW e \in Attempts
        PROVE  /\ at'[e] # "free" => session'[e] # NULL
               /\ hand'[e] \subseteq
                     {x \in Tasks : SessionOf[x] = session'[e]}
               /\ (hand'[e] # {})
                     <=> (at'[e] \in {"holding", "turn", "requeueing"})
    <3>1. CASE e # d
      BY <3>1, <1>0, <1>t DEF IInv, TypeOK
    <3>2. CASE e = d
      BY <3>2, <1>0, <1>t DEF IInv, TypeOK
    <3> QED
      BY <3>1, <3>2
  <2> QED
    BY <2>1, <1>0, <1>t DEF IInv, TypeOK
<1>2. Slotted'
  BY <1>0, <1>t DEF IInv, TypeOK, Slotted, Owning, Wake, Goto
<1>3. OneDeliveryPerSession'
  BY <1>0, <1>t DEF IInv, TypeOK, OneDeliveryPerSession, Owning, Wake, Goto
<1> QED
  BY <1>k, <1>1, <1>2, <1>3 DEF IInv

LEMMA LookKeeps ==
    ASSUME IInv, NEW d \in Attempts, Look(d)
    PROVE  IInv'
<1>0. UNCHANGED <<turns, begun, bus, busy, sleeping, slots, session, hand,
                  pending, tombs, collected, agent, usable, entry,
                  cancelling, deletion, purge, left, gone, recorded,
                  delivered, cancelled>>
  BY
    DEF Look, Goto, turnVars, deliveryVars, queueVars, agentVars,
        threadVars, QuietVars
<1>t. /\ at[d] = "looking" /\ at' \in [Attempts -> Phases]
      /\ \A e \in Attempts : e # d => at'[e] = at[e]
      /\ at'[d] \in {"free", "claiming"}
  BY DEF Look, Goto, Phases, IInv, TypeOK
<1>k. Discards' /\ CancelledOnce' /\ Budget' /\ NoResultLost' /\
      NothingQueuedForGone'
  BY <1>0
    DEF IInv, Discards, CancelledOnce, Budget, Held, NoResultLost,
        NothingQueuedForGone
<1>1. TypeOK'
  <2>1. ASSUME NEW e \in Attempts
        PROVE  /\ at'[e] # "free" => session'[e] # NULL
               /\ hand'[e] \subseteq
                     {x \in Tasks : SessionOf[x] = session'[e]}
               /\ (hand'[e] # {})
                     <=> (at'[e] \in {"holding", "turn", "requeueing"})
    <3>1. CASE e # d
      BY <3>1, <1>0, <1>t DEF IInv, TypeOK
    <3>2. CASE e = d
      BY <3>2, <1>0, <1>t DEF IInv, TypeOK
    <3> QED
      BY <3>1, <3>2
  <2> QED
    BY <2>1, <1>0, <1>t DEF IInv, TypeOK
<1>2. Slotted'
  BY <1>0, <1>t DEF IInv, TypeOK, Slotted, Owning, Look, Goto
<1>3. OneDeliveryPerSession'
  BY <1>0, <1>t DEF IInv, TypeOK, OneDeliveryPerSession, Owning, Look, Goto
<1> QED
  BY <1>k, <1>1, <1>2, <1>3 DEF IInv

LEMMA ClaimSlotKeeps ==
    ASSUME IInv, NEW d \in Attempts, ClaimSlot(d)
    PROVE  IInv'
<1>0. UNCHANGED <<turns, begun, bus, busy, sleeping, session, hand, pending,
                  tombs, collected, agent, usable, entry, cancelling,
                  deletion, purge, left, gone, recorded, delivered,
                  cancelled>>
  BY
    DEF ClaimSlot, Goto, turnVars, deliveryVars, queueVars, agentVars,
        threadVars, QuietVars
<1>t. /\ at[d] = "claiming" /\ at' \in [Attempts -> Phases]
      /\ \A e \in Attempts : e # d => at'[e] = at[e]
      /\ at'[d] \in {"free", "claimed"}
  BY DEF ClaimSlot, Goto, Phases, IInv, TypeOK
<1>k. Discards' /\ CancelledOnce' /\ Budget' /\ NoResultLost' /\
      NothingQueuedForGone'
  BY <1>0
    DEF IInv, Discards, CancelledOnce, Budget, Held, NoResultLost,
        NothingQueuedForGone
<1>1. TypeOK'
  <2>1. ASSUME NEW e \in Attempts
        PROVE  /\ at'[e] # "free" => session'[e] # NULL
               /\ hand'[e] \subseteq
                     {x \in Tasks : SessionOf[x] = session'[e]}
               /\ (hand'[e] # {})
                     <=> (at'[e] \in {"holding", "turn", "requeueing"})
    <3>1. CASE e # d
      BY <3>1, <1>0, <1>t DEF IInv, TypeOK
    <3>2. CASE e = d
      BY <3>2, <1>0, <1>t DEF IInv, TypeOK
    <3> QED
      BY <3>1, <3>2
  <2> QED
    BY <2>1, <1>0, <1>t DEF IInv, TypeOK, ClaimSlot
<1>2. Slotted'
  BY <1>0, <1>t DEF IInv, TypeOK, Slotted, Owning, ClaimSlot, Goto
<1>3. OneDeliveryPerSession'
  <2>1. \A e \in Attempts :
           (at'[d] \in Owning /\ at[e] \in Owning /\ e # d)
              => session[e] # session[d]
    BY <1>t DEF ClaimSlot, Goto, Owning, IInv, TypeOK, Slotted
  <2> QED
    BY <1>0, <1>t, <2>1 DEF IInv, TypeOK, OneDeliveryPerSession, Owning
<1> QED
  BY <1>k, <1>1, <1>2, <1>3 DEF IInv

LEMMA CheckIdleKeeps ==
    ASSUME IInv, NEW d \in Attempts, CheckIdle(d)
    PROVE  IInv'
<1>0. UNCHANGED <<turns, begun, bus, busy, sleeping, slots, session, hand,
                  pending, tombs, collected, agent, usable, entry,
                  cancelling, deletion, purge, left, gone, recorded,
                  delivered, cancelled>>
  BY
    DEF CheckIdle, Goto, turnVars, deliveryVars, queueVars, agentVars,
        threadVars, QuietVars
<1>t. /\ at[d] = "claimed" /\ at' \in [Attempts -> Phases]
      /\ \A e \in Attempts : e # d => at'[e] = at[e]
      /\ at'[d] \in {"releasing", "draining"}
  BY DEF CheckIdle, Goto, Phases, IInv, TypeOK
<1>k. Discards' /\ CancelledOnce' /\ Budget' /\ NoResultLost' /\
      NothingQueuedForGone'
  BY <1>0
    DEF IInv, Discards, CancelledOnce, Budget, Held, NoResultLost,
        NothingQueuedForGone
<1>1. TypeOK'
  <2>1. ASSUME NEW e \in Attempts
        PROVE  /\ at'[e] # "free" => session'[e] # NULL
               /\ hand'[e] \subseteq
                     {x \in Tasks : SessionOf[x] = session'[e]}
               /\ (hand'[e] # {})
                     <=> (at'[e] \in {"holding", "turn", "requeueing"})
    <3>1. CASE e # d
      BY <3>1, <1>0, <1>t DEF IInv, TypeOK
    <3>2. CASE e = d
      BY <3>2, <1>0, <1>t DEF IInv, TypeOK
    <3> QED
      BY <3>1, <3>2
  <2> QED
    BY <2>1, <1>0, <1>t DEF IInv, TypeOK
<1>2. Slotted'
  BY <1>0, <1>t DEF IInv, TypeOK, Slotted, Owning, CheckIdle, Goto
<1>3. OneDeliveryPerSession'
  BY <1>0, <1>t
    DEF IInv, TypeOK, OneDeliveryPerSession, Owning, CheckIdle, Goto
<1> QED
  BY <1>k, <1>1, <1>2, <1>3 DEF IInv

LEMMA DrainKeeps ==
    ASSUME IInv, NEW d \in Attempts, Drain(d)
    PROVE  IInv'
<1>0. UNCHANGED <<turns, begun, bus, busy, sleeping, slots, session, tombs,
                  collected, agent, usable, entry, cancelling, deletion,
                  purge, left, gone, recorded, delivered, cancelled>>
  BY
    DEF Drain, Goto, turnVars, deliveryVars, queueVars, agentVars,
        threadVars, QuietVars
<1>t. /\ at[d] = "draining" /\ at' \in [Attempts -> Phases]
      /\ \A e \in Attempts : e # d => at'[e] = at[e]
      /\ at'[d] \in {"releasing", "holding"}
  BY DEF Drain, Goto, Phases, IInv, TypeOK
<1>h. /\ hand' = [hand EXCEPT ![d] = pending \cap Of(session[d])]
      /\ (at'[d] = "holding") <=> (pending \cap Of(session[d]) # {})
  BY DEF Drain, Goto, IInv, TypeOK
<1>i. /\ hand' \in [Attempts -> SUBSET Tasks]
      /\ \A e \in Attempts : e # d => hand'[e] = hand[e]
      /\ hand'[d] = pending \cap Of(session[d])
  BY <1>h DEF IInv, TypeOK
<1>k. Discards' /\ CancelledOnce'
  BY <1>0 DEF IInv, Discards, CancelledOnce
<1>1. TypeOK'
  <2>1. ASSUME NEW e \in Attempts
        PROVE  /\ at'[e] # "free" => session'[e] # NULL
               /\ hand'[e] \subseteq
                     {x \in Tasks : SessionOf[x] = session'[e]}
               /\ (hand'[e] # {})
                     <=> (at'[e] \in {"holding", "turn", "requeueing"})
    <3>1. CASE e # d
      BY <3>1, <1>0, <1>t, <1>h, <1>i DEF IInv, TypeOK
    <3>2. CASE e = d
      BY <3>2, <1>0, <1>t, <1>h, <1>i DEF IInv, TypeOK, Of
    <3> QED
      BY <3>1, <3>2
  <2> QED
    BY <2>1, <1>0, <1>t, <1>h, <1>i DEF IInv, TypeOK, Drain
<1>2. Slotted'
  BY <1>0, <1>t, <1>h, <1>i DEF IInv, TypeOK, Slotted, Owning, Drain, Goto
<1>3. OneDeliveryPerSession'
  BY <1>0, <1>t, <1>h, <1>i
    DEF IInv, TypeOK, OneDeliveryPerSession, Owning, Drain, Goto
<1>4. Budget'
  <2> SUFFICES ASSUME NEW x \in Tasks
               PROVE  (delivered[x] + One(x \in pending) + One(Held(x))
                         + One(agent[x] \in Unrecorded)
                         + One(x \in cancelling) <= 1 + One(x \in cancelled))'
    BY DEF Budget
  <2>1. /\ delivered[x] \in Nat
        /\ delivered[x] + One(x \in pending) + One(Held(x))
              + One(agent[x] \in Unrecorded) + One(x \in cancelling)
             <= 1 + One(x \in cancelled)
    BY DEF IInv, TypeOK, Budget
  <2>2. CASE x \in pending /\ SessionOf[x] = session[d]
    <3>1. x \notin pending' /\ x \in pending
      BY <2>2 DEF Drain, Of
    <3> QED
      BY <1>0, <2>1, <3>1 DEF One
  <2>3. CASE ~(x \in pending /\ SessionOf[x] = session[d])
    <3>1. x \in pending' <=> x \in pending
      BY <2>3 DEF Drain, Of
    <3>2. Held(x)' => Held(x)
      BY <1>i, <2>3 DEF Held, Of
    <3> QED
      BY <1>0, <2>1, <3>1, <3>2 DEF One
  <2> QED
    BY <2>2, <2>3
<1>5. NoResultLost'
  BY <1>0, <1>t, <1>h, <1>i DEF IInv, TypeOK, NoResultLost, Drain, Goto
<1>6. NothingQueuedForGone'
  BY <1>0, <1>t, <1>h, <1>i DEF IInv, TypeOK, NothingQueuedForGone, Drain, Goto
<1> QED
  BY <1>k, <1>1, <1>2, <1>3, <1>4, <1>5, <1>6 DEF IInv

LEMMA RecheckKeeps ==
    ASSUME IInv, NEW d \in Attempts, Recheck(d)
    PROVE  IInv'
<1>0. UNCHANGED <<turns, begun, bus, busy, sleeping, slots, session, hand,
                  pending, tombs, collected, agent, usable, entry,
                  cancelling, deletion, purge, left, gone, recorded,
                  delivered, cancelled>>
  BY
    DEF Recheck, Goto, turnVars, deliveryVars, queueVars, agentVars,
        threadVars, QuietVars
<1>t. /\ at[d] = "holding" /\ at' \in [Attempts -> Phases]
      /\ \A e \in Attempts : e # d => at'[e] = at[e]
      /\ at'[d] \in {"requeueing", "turn"}
  BY DEF Recheck, Goto, Phases, IInv, TypeOK
<1>k. Discards' /\ CancelledOnce' /\ Budget' /\ NoResultLost' /\
      NothingQueuedForGone'
  BY <1>0
    DEF IInv, Discards, CancelledOnce, Budget, Held, NoResultLost,
        NothingQueuedForGone
<1>1. TypeOK'
  <2>1. ASSUME NEW e \in Attempts
        PROVE  /\ at'[e] # "free" => session'[e] # NULL
               /\ hand'[e] \subseteq
                     {x \in Tasks : SessionOf[x] = session'[e]}
               /\ (hand'[e] # {})
                     <=> (at'[e] \in {"holding", "turn", "requeueing"})
    <3>1. CASE e # d
      BY <3>1, <1>0, <1>t DEF IInv, TypeOK
    <3>2. CASE e = d
      BY <3>2, <1>0, <1>t DEF IInv, TypeOK
    <3> QED
      BY <3>1, <3>2
  <2> QED
    BY <2>1, <1>0, <1>t DEF IInv, TypeOK
<1>2. Slotted'
  BY <1>0, <1>t DEF IInv, TypeOK, Slotted, Owning, Recheck, Goto
<1>3. OneDeliveryPerSession'
  BY <1>0, <1>t DEF IInv, TypeOK, OneDeliveryPerSession, Owning, Recheck, Goto
<1> QED
  BY <1>k, <1>1, <1>2, <1>3 DEF IInv

LEMMA TurnDoneKeeps ==
    ASSUME IInv, NEW d \in Attempts, TurnDone(d)
    PROVE  IInv'
<1>0. UNCHANGED <<turns, begun, bus, busy, sleeping, slots, session,
                  pending, tombs, collected, agent, usable, entry,
                  cancelling, deletion, purge, left, gone, recorded,
                  cancelled>>
  BY
    DEF TurnDone, Goto, turnVars, deliveryVars, queueVars, agentVars,
        threadVars, QuietVars
<1>t. /\ at[d] = "turn" /\ at' \in [Attempts -> Phases]
      /\ \A e \in Attempts : e # d => at'[e] = at[e]
      /\ at'[d] \in {"releasing"}
  BY DEF TurnDone, Goto, Phases, IInv, TypeOK
<1>h. hand' = [hand EXCEPT ![d] = {}]
  BY DEF TurnDone, Goto, IInv, TypeOK
<1>i. /\ hand' \in [Attempts -> SUBSET Tasks]
      /\ \A e \in Attempts : e # d => hand'[e] = hand[e]
      /\ hand'[d] = {}
  BY <1>h DEF IInv, TypeOK
<1>c. /\ delivered' \in [Tasks -> Nat]
      /\ \A t \in Tasks : delivered'[t] = IF t \in hand[d] THEN delivered[t] + 1
                                           ELSE delivered[t]
  BY DEF TurnDone, IInv, TypeOK
<1>k. Discards' /\ CancelledOnce' /\ NothingQueuedForGone'
  BY <1>0 DEF IInv, Discards, CancelledOnce, NothingQueuedForGone
<1>1. TypeOK'
  <2>1. ASSUME NEW e \in Attempts
        PROVE  /\ at'[e] # "free" => session'[e] # NULL
               /\ hand'[e] \subseteq
                     {x \in Tasks : SessionOf[x] = session'[e]}
               /\ (hand'[e] # {})
                     <=> (at'[e] \in {"holding", "turn", "requeueing"})
    <3>1. CASE e # d
      BY <3>1, <1>0, <1>t, <1>h, <1>i DEF IInv, TypeOK
    <3>2. CASE e = d
      BY <3>2, <1>0, <1>t, <1>h, <1>i DEF IInv, TypeOK
    <3> QED
      BY <3>1, <3>2
  <2> QED
    BY <2>1, <1>0, <1>t, <1>h, <1>i, <1>c DEF IInv, TypeOK
<1>2. Slotted'
  BY <1>0, <1>t, <1>h, <1>i, <1>c
    DEF IInv, TypeOK, Slotted, Owning, TurnDone, Goto
<1>3. OneDeliveryPerSession'
  BY <1>0, <1>t, <1>h, <1>i, <1>c
    DEF IInv, TypeOK, OneDeliveryPerSession, Owning, TurnDone, Goto
<1>4. Budget'
  <2> SUFFICES ASSUME NEW x \in Tasks
               PROVE  (delivered[x] + One(x \in pending) + One(Held(x))
                         + One(agent[x] \in Unrecorded)
                         + One(x \in cancelling) <= 1 + One(x \in cancelled))'
    BY DEF Budget
  <2>1. /\ delivered[x] \in Nat
        /\ delivered[x] + One(x \in pending) + One(Held(x))
              + One(agent[x] \in Unrecorded) + One(x \in cancelling)
             <= 1 + One(x \in cancelled)
    BY DEF IInv, TypeOK, Budget
  <2>2. CASE x \in hand[d]
    <3>1. Held(x)
      BY <2>2 DEF Held
    <3>2. ~Held(x)'
      <4>1. SessionOf[x] = session[d]
        BY <2>2 DEF IInv, TypeOK
      <4>2. \A e \in Attempts : x \in hand[e] => e = d
        BY <1>t, <4>1, HeldOnce DEF IInv, Owning
      <4> QED
        BY <1>i, <4>2 DEF Held
    <3>3. delivered'[x] = delivered[x] + 1
      BY <1>c, <2>2
    <3> QED
      BY <1>0, <2>1, <3>1, <3>2, <3>3 DEF One
  <2>3. CASE x \notin hand[d]
    <3>1. Held(x)' => Held(x)
      BY <1>i, <2>3 DEF Held
    <3>2. delivered'[x] = delivered[x]
      BY <1>c, <2>3
    <3> QED
      BY <1>0, <2>1, <3>1, <3>2 DEF One
  <2> QED
    BY <2>2, <2>3
<1>5. NoResultLost'
  BY <1>0, <1>t, <1>h, <1>i, <1>c
    DEF IInv, TypeOK, NoResultLost, TurnDone, Goto
<1> QED
  BY <1>k, <1>1, <1>2, <1>3, <1>4, <1>5 DEF IInv

LEMMA TurnFailsKeeps ==
    ASSUME IInv, NEW d \in Attempts, TurnFails(d)
    PROVE  IInv'
<1>0. UNCHANGED <<turns, begun, bus, busy, sleeping, slots, session, hand,
                  pending, tombs, collected, agent, usable, entry,
                  cancelling, deletion, purge, left, gone, recorded,
                  delivered, cancelled>>
  BY
    DEF TurnFails, Goto, turnVars, deliveryVars, queueVars, agentVars,
        threadVars, QuietVars
<1>t. /\ at[d] = "turn" /\ at' \in [Attempts -> Phases]
      /\ \A e \in Attempts : e # d => at'[e] = at[e]
      /\ at'[d] \in {"requeueing"}
  BY DEF TurnFails, Goto, Phases, IInv, TypeOK
<1>k. Discards' /\ CancelledOnce' /\ Budget' /\ NoResultLost' /\
      NothingQueuedForGone'
  BY <1>0
    DEF IInv, Discards, CancelledOnce, Budget, Held, NoResultLost,
        NothingQueuedForGone
<1>1. TypeOK'
  <2>1. ASSUME NEW e \in Attempts
        PROVE  /\ at'[e] # "free" => session'[e] # NULL
               /\ hand'[e] \subseteq
                     {x \in Tasks : SessionOf[x] = session'[e]}
               /\ (hand'[e] # {})
                     <=> (at'[e] \in {"holding", "turn", "requeueing"})
    <3>1. CASE e # d
      BY <3>1, <1>0, <1>t DEF IInv, TypeOK
    <3>2. CASE e = d
      BY <3>2, <1>0, <1>t DEF IInv, TypeOK
    <3> QED
      BY <3>1, <3>2
  <2> QED
    BY <2>1, <1>0, <1>t DEF IInv, TypeOK
<1>2. Slotted'
  BY <1>0, <1>t DEF IInv, TypeOK, Slotted, Owning, TurnFails, Goto
<1>3. OneDeliveryPerSession'
  BY <1>0, <1>t
    DEF IInv, TypeOK, OneDeliveryPerSession, Owning, TurnFails, Goto
<1> QED
  BY <1>k, <1>1, <1>2, <1>3 DEF IInv

LEMMA RequeueKeeps ==
    ASSUME IInv, NEW d \in Attempts, NEW t \in Tasks, Requeue(d, t)
    PROVE  IInv'
<1>0. UNCHANGED <<turns, begun, bus, busy, sleeping, slots, session, tombs,
                  collected, agent, usable, entry, cancelling, deletion,
                  purge, left, gone, delivered, cancelled>>
  BY
    DEF Requeue, Goto, turnVars, deliveryVars, queueVars, agentVars,
        threadVars, QuietVars
<1>t. /\ at[d] = "requeueing" /\ at' \in [Attempts -> Phases]
      /\ \A e \in Attempts : e # d => at'[e] = at[e]
      /\ at'[d] \in {"releasing", "requeueing"}
  BY DEF Requeue, Goto, Phases, IInv, TypeOK
<1>h. /\ t \in hand[d] /\ hand' = [hand EXCEPT ![d] = @ \ {t}]
      /\ (at'[d] = "requeueing") <=> (hand[d] \ {t} # {})
  BY DEF Requeue, Goto, IInv, TypeOK
<1>i. /\ hand' \in [Attempts -> SUBSET Tasks]
      /\ \A e \in Attempts : e # d => hand'[e] = hand[e]
      /\ hand'[d] = hand[d] \ {t}
  BY <1>h DEF IInv, TypeOK
<1>s. /\ pending' = pending \cup {t} \/ pending' = pending
      /\ pending' \subseteq Tasks /\ recorded' \subseteq Tasks
      /\ t \in pending' \/ t \in collected \/ Thread(t) \in gone
      /\ t \in pending' => t \in pending \/ Accepts(t)
      /\ \A x \in recorded' : x \in recorded \/ (x = t /\ t \in pending')
  BY RecordFacts DEF Requeue
<1>k. Discards' /\ CancelledOnce'
  BY <1>0 DEF IInv, Discards, CancelledOnce
<1>1. TypeOK'
  <2>1. ASSUME NEW e \in Attempts
        PROVE  /\ at'[e] # "free" => session'[e] # NULL
               /\ hand'[e] \subseteq
                     {x \in Tasks : SessionOf[x] = session'[e]}
               /\ (hand'[e] # {})
                     <=> (at'[e] \in {"holding", "turn", "requeueing"})
    <3>1. CASE e # d
      BY <3>1, <1>0, <1>t, <1>h, <1>i DEF IInv, TypeOK
    <3>2. CASE e = d
      BY <3>2, <1>0, <1>t, <1>h, <1>i DEF IInv, TypeOK
    <3> QED
      BY <3>1, <3>2
  <2> QED
    BY <2>1, <1>0, <1>t, <1>h, <1>i, <1>s DEF IInv, TypeOK
<1>2. Slotted'
  BY <1>0, <1>t, <1>h, <1>i, <1>s
    DEF IInv, TypeOK, Slotted, Owning, Requeue, Goto
<1>3. OneDeliveryPerSession'
  BY <1>0, <1>t, <1>h, <1>i, <1>s
    DEF IInv, TypeOK, OneDeliveryPerSession, Owning, Requeue, Goto
<1>4. Budget'
  <2> SUFFICES ASSUME NEW x \in Tasks
               PROVE  (delivered[x] + One(x \in pending) + One(Held(x))
                         + One(agent[x] \in Unrecorded)
                         + One(x \in cancelling) <= 1 + One(x \in cancelled))'
    BY DEF Budget
  <2>1. /\ delivered[x] \in Nat
        /\ delivered[x] + One(x \in pending) + One(Held(x))
              + One(agent[x] \in Unrecorded) + One(x \in cancelling)
             <= 1 + One(x \in cancelled)
    BY DEF IInv, TypeOK, Budget
  <2>2. CASE x = t
    <3>1. Held(x)
      BY <1>h, <2>2 DEF Held
    <3>2. ~Held(x)'
      <4>1. SessionOf[x] = session[d]
        BY <1>h, <2>2 DEF IInv, TypeOK
      <4>2. \A e \in Attempts : x \in hand[e] => e = d
        BY <1>t, <4>1, HeldOnce DEF IInv, Owning
      <4> QED
        BY <1>i, <2>2, <4>2 DEF Held
    <3> QED
      BY <1>0, <2>1, <3>1, <3>2 DEF One
  <2>3. CASE x # t
    <3>1. Held(x)' => Held(x)
      BY <1>i, <2>3 DEF Held
    <3>2. x \in pending' => x \in pending
      BY <1>s, <2>3
    <3> QED
      BY <1>0, <2>1, <3>1, <3>2 DEF One
  <2> QED
    BY <2>2, <2>3
<1>5. NoResultLost'
  BY <1>0, <1>t, <1>h, <1>i, <1>s DEF IInv, TypeOK, NoResultLost, Requeue, Goto
<1>6. NothingQueuedForGone'
  <2>1. UNCHANGED <<collected, tombs>>
    BY <1>0
  <2> QED
    BY <1>s, <2>1 DEF IInv, NothingQueuedForGone, Accepts
<1> QED
  BY <1>k, <1>1, <1>2, <1>3, <1>4, <1>5, <1>6 DEF IInv

LEMMA ReleaseKeeps ==
    ASSUME IInv, NEW d \in Attempts, Release(d)
    PROVE  IInv'
<1>0. UNCHANGED <<turns, begun, bus, busy, sleeping, session, hand, pending,
                  tombs, collected, agent, usable, entry, cancelling,
                  deletion, purge, left, gone, recorded, delivered,
                  cancelled>>
  BY
    DEF Release, Goto, turnVars, deliveryVars, queueVars, agentVars,
        threadVars, QuietVars
<1>t. /\ at[d] = "releasing" /\ at' \in [Attempts -> Phases]
      /\ \A e \in Attempts : e # d => at'[e] = at[e]
      /\ at'[d] \in {"free"}
  BY DEF Release, Goto, Phases, IInv, TypeOK
<1>k. Discards' /\ CancelledOnce' /\ Budget' /\ NoResultLost' /\
      NothingQueuedForGone'
  BY <1>0
    DEF IInv, Discards, CancelledOnce, Budget, Held, NoResultLost,
        NothingQueuedForGone
<1>1. TypeOK'
  <2>1. ASSUME NEW e \in Attempts
        PROVE  /\ at'[e] # "free" => session'[e] # NULL
               /\ hand'[e] \subseteq
                     {x \in Tasks : SessionOf[x] = session'[e]}
               /\ (hand'[e] # {})
                     <=> (at'[e] \in {"holding", "turn", "requeueing"})
    <3>1. CASE e # d
      BY <3>1, <1>0, <1>t DEF IInv, TypeOK
    <3>2. CASE e = d
      BY <3>2, <1>0, <1>t DEF IInv, TypeOK
    <3> QED
      BY <3>1, <3>2
  <2> QED
    BY <2>1, <1>0, <1>t DEF IInv, TypeOK, Release
<1>2. Slotted'
  <2>1. \A e \in Attempts :
           (at[e] \in Owning /\ e # d) => session[e] # session[d]
    BY <1>t DEF IInv, OneDeliveryPerSession, Owning
  <2>2. slots' = slots \ {session[d]}
    BY DEF Release
  <2> QED
    BY <1>0, <1>t, <2>1, <2>2 DEF IInv, TypeOK, Slotted, Owning
<1>3. OneDeliveryPerSession'
  BY <1>0, <1>t DEF IInv, TypeOK, OneDeliveryPerSession, Owning, Release, Goto
<1> QED
  BY <1>k, <1>1, <1>2, <1>3 DEF IInv

LEMMA InitIInv == Init => IInv
<1> SUFFICES ASSUME Init PROVE IInv
  OBVIOUS
<1>1. TypeOK
  <2>1. << >> \in Seq(Kinds \X Sessions)
    OBVIOUS
  <2> QED
    BY <2>1 DEF Init, TypeOK, Kinds, Phases, Stages
<1>2. Slotted /\ OneDeliveryPerSession /\ Discards /\ CancelledOnce
  BY DEF Init, Slotted, OneDeliveryPerSession, Discards, CancelledOnce, Owning
<1>3. Budget
  <2>1. \A t \in Tasks : ~Held(t)
    BY DEF Init, Held
  <2> QED
    BY <2>1 DEF Init, Budget, One
<1>4. NoResultLost /\ NothingQueuedForGone
  BY DEF Init, NoResultLost, NothingQueuedForGone
<1> QED
  BY <1>1, <1>2, <1>3, <1>4 DEF IInv

LEMMA StutterKeeps == ASSUME IInv, UNCHANGED vars PROVE IInv'
<1>1. UNCHANGED <<turns, begun, bus, busy, sleeping, slots, at, session, hand,
                  pending, tombs, collected, agent, usable, entry, cancelling,
                  deletion, purge, left, gone, recorded, delivered, cancelled>>
  BY DEF vars, turnVars, deliveryVars, queueVars, agentVars, threadVars
<1>2. TypeOK'
  BY <1>1 DEF IInv, TypeOK
<1>3. Slotted' /\ OneDeliveryPerSession' /\ Discards' /\ CancelledOnce'
  BY <1>1 DEF IInv, Slotted, OneDeliveryPerSession, Discards, CancelledOnce
<1>4. Budget' /\ NoResultLost' /\ NothingQueuedForGone'
  BY <1>1 DEF IInv, Budget, Held, NoResultLost, NothingQueuedForGone
<1> QED
  BY <1>2, <1>3, <1>4 DEF IInv

LEMMA NextIInv == IInv /\ [Next]_vars => IInv'
<1> SUFFICES ASSUME IInv, [Next]_vars PROVE IInv'
  OBVIOUS
<1>1. CASE UNCHANGED vars
  BY <1>1, StutterKeeps
<1>2. ASSUME NEW s \in Sessions, TurnStep(s) PROVE IInv'
  BY <1>2, BeginTurnKeeps, RefuseTurnKeeps, EndTurnKeeps, DropTurnKeeps
    DEF TurnStep
<1>3. CASE Handle
  BY <1>3, HandleKeeps
<1>4. ASSUME NEW t \in Tasks,
             Spawn(t) \/ Register(t) \/ AgentStep(t) \/ Collect(t)
      PROVE  IInv'
  BY <1>4, SpawnKeeps, RegisterKeeps, SignalKeeps, RecordKeeps, AnnounceKeeps,
     CollectKeeps DEF AgentStep
<1>5. ASSUME NEW t \in Tasks, CancelStep(t) PROVE IInv'
  BY <1>5, CancelTaskKeeps, RecordCancelledKeeps DEF CancelStep
<1>6. ASSUME NEW th \in Threads, DeleteStep(th) PROVE IInv'
  BY <1>6, DeleteRowKeeps, AbortThreadKeeps, DiscardThreadKeeps
    DEF DeleteStep
<1>7. CASE PurgeStep
  BY <1>7, PurgeRowsKeeps, PurgeAbortKeeps, PurgeDiscardKeeps,
     PurgeClearKeeps DEF PurgeStep
<1>8. ASSUME NEW s \in Sessions, NEW d \in Attempts, Wake(s, d) PROVE IInv'
  BY <1>8, WakeKeeps
<1>9. ASSUME NEW d \in Attempts, DeliverStep(d) \/ TurnOfDelivery(d)
      PROVE  IInv'
  <2>1. CASE Look(d) \/ ClaimSlot(d) \/ CheckIdle(d) \/ Drain(d)
    BY <2>1, LookKeeps, ClaimSlotKeeps, CheckIdleKeeps, DrainKeeps
  <2>2. CASE Recheck(d) \/ Release(d) \/ TurnDone(d) \/ TurnFails(d)
    BY <2>2, RecheckKeeps, ReleaseKeeps, TurnDoneKeeps, TurnFailsKeeps
  <2>3. ASSUME NEW t \in Tasks, Requeue(d, t) PROVE IInv'
    BY <2>3, RequeueKeeps
  <2> QED
    BY <1>9, <2>1, <2>2, <2>3 DEF DeliverStep, TurnOfDelivery
<1> QED
  BY <1>1, <1>2, <1>3, <1>4, <1>5, <1>6, <1>7, <1>8, <1>9 DEF Next

LEMMA Invariance == Spec => []IInv
<1>1. Init => IInv
  BY InitIInv
<1>2. IInv /\ [Next]_vars => IInv'
  BY NextIInv
<1> QED
  BY <1>1, <1>2, PTL DEF Spec

-----------------------------------------------------------------------------
(* The queue, the registry, the slots and the attempts are what the code   *)
(* says they are in every state.                                           *)
THEOREM TypeCorrect == Spec => []TypeOK
<1>1. IInv => TypeOK
  BY DEF IInv
<1> QED
  BY <1>1, Invariance, PTL

(* However many attempts of a session overlap, one at most is past the     *)
(* claim of its delivery slot: "prevents two concurrent turns".            *)
THEOREM DeliveryIsExclusive == Spec => []OneDeliveryPerSession
<1>1. IInv => OneDeliveryPerSession
  BY DEF IInv
<1> QED
  BY <1>1, Invariance, PTL

(* No accepted result is dropped between the queue, an attempt and the     *)
(* chat, whatever turns, cancels, failures and deletions interleave.       *)
THEOREM ResultsKept == Spec => []NoResultLost
<1>1. IInv => NoResultLost
  BY DEF IInv
<1> QED
  BY <1>1, Invariance, PTL

(* The tombstones keep the queue free of results of discarded threads and  *)
(* of collected results, however late these are recorded or put back.      *)
THEOREM QueueStaysClean == Spec => []NothingQueuedForGone
<1>1. IInv => NothingQueuedForGone
  BY DEF IInv
<1> QED
  BY <1>1, Invariance, PTL

(* A result is carried by one system turn, by two when the user cancelled  *)
(* its sub-agent: what is still to come, queued, in hand and delivered     *)
(* adds up to no more than that (Budget).                                  *)
THEOREM DeliveredOnceEach == Spec => []DeliveredOnce
<1>1. ASSUME IInv PROVE DeliveredOnce
  <2> SUFFICES ASSUME NEW t \in Tasks
               PROVE  delivered[t] <= (IF t \in cancelled THEN 2 ELSE 1)
    BY DEF DeliveredOnce
  <2>1. delivered[t] \in Nat /\ \A b \in BOOLEAN : One(b) \in Nat
    BY <1>1 DEF IInv, TypeOK, One
  <2>2. delivered[t] <= 1 + One(t \in cancelled)
    <3>1. delivered[t] + One(t \in pending) + One(Held(t))
            + One(agent[t] \in Unrecorded) + One(t \in cancelling)
          <= 1 + One(t \in cancelled)
      BY <1>1 DEF IInv, Budget
    <3> QED
      BY <2>1, <3>1 DEF One
  <2> QED
    BY <2>2 DEF One
<1> QED
  BY <1>1, Invariance, PTL

-----------------------------------------------------------------------------
(* The promise of DeliveryContract is implemented.                         *)

LEMMA CarriedFacts ==
    ASSUME NEW s \in Sessions
    PROVE  \A t : t \in carried[s] <=>
              \E e \in Attempts : session[e] = s /\ t \in hand[e]
    BY DEF carried

(* The batch of a session is what its one attempt past the claim holds.    *)
LEMMA CarriedInHand ==
    ASSUME IInv, NEW d \in Attempts, at[d] \in Owning
    PROVE  session[d] \in Sessions /\ carried[session[d]] = hand[d]
<1>1. session[d] \in Sessions
  BY SessionsAssumption DEF IInv, TypeOK, Owning
<1>2. \A e \in Attempts : session[e] = session[d] => e = d \/ hand[e] = {}
  BY DEF IInv, TypeOK, OneDeliveryPerSession, Owning
<1>3. \A t : t \in carried[session[d]] <=> t \in hand[d]
  BY <1>1, <1>2, CarriedFacts
<1> QED
  BY <1>1, <1>3

LEMMA CarriedChanges ==
    ASSUME IInv, NEW d \in Attempts, at[d] \in Owning, session' = session,
           \A e \in Attempts \ {d} : hand'[e] = hand[e]
    PROVE  carried' = [carried EXCEPT ![session[d]] = hand'[d]]
<1>1. \A e \in Attempts : session[e] = session[d] => e = d \/ hand'[e] = {}
  BY DEF IInv, TypeOK, OneDeliveryPerSession, Owning
<1>2. carried'[session[d]] = hand'[d]
  <2>1. session[d] \in Sessions
    BY CarriedInHand
  <2>2. \A t : t \in carried'[session[d]] <=>
           \E e \in Attempts : session[e] = session[d] /\ t \in hand'[e]
    BY <2>1 DEF carried
  <2>3. \A t : t \in carried'[session[d]] <=> t \in hand'[d]
    BY <1>1, <2>2
  <2> QED
    BY <2>3
<1>3. ASSUME NEW s \in Sessions \ {session[d]} PROVE carried'[s] = carried[s]
  BY <1>3 DEF carried
<1> QED
  BY <1>2, <1>3 DEF carried

(* An attempt that has nothing in hand may take up another session.        *)
LEMMA CarriedStays ==
    ASSUME hand' = hand,
           \A e \in Attempts : session'[e] = session[e] \/ hand[e] = {}
    PROVE  carried' = carried
<1>1. ASSUME NEW s \in Sessions PROVE carried'[s] = carried[s]
  BY <1>1 DEF carried
<1> QED
  BY <1>1 DEF carried

LEMMA QuietMaps ==
    ASSUME UNCHANGED <<pending, hand, session, delivered, collected, gone,
                       tombs>>
    PROVE  UNCHANGED Contract!vars
    BY CarriedStays DEF Contract!vars

LEMMA TurnMaps ==
    ASSUME (\E s \in Sessions : TurnStep(s)) \/ Handle
    PROVE  UNCHANGED Contract!vars
    BY QuietMaps DEF TurnStep, BeginTurn, RefuseTurn, EndTurn, DropTurn, Handle,
      deliveryVars, queueVars, threadVars

LEMMA RecordMaps ==
    ASSUME NEW t \in Tasks, RecordOutcome(t),
           UNCHANGED <<hand, session, delivered, collected, gone, tombs>>
    PROVE  [Contract!Accept(t)]_(Contract!vars)
<1>1. carried' = carried
  BY CarriedStays
<1>2. CASE Accepts(t)
  BY <1>1, <1>2 DEF RecordOutcome, Accepts, Thread, Contract!Accept,
    Contract!Open
<1>3. CASE ~Accepts(t)
  BY <1>1, <1>3 DEF RecordOutcome, Contract!vars
<1> QED
  BY <1>2, <1>3

LEMMA AgentMaps ==
    ASSUME NEW t \in Tasks,
           Spawn(t) \/ Register(t) \/ AgentStep(t) \/ Collect(t) \/ CancelStep(t)
    PROVE  [Contract!Next]_(Contract!vars)
<1>1. CASE Spawn(t) \/ Register(t) \/ Signal(t) \/ Announce(t) \/ CancelTask(t)
  <2>1. UNCHANGED <<pending, hand, session, delivered, collected, gone, tombs>>
    BY <1>1 DEF Spawn, Register, Signal, Announce, CancelTask, deliveryVars,
      queueVars, threadVars
  <2> QED
    BY <2>1, QuietMaps
<1>2. CASE Record(t) \/ RecordCancelled(t)
  <2>1. /\ RecordOutcome(t)
        /\ UNCHANGED <<hand, session, delivered, collected, gone, tombs>>
    BY <1>2 DEF Record, RecordCancelled, deliveryVars, threadVars
  <2> QED
    BY <2>1, RecordMaps DEF Contract!Next
<1>3. CASE Collect(t)
  <2>1. UNCHANGED <<hand, session, delivered, gone, tombs>>
    BY <1>3 DEF Collect, deliveryVars, threadVars
  <2>2. carried' = carried
    BY <2>1, CarriedStays
  <2>3. CASE t \in usable
    BY <1>3, <2>1, <2>2, <2>3 DEF Collect, Contract!Collect, Contract!Next
  <2>4. CASE t \notin usable
    BY <1>3, <2>1, <2>2, <2>4 DEF Collect, Contract!vars
  <2> QED
    BY <2>3, <2>4
<1> QED
  BY <1>1, <1>2, <1>3 DEF AgentStep, CancelStep

LEMMA TombstoneMaps ==
    ASSUME NEW th \in Threads, Tombstone(th), th \in gone,
           UNCHANGED <<hand, session, delivered, gone>>
    PROVE  Contract!Next
<1>1. carried' = carried
  BY CarriedStays
<1>2. Contract!Close(th)
  BY <1>1 DEF Tombstone, On, Thread, Contract!Close, Contract!On
<1> QED
  BY <1>2 DEF Contract!Next

LEMMA ThreadMaps ==
    ASSUME IInv, (\E th \in Threads : DeleteStep(th)) \/ PurgeStep
    PROVE  [Contract!Next]_(Contract!vars)
<1>1. UNCHANGED <<hand, session, delivered>> /\ carried' = carried
  <2>1. UNCHANGED deliveryVars
    BY DEF DeleteStep, DeleteRow, AbortThread, DiscardThread, PurgeStep,
      PurgeRows, PurgeAbort, PurgeDiscard, PurgeClear
  <2> QED
    BY <2>1, CarriedStays DEF deliveryVars
<1>2. ASSUME NEW th \in Threads, DeleteRow(th) PROVE Contract!Next
  <2>1. Contract!Delete({th})
    BY <1>1, <1>2 DEF DeleteRow, queueVars, Contract!Delete
  <2> QED
    BY <2>1 DEF Contract!Next
<1>3. CASE PurgeRows
  <2>1. gone' = gone \cup Threads
    BY <1>3 DEF PurgeRows, IInv, TypeOK
  <2>2. Contract!Delete(Threads)
    BY <1>1, <1>3, <2>1 DEF PurgeRows, queueVars, Contract!Delete
  <2> QED
    BY <2>2 DEF Contract!Next
<1>4. CASE PurgeAbort \/ \E th \in Threads : AbortThread(th)
  BY <1>1, <1>4 DEF PurgeAbort, AbortThread, queueVars, Contract!vars
<1>5. ASSUME NEW th \in Threads, DiscardThread(th) \/ PurgeDiscard(th)
      PROVE  Contract!Next
  <2>1. th \in gone /\ Tombstone(th) /\ gone' = gone
    BY <1>5 DEF DiscardThread, PurgeDiscard, IInv, Discards
  <2> QED
    BY <1>1, <2>1, TombstoneMaps
<1>6. CASE PurgeClear
  <2>1. Contract!Clear
    BY <1>1, <1>6 DEF PurgeClear, Contract!Clear, IInv, Discards
  <2> QED
    BY <2>1 DEF Contract!Next
<1> QED
  BY <1>2, <1>3, <1>4, <1>5, <1>6 DEF DeleteStep, PurgeStep

LEMMA WakeMaps ==
    ASSUME IInv, NEW s \in Sessions, NEW d \in Attempts, Wake(s, d)
    PROVE  UNCHANGED Contract!vars
<1>1. /\ UNCHANGED <<pending, hand, delivered, collected, gone, tombs>>
      /\ hand[d] = {}
  BY DEF Wake, queueVars, threadVars, IInv, TypeOK
<1>2. \A e \in Attempts : session'[e] = session[e] \/ hand[e] = {}
  BY <1>1 DEF Wake, IInv, TypeOK
<1> QED
  BY <1>1, <1>2, CarriedStays DEF Contract!vars

LEMMA DrainMaps ==
    ASSUME IInv, NEW d \in Attempts, Drain(d)
    PROVE  Contract!Next
<1>1. /\ at[d] \in Owning /\ hand[d] = {} /\ session' = session
      /\ hand' = [hand EXCEPT ![d] = pending \cap Of(session[d])]
      /\ pending' = pending \ Of(session[d])
      /\ UNCHANGED <<delivered, collected, gone, tombs>>
  BY DEF Drain, Owning, threadVars, IInv, TypeOK
<1>2. /\ session[d] \in Sessions /\ carried[session[d]] = {}
      /\ carried' = [carried EXCEPT ![session[d]] = pending \cap Of(session[d])]
  <2>1. /\ \A e \in Attempts \ {d} : hand'[e] = hand[e]
        /\ hand'[d] = pending \cap Of(session[d])
    BY <1>1 DEF IInv, TypeOK
  <2> QED
    BY <1>1, <2>1, CarriedInHand, CarriedChanges
<1>3. Contract!Take(session[d])
  BY <1>1, <1>2 DEF Of, Contract!Take, Contract!Carry, Contract!Of
<1> QED
  BY <1>2, <1>3 DEF Contract!Next

LEMMA TurnDoneMaps ==
    ASSUME IInv, NEW d \in Attempts, TurnDone(d)
    PROVE  Contract!Next
<1>1. /\ at[d] \in Owning /\ session' = session
      /\ hand' = [hand EXCEPT ![d] = {}]
      /\ delivered' = [t \in Tasks |-> IF t \in hand[d] THEN delivered[t] + 1
                                       ELSE delivered[t]]
      /\ UNCHANGED <<pending, collected, gone, tombs>>
  BY DEF TurnDone, Owning, QuietVars, queueVars, threadVars
<1>2. /\ session[d] \in Sessions /\ carried[session[d]] = hand[d]
      /\ carried' = [carried EXCEPT ![session[d]] = {}]
  <2>1. /\ \A e \in Attempts \ {d} : hand'[e] = hand[e]
        /\ hand'[d] = {}
    BY <1>1 DEF IInv, TypeOK
  <2> QED
    BY <1>1, <2>1, CarriedInHand, CarriedChanges
<1>3. Contract!Deliver(session[d])
  BY <1>1, <1>2 DEF Contract!Deliver, Contract!Carry
<1> QED
  BY <1>2, <1>3 DEF Contract!Next

LEMMA RequeueMaps ==
    ASSUME IInv, NEW d \in Attempts, NEW t \in Tasks, Requeue(d, t)
    PROVE  Contract!Next
<1>1. /\ at[d] \in Owning /\ session' = session /\ t \in hand[d]
      /\ hand' = [hand EXCEPT ![d] = @ \ {t}]
      /\ RecordOutcome(t)
      /\ UNCHANGED <<delivered, collected, gone, tombs>>
  BY DEF Requeue, Owning, threadVars
<1>2. /\ session[d] \in Sessions /\ carried[session[d]] = hand[d]
      /\ carried' = [carried EXCEPT ![session[d]] = hand[d] \ {t}]
  <2>1. /\ \A e \in Attempts \ {d} : hand'[e] = hand[e]
        /\ hand'[d] = hand[d] \ {t}
    BY <1>1 DEF IInv, TypeOK
  <2> QED
    BY <1>1, <2>1, CarriedInHand, CarriedChanges
<1>3. pending' = IF Contract!Open(t) THEN pending \cup {t} ELSE pending
  BY <1>1 DEF RecordOutcome, Accepts, Thread, Contract!Open
<1>4. Contract!PutBack(session[d], t)
  BY <1>1, <1>2, <1>3 DEF Contract!PutBack, Contract!Carry
<1> QED
  BY <1>2, <1>4 DEF Contract!Next

LEMMA DeliverMaps ==
    ASSUME IInv, NEW d \in Attempts, DeliverStep(d) \/ TurnOfDelivery(d)
    PROVE  [Contract!Next]_(Contract!vars)
<1>1. CASE Look(d) \/ ClaimSlot(d) \/ CheckIdle(d) \/ Recheck(d)
             \/ TurnFails(d) \/ Release(d)
  <2>1. UNCHANGED <<pending, hand, session, delivered, collected, gone, tombs>>
    BY <1>1 DEF Look, ClaimSlot, CheckIdle, Recheck, TurnFails, Release,
      QuietVars, queueVars, threadVars
  <2> QED
    BY <2>1, QuietMaps
<1> QED
  BY <1>1, DrainMaps, TurnDoneMaps, RequeueMaps DEF DeliverStep, TurnOfDelivery

LEMMA NextMaps ==
    ASSUME IInv, [Next]_vars
    PROVE  [Contract!Next]_(Contract!vars)
<1>1. CASE UNCHANGED vars
  BY <1>1, QuietMaps DEF vars, deliveryVars, queueVars, threadVars
<1> QED
  BY <1>1, TurnMaps, AgentMaps, ThreadMaps, WakeMaps, DeliverMaps DEF Next

(* Every step of the queue, the attempts and the sweeps is a step the      *)
(* delivery of results promises, or none.                                  *)
THEOREM ContractImplemented == Spec => ImplementsContract
<1>1. Init => Contract!Init
  BY DEF Init, Contract!Init, carried
<1>2. IInv /\ [Next]_vars => [Contract!Next]_(Contract!vars)
  BY NextMaps
<1> QED
  BY <1>1, <1>2, Invariance, PTL DEF Spec, ImplementsContract, Contract!Spec
===============================================================================
