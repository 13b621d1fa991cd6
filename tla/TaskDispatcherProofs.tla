------------------------- MODULE TaskDispatcherProofs -------------------------
(***************************************************************************)
(* Proofs about TaskDispatcher for any number of cards, runs and           *)
(* dispatchers, whatever the bounds and flags.                             *)
(***************************************************************************)
EXTENDS TaskDispatcher, TLAPS

(* A dispatcher between a claim and the launch has a run of its own, whose *)
(* task has not begun.                                                     *)
Launching == {p \in Procs : at[p] \in {"recording", "launching"}}
OwnRuns ==
    /\ \A p \in Launching : worker[run[p]] = "claimed"
    /\ \A p, q \in Launching : run[p] = run[q] => p = q

(* A run that was written back is out of the registry, and its task can    *)
(* write no more: it is over, or it will look for an entry and find none.  *)
Spent ==
    \A r \in Runs :
        /\ writers[r] <= 1
        /\ writers[r] = 1 =>
              /\ r \notin active
              /\ \/ worker[r] = "over"
                 \/ worker[r] \in {"ended ok", "ended err"} /\ r \in threaded

(* A card in progress is covered by a run whose write-back has not changed *)
(* the card yet: the run that claimed it last.  Without that a run whose   *)
(* record is about to be completed would seem to cover it.                 *)
CoveredBy(c, r) ==
    /\ cardOf[r] = c
    /\ write[r] \notin {"completing", "done"}
    /\ \/ record[r] = "active"
       \/ \E p \in Procs : at[p] \in {"recording", "reclaiming"} /\ run[p] = r
Covered == \A c \in InProgress : \E r \in Runs : CoveredBy(c, r)

IInv ==
    /\ TypeOK /\ OwnRuns /\ Spent
    /\ ~CrashAnywhere => Covered

LEMMA AgeKeeps ==
    ASSUME IInv, NEW r \in Runs, Age(r)
    PROVE  IInv'
<1>0. UNCHANGED <<card, record, cardOf, worker, threaded, active, write,
                  result, writers, at, listed, target, run, crashes,
                  requeues>>
  BY DEF Age, boardVars, runVars, procVars, bounds
<1>1. TypeOK'
  BY <1>0 DEF IInv, TypeOK, Age
<1>2. OwnRuns'
  BY <1>0 DEF IInv, OwnRuns, Launching
<1>3. Spent'
  BY <1>0 DEF IInv, Spent
<1>4. (~CrashAnywhere => Covered)'
  BY <1>0 DEF IInv, Covered, CoveredBy, InProgress
<1> QED
  BY <1>1, <1>2, <1>3, <1>4 DEF IInv

LEMMA FindStaleKeeps ==
    ASSUME IInv, NEW p \in Procs, FindStale(p)
    PROVE  IInv'
<1>0. UNCHANGED <<card, record, stale, cardOf, worker, threaded, active,
                  write, result, writers, target, run, crashes, requeues>>
  BY DEF FindStale, Goto, boardVars, runVars, procVars, bounds
<1>k. Spent'
  BY <1>0 DEF IInv, Spent
<1>1. TypeOK'
  BY <1>0 DEF IInv, TypeOK, FindStale, Goto
<1>2. OwnRuns'
  BY <1>0 DEF IInv, TypeOK, OwnRuns, Launching, FindStale, Goto
<1>3. (~CrashAnywhere => Covered)'
  BY <1>0 DEF IInv, TypeOK, Covered, CoveredBy, InProgress, FindStale, Goto
<1> QED
  BY <1>k, <1>1, <1>2, <1>3 DEF IInv

LEMMA ReclaimRecordKeeps ==
    ASSUME IInv, NEW p \in Procs, NEW r \in Runs, ReclaimRecord(p, r)
    PROVE  IInv'
<1>0. UNCHANGED <<card, stale, cardOf, worker, threaded, active, write,
                  result, writers, target, crashes, requeues>>
  BY DEF ReclaimRecord, Goto, boardVars, runVars, procVars, bounds
<1>k. Spent'
  BY <1>0 DEF IInv, Spent
<1>1. TypeOK'
  <2>1. cardOf[r] # NULL
    BY DEF ReclaimRecord, IInv, TypeOK
  <2>2. /\ listed' \in [Procs -> SUBSET Runs]
        /\ \A q \in Procs : listed'[q] \subseteq listed[q]
    BY DEF ReclaimRecord, IInv, TypeOK
  <2>3. CASE record[r] = "active"
    <3>1. /\ record' = [record EXCEPT ![r] = "reclaimed"]
          /\ run' = [run EXCEPT ![p] = r]
          /\ at' = [at EXCEPT ![p] = "reclaiming"]
      BY <2>3 DEF ReclaimRecord, Goto
    <3>2. record' \in [Runs -> {"none", "active"} \cup Outcomes]
          /\ \A x \in Runs : record'[x] # "none" => record[x] # "none"
      BY <2>3, <3>1 DEF IInv, TypeOK, Outcomes
    <3>3. /\ run' \in [Procs -> Runs \cup {NULL}]
          /\ \A q \in Procs :
                at'[q] \in {"reclaiming", "recording", "launching"}
                   => run'[q] # NULL /\ cardOf[run'[q]] # NULL
      BY <2>1, <3>1, BoardAssumption DEF IInv, TypeOK
    <3>4. /\ at' \in [Procs -> {"idle", "done", "sweeping", "reclaiming",
                            "parking", "claiming", "recording", "launching",
                            "gating"}]
          /\ \A q \in Procs :
                at'[q] \in {"parking", "claiming", "recording", "launching",
                           "gating"} => target[q] # NULL
      BY <3>1 DEF IInv, TypeOK
    <3> QED
      BY <1>0, <2>2, <3>2, <3>3, <3>4 DEF IInv, TypeOK
  <2>4. CASE record[r] # "active"
    <3>1. UNCHANGED <<record, run, at>>
      BY <2>4 DEF ReclaimRecord
    <3> QED
      BY <1>0, <2>2, <3>1 DEF IInv, TypeOK
  <2> QED
    BY <2>3, <2>4
<1>2. OwnRuns'
  BY <1>0 DEF IInv, TypeOK, OwnRuns, Launching, ReclaimRecord, Goto
<1>3. (~CrashAnywhere => Covered)'
  BY <1>0 DEF IInv, TypeOK, Covered, CoveredBy, InProgress, ReclaimRecord, Goto
<1> QED
  BY <1>k, <1>1, <1>2, <1>3 DEF IInv

LEMMA ReclaimCardKeeps ==
    ASSUME IInv, NEW p \in Procs, ReclaimCard(p)
    PROVE  IInv'
<1>0. UNCHANGED <<record, stale, cardOf, worker, threaded, active, write,
                  result, writers, listed, target, crashes, requeues>>
  BY DEF ReclaimCard, Goto, SetCard, boardVars, runVars, procVars, bounds
<1>k. Spent'
  BY <1>0 DEF IInv, Spent
<1>1. TypeOK'
  BY <1>0 DEF IInv, TypeOK, ReclaimCard, Goto, SetCard, Statuses
<1>2. OwnRuns'
  BY <1>0 DEF IInv, TypeOK, OwnRuns, Launching, ReclaimCard, Goto, SetCard
<1>3. (~CrashAnywhere => Covered)'
  BY <1>0
    DEF IInv, TypeOK, Covered, CoveredBy, InProgress, ReclaimCard, Goto,
        SetCard
<1> QED
  BY <1>k, <1>1, <1>2, <1>3 DEF IInv

LEMMA EndSweepKeeps ==
    ASSUME IInv, NEW p \in Procs, EndSweep(p)
    PROVE  IInv'
<1>0. UNCHANGED <<card, record, stale, cardOf, worker, threaded, active,
                  write, result, writers, listed, target, run, crashes,
                  requeues>>
  BY DEF EndSweep, Goto, boardVars, runVars, procVars, bounds
<1>k. Spent'
  BY <1>0 DEF IInv, Spent
<1>1. TypeOK'
  BY <1>0 DEF IInv, TypeOK, EndSweep, Goto
<1>2. OwnRuns'
  BY <1>0 DEF IInv, TypeOK, OwnRuns, Launching, EndSweep, Goto
<1>3. (~CrashAnywhere => Covered)'
  BY <1>0 DEF IInv, TypeOK, Covered, CoveredBy, InProgress, EndSweep, Goto
<1> QED
  BY <1>k, <1>1, <1>2, <1>3 DEF IInv

LEMMA PickCardKeeps ==
    ASSUME IInv, NEW p \in Procs, PickCard(p)
    PROVE  IInv'
<1>0. UNCHANGED <<card, record, stale, cardOf, worker, threaded, active,
                  write, result, writers, listed, run, crashes, requeues>>
  BY DEF PickCard, Goto, Dispatch, boardVars, runVars, procVars, bounds
<1>k. Spent'
  BY <1>0 DEF IInv, Spent
<1>1. TypeOK'
  <2>1. PICK x \in Cards, y \in {"parking", "claiming"} :
           target' = [target EXCEPT ![p] = x] /\ at' = [at EXCEPT ![p] = y]
    BY DEF PickCard, Dispatch, Goto
  <2>2. /\ target' \in [Procs -> Cards \cup {NULL}]
        /\ at' \in [Procs -> {"idle", "done", "sweeping", "reclaiming",
                            "parking", "claiming", "recording", "launching",
                            "gating"}]
    BY <2>1 DEF IInv, TypeOK
  <2>3. ASSUME NEW q \in Procs
        PROVE  /\ at'[q] \in {"parking", "claiming", "recording",
                              "launching", "gating"} => target'[q] # NULL
               /\ at'[q] \in {"reclaiming", "recording", "launching"}
                     => at[q] = at'[q]
    <3>1. CASE q = p
      BY <2>1, <3>1, BoardAssumption DEF IInv, TypeOK
    <3>2. CASE q # p
      BY <2>1, <3>2 DEF IInv, TypeOK
    <3> QED
      BY <3>1, <3>2
  <2> QED
    BY <1>0, <2>2, <2>3 DEF IInv, TypeOK
<1>2. OwnRuns'
  BY <1>0 DEF IInv, TypeOK, OwnRuns, Launching, PickCard, Goto, Dispatch
<1>3. (~CrashAnywhere => Covered)'
  BY <1>0
    DEF IInv, TypeOK, Covered, CoveredBy, InProgress, PickCard, Goto,
        Dispatch
<1> QED
  BY <1>k, <1>1, <1>2, <1>3 DEF IInv

LEMMA PickNothingKeeps ==
    ASSUME IInv, NEW p \in Procs, PickNothing(p)
    PROVE  IInv'
<1>0. UNCHANGED <<card, record, stale, cardOf, worker, threaded, active,
                  write, result, writers, listed, target, run, crashes,
                  requeues>>
  BY DEF PickNothing, Goto, boardVars, runVars, procVars, bounds
<1>k. Spent'
  BY <1>0 DEF IInv, Spent
<1>1. TypeOK'
  BY <1>0 DEF IInv, TypeOK, PickNothing, Goto
<1>2. OwnRuns'
  BY <1>0 DEF IInv, TypeOK, OwnRuns, Launching, PickNothing, Goto
<1>3. (~CrashAnywhere => Covered)'
  BY <1>0 DEF IInv, TypeOK, Covered, CoveredBy, InProgress, PickNothing, Goto
<1> QED
  BY <1>k, <1>1, <1>2, <1>3 DEF IInv

LEMMA TriageActsKeeps ==
    ASSUME IInv, NEW p \in Procs, NEW c \in Cards, TriageActs(p, c)
    PROVE  IInv'
<1>0. UNCHANGED <<card, record, stale, cardOf, worker, threaded, active,
                  write, result, writers, listed, run, crashes, requeues>>
  BY DEF TriageActs, Goto, Dispatch, boardVars, runVars, procVars, bounds
<1>k. Spent'
  BY <1>0 DEF IInv, Spent
<1>1. TypeOK'
  <2>1. PICK x \in Cards, y \in {"parking", "claiming"} :
           target' = [target EXCEPT ![p] = x] /\ at' = [at EXCEPT ![p] = y]
    BY DEF TriageActs, Dispatch, Goto
  <2>2. /\ target' \in [Procs -> Cards \cup {NULL}]
        /\ at' \in [Procs -> {"idle", "done", "sweeping", "reclaiming",
                            "parking", "claiming", "recording", "launching",
                            "gating"}]
    BY <2>1 DEF IInv, TypeOK
  <2>3. ASSUME NEW q \in Procs
        PROVE  /\ at'[q] \in {"parking", "claiming", "recording",
                              "launching", "gating"} => target'[q] # NULL
               /\ at'[q] \in {"reclaiming", "recording", "launching"}
                     => at[q] = at'[q]
    <3>1. CASE q = p
      BY <2>1, <3>1, BoardAssumption DEF IInv, TypeOK
    <3>2. CASE q # p
      BY <2>1, <3>2 DEF IInv, TypeOK
    <3> QED
      BY <3>1, <3>2
  <2> QED
    BY <1>0, <2>2, <2>3 DEF IInv, TypeOK
<1>2. OwnRuns'
  BY <1>0 DEF IInv, TypeOK, OwnRuns, Launching, TriageActs, Goto, Dispatch
<1>3. (~CrashAnywhere => Covered)'
  BY <1>0
    DEF IInv, TypeOK, Covered, CoveredBy, InProgress, TriageActs, Goto,
        Dispatch
<1> QED
  BY <1>k, <1>1, <1>2, <1>3 DEF IInv

LEMMA ParkForApprovalKeeps ==
    ASSUME IInv, NEW p \in Procs, ParkForApproval(p)
    PROVE  IInv'
<1>0. UNCHANGED <<record, stale, cardOf, worker, threaded, active, write,
                  result, writers, listed, run, crashes, requeues>>
  BY
    DEF ParkForApproval, Goto, SetCard, Finish, boardVars, runVars,
        procVars, bounds
<1>k. Spent'
  BY <1>0 DEF IInv, Spent
<1>1. TypeOK'
  BY <1>0 DEF IInv, TypeOK, ParkForApproval, Goto, SetCard, Finish, Statuses
<1>2. OwnRuns'
  BY <1>0
    DEF IInv, TypeOK, OwnRuns, Launching, ParkForApproval, Goto, SetCard,
        Finish
<1>3. (~CrashAnywhere => Covered)'
  BY <1>0
    DEF IInv, TypeOK, Covered, CoveredBy, InProgress, ParkForApproval, Goto,
        SetCard, Finish
<1> QED
  BY <1>k, <1>1, <1>2, <1>3 DEF IInv

LEMMA ClaimKeeps ==
    ASSUME IInv, NEW p \in Procs, Claim(p)
    PROVE  IInv'
<1>0. UNCHANGED <<record, stale, threaded, active, write, result, writers,
                  listed, target, crashes, requeues>>
  BY
    DEF Claim, Goto, SetCard, Claimable, InProgress, boardVars, runVars,
        procVars, bounds
<1>c. PICK r \in Runs :
         /\ worker[r] = "none"
         /\ card' = [card EXCEPT ![target[p]] = "in_progress"]
         /\ cardOf' = [cardOf EXCEPT ![r] = target[p]]
         /\ worker' = [worker EXCEPT ![r] = "claimed"]
         /\ run' = [run EXCEPT ![p] = r]
         /\ at' = [at EXCEPT ![p] = "recording"]
  BY DEF Claim, SetCard, Goto
<1>t. target[p] \in Cards /\ target[p] # NULL
  BY DEF Claim, IInv, TypeOK
<1>d. InProgress = {} /\ at[p] = "claiming"
  BY DEF Claim, Claimable
<1>f. r \notin active /\ write[r] = "no" /\ record[r] = "none"
  <2>1. cardOf[r] = NULL
    BY <1>c DEF IInv, TypeOK
  <2> QED
    BY <1>c, <2>1 DEF IInv, TypeOK, Alive
<1>1. TypeOK'
  <2>1. card' \in [Cards -> Statuses]
    BY <1>c DEF IInv, TypeOK, Statuses
  <2>2. /\ cardOf' \in [Runs -> Cards \cup {NULL}]
        /\ \A x \in Runs : cardOf'[x] # NULL <=> (cardOf[x] # NULL \/ x = r)
    BY <1>c, <1>t DEF IInv, TypeOK
  <2>3. /\ worker' \in [Runs -> {"none", "over"} \cup Alive]
        /\ \A x \in Runs : x # r => worker'[x] = worker[x]
        /\ worker'[r] = "claimed"
    BY <1>c DEF IInv, TypeOK, Alive
  <2>4. \A x \in Runs : worker'[x] # "none" <=> cardOf'[x] # NULL
    BY <2>2, <2>3 DEF IInv, TypeOK
  <2>5. /\ at' \in [Procs -> {"idle", "done", "sweeping", "reclaiming",
                            "parking", "claiming", "recording", "launching",
                            "gating"}]
        /\ \A q \in Procs : q # p => at'[q] = at[q]
    BY <1>c DEF IInv, TypeOK
  <2>6. /\ run' \in [Procs -> Runs \cup {NULL}]
        /\ \A q \in Procs : q # p => run'[q] = run[q]
        /\ run'[p] = r /\ r # NULL
    BY <1>c, BoardAssumption DEF IInv, TypeOK
  <2>7. \A q \in Procs :
           at'[q] \in {"reclaiming", "recording", "launching"}
              => run'[q] # NULL /\ cardOf'[run'[q]] # NULL
    <3> SUFFICES ASSUME NEW q \in Procs,
                        at'[q] \in {"reclaiming", "recording", "launching"}
                 PROVE  run'[q] # NULL /\ cardOf'[run'[q]] # NULL
      OBVIOUS
    <3>1. CASE q = p
      BY <2>2, <2>6, <3>1
    <3>2. CASE q # p
      <4>1. run[q] \in Runs /\ cardOf[run[q]] # NULL
        BY <2>5, <3>2 DEF IInv, TypeOK
      <4> QED
        BY <2>2, <2>6, <3>2, <4>1, BoardAssumption
    <3> QED
      BY <3>1, <3>2
  <2>8. \A q \in Procs :
           at'[q] \in {"parking", "claiming", "recording", "launching",
                      "gating"} => target[q] # NULL
    BY <1>t, <2>5 DEF IInv, TypeOK
  <2>9. /\ \A x \in active : worker'[x] \in Alive \ {"claimed"}
        /\ \A x \in Runs : record[x] # "none" => cardOf'[x] # NULL
        /\ \A x \in Runs : write[x] # "no" => cardOf'[x] # NULL
        /\ \A q \in Procs : \A x \in listed[q] : cardOf'[x] # NULL
    BY <1>f, <2>2, <2>3 DEF IInv, TypeOK
  <2> QED
    BY <1>0, <2>1, <2>2, <2>3, <2>4, <2>5, <2>6, <2>7, <2>8, <2>9
      DEF IInv, TypeOK
<1>2. OwnRuns'
  BY <1>0, <1>c, <1>t, <1>d, <1>f
    DEF IInv, TypeOK, OwnRuns, Launching, InProgress
<1>3. Spent'
  <2>1. writers[r] # 1
    BY <1>c DEF IInv, Spent
  <2>2. \A x \in Runs : x # r => worker'[x] = worker[x]
    BY <1>c DEF IInv, TypeOK
  <2> QED
    BY <1>0, <2>1, <2>2 DEF IInv, Spent
<1>4. (~CrashAnywhere => Covered)'
  BY <1>0, <1>c, <1>t, <1>d, <1>f
    DEF IInv, TypeOK, Covered, CoveredBy, InProgress
<1> QED
  BY <1>1, <1>2, <1>3, <1>4 DEF IInv

LEMMA ClaimRejectedKeeps ==
    ASSUME IInv, NEW p \in Procs, ClaimRejected(p)
    PROVE  IInv'
<1>0. UNCHANGED <<card, record, stale, cardOf, worker, threaded, active,
                  write, result, writers, listed, run, crashes, requeues>>
  BY DEF ClaimRejected, Goto, Finish, boardVars, runVars, procVars, bounds
<1>k. Spent'
  BY <1>0 DEF IInv, Spent
<1>1. TypeOK'
  BY <1>0 DEF IInv, TypeOK, ClaimRejected, Goto, Finish
<1>2. OwnRuns'
  BY <1>0 DEF IInv, TypeOK, OwnRuns, Launching, ClaimRejected, Goto, Finish
<1>3. (~CrashAnywhere => Covered)'
  BY <1>0
    DEF IInv, TypeOK, Covered, CoveredBy, InProgress, ClaimRejected, Goto,
        Finish
<1> QED
  BY <1>k, <1>1, <1>2, <1>3 DEF IInv

LEMMA CreateRunKeeps ==
    ASSUME IInv, NEW p \in Procs, CreateRun(p)
    PROVE  IInv'
<1>0. UNCHANGED <<card, stale, cardOf, worker, threaded, active, write,
                  result, writers, listed, target, run, crashes, requeues>>
  BY DEF CreateRun, Goto, boardVars, runVars, procVars, bounds
<1>k. Spent'
  BY <1>0 DEF IInv, Spent
<1>1. TypeOK'
  BY <1>0 DEF IInv, TypeOK, CreateRun, Goto, Outcomes
<1>2. OwnRuns'
  BY <1>0 DEF IInv, TypeOK, OwnRuns, Launching, CreateRun, Goto
<1>3. (~CrashAnywhere => Covered)'
  BY <1>0 DEF IInv, TypeOK, Covered, CoveredBy, InProgress, CreateRun, Goto
<1> QED
  BY <1>k, <1>1, <1>2, <1>3 DEF IInv

LEMMA LaunchKeeps ==
    ASSUME IInv, NEW p \in Procs, Launch(p)
    PROVE  IInv'
<1>0. UNCHANGED <<card, record, stale, cardOf, write, result, writers,
                  listed, crashes, requeues>>
  BY DEF Launch, Goto, Finish, boardVars, runVars, procVars, bounds
<1>1. TypeOK'
  BY <1>0 DEF IInv, TypeOK, Launch, Goto, Finish, Alive
<1>2. OwnRuns'
  BY <1>0 DEF IInv, TypeOK, OwnRuns, Launching, Launch, Goto, Finish
<1>3. Spent'
  <2>1. worker[run[p]] = "claimed" /\ run[p] \in Runs
    BY DEF Launch, IInv, OwnRuns, Launching, TypeOK
  <2>2. writers[run[p]] # 1
    BY <2>1 DEF IInv, Spent
  <2>3. \A x \in Runs :
           x # run[p] => /\ worker'[x] = worker[x]
                         /\ x \in active' <=> x \in active
                         /\ x \in threaded' <=> x \in threaded
    BY <2>1 DEF Launch, IInv, TypeOK
  <2> QED
    BY <1>0, <2>2, <2>3 DEF IInv, Spent
<1>4. (~CrashAnywhere => Covered)'
  BY <1>0
    DEF IInv, TypeOK, Covered, CoveredBy, InProgress, Launch, Goto, Finish
<1> QED
  BY <1>1, <1>2, <1>3, <1>4 DEF IInv

LEMMA SelfBlockKeeps ==
    ASSUME IInv, NEW r \in Runs, SelfBlock(r)
    PROVE  IInv'
<1>0. UNCHANGED <<record, stale, cardOf, worker, threaded, active, write,
                  result, writers, at, listed, target, run, crashes,
                  requeues>>
  BY DEF SelfBlock, SetCard, boardVars, runVars, procVars, bounds
<1>k. OwnRuns' /\ Spent'
  BY <1>0 DEF IInv, OwnRuns, Launching, Spent
<1>1. TypeOK'
  BY <1>0 DEF IInv, TypeOK, SelfBlock, SetCard, Statuses
<1>2. (~CrashAnywhere => Covered)'
  BY <1>0 DEF IInv, TypeOK, Covered, CoveredBy, InProgress, SelfBlock, SetCard
<1> QED
  BY <1>k, <1>1, <1>2 DEF IInv

LEMMA RunEndsKeeps ==
    ASSUME IInv, NEW r \in Runs, RunEnds(r)
    PROVE  IInv'
<1>0. UNCHANGED <<card, record, stale, cardOf, threaded, active, write,
                  result, writers, at, listed, target, run, crashes,
                  requeues>>
  BY DEF RunEnds, boardVars, runVars, procVars, bounds
<1>w. /\ worker[r] = "running"
      /\ worker' \in [Runs -> {"none", "over"} \cup Alive]
      /\ \A x \in Runs : x # r => worker'[x] = worker[x]
      /\ worker'[r] \in {"ended ok", "ended err"}
  <2>1. PICK y \in {"ended ok", "ended err"} :
           worker[r] = "running" /\ worker' = [worker EXCEPT ![r] = y]
    BY DEF RunEnds
  <2> QED
    BY <2>1 DEF IInv, TypeOK, Alive
<1>k. (~CrashAnywhere => Covered)'
  BY <1>0 DEF IInv, Covered, CoveredBy, InProgress
<1>1. TypeOK'
  <2>1. \A x \in Runs : worker'[x] # "none" <=> cardOf[x] # NULL
    BY <1>w DEF IInv, TypeOK
  <2>2. \A x \in active : worker'[x] \in Alive \ {"claimed"}
    BY <1>w DEF IInv, TypeOK, Alive
  <2> QED
    BY <1>0, <1>w, <2>1, <2>2 DEF IInv, TypeOK
<1>2. OwnRuns'
  <2>1. \A q \in Launching : run[q] \in Runs /\ run[q] # r
    BY <1>w DEF IInv, OwnRuns, Launching, TypeOK
  <2> QED
    BY <1>0, <1>w, <2>1 DEF IInv, OwnRuns, Launching
<1>3. Spent'
  BY <1>0, <1>w DEF IInv, TypeOK, Spent
<1> QED
  BY <1>k, <1>1, <1>2, <1>3 DEF IInv

LEMMA TakeOwnKeeps ==
    ASSUME IInv, NEW r \in Runs, TakeOwn(r)
    PROVE  IInv'
<1>0. UNCHANGED <<card, record, stale, cardOf, threaded, at, listed, target,
                  run, crashes, requeues>>
  BY DEF TakeOwn, WriteBack, boardVars, runVars, procVars, bounds
<1>w. /\ worker[r] \in {"ended ok", "ended err"}
      /\ worker' \in [Runs -> {"none", "over"} \cup Alive]
      /\ \A x \in Runs : x # r => worker'[x] = worker[x]
      /\ worker'[r] = "over"
      /\ active' = active \ {r}
  BY DEF TakeOwn, IInv, TypeOK, Alive
<1>b. /\ write' \in [Runs -> {"no", "reading", "editing", "completing", "done",
                             "lost"}]
      /\ result' \in [Runs -> {"none", "ok", "err"}]
      /\ writers' \in [Runs -> Nat]
      /\ \A x \in Runs : x # r => /\ write'[x] = write[x]
                                  /\ writers'[x] = writers[x]
      /\ \/ write'[r] \in {"reading", "editing"}
         \/ write'[r] = write[r]
      /\ \/ writers'[r] = writers[r] + 1 /\ (r \in threaded => r \in active)
         \/ writers'[r] = writers[r]
  <2>1. /\ write \in [Runs -> {"no", "reading", "editing", "completing",
                              "done", "lost"}]
        /\ result \in [Runs -> {"none", "ok", "err"}]
        /\ writers \in [Runs -> Nat]
    BY DEF IInv, TypeOK
  <2>2. ASSUME NEW o \in {"ok", "err"}, WriteBack(r, o)
        PROVE  \E y \in {"reading", "editing"} :
                  /\ write' = [write EXCEPT ![r] = y]
                  /\ result' = [result EXCEPT ![r] = o]
                  /\ writers' = [writers EXCEPT ![r] = @ + 1]
    BY <2>2 DEF WriteBack
  <2>3. CASE r \in threaded => r \in active
    <3>1. PICK o \in {"ok", "err"} : WriteBack(r, o)
      BY <2>3 DEF TakeOwn
    <3> QED
      BY <2>1, <2>2, <2>3, <3>1
  <2>4. CASE ~(r \in threaded => r \in active)
    <3>1. UNCHANGED <<write, result, writers>>
      BY <2>4 DEF TakeOwn
    <3> QED
      BY <2>1, <3>1
  <2> QED
    BY <2>3, <2>4
<1>1. TypeOK'
  <2>1. cardOf[r] # NULL
    BY <1>w DEF IInv, TypeOK, Alive
  <2>2. \A x \in Runs : worker'[x] # "none" <=> cardOf[x] # NULL
    BY <1>w, <2>1 DEF IInv, TypeOK, Alive
  <2>3. active' \subseteq threaded
        /\ \A x \in active' : worker'[x] \in Alive \ {"claimed"}
    BY <1>w DEF IInv, TypeOK
  <2>4. \A x \in Runs : write'[x] # "no" => cardOf[x] # NULL
    BY <1>b, <2>1 DEF IInv, TypeOK
  <2> QED
    BY <1>0, <1>w, <1>b, <2>2, <2>3, <2>4 DEF IInv, TypeOK
<1>2. OwnRuns'
  <2>1. \A q \in Launching : run[q] \in Runs /\ run[q] # r
    BY <1>w DEF IInv, OwnRuns, Launching, TypeOK
  <2> QED
    BY <1>0, <1>w, <2>1 DEF IInv, OwnRuns, Launching
<1>3. Spent'
  <2>1. ASSUME NEW x \in Runs, x # r
        PROVE  /\ writers'[x] <= 1
               /\ writers'[x] = 1 =>
                     /\ x \notin active'
                     /\ \/ worker'[x] = "over"
                        \/ /\ worker'[x] \in {"ended ok", "ended err"}
                           /\ x \in threaded
    BY <1>w, <1>b, <2>1 DEF IInv, Spent
  <2>2. /\ writers'[r] <= 1
        /\ r \notin active'
        /\ writers'[r] = 1 => \/ worker'[r] = "over"
                              \/ /\ worker'[r] \in {"ended ok", "ended err"}
                                 /\ r \in threaded
    <3>1. writers[r] \in Nat /\ writers[r] <= 1 /\ active \subseteq threaded
      BY DEF IInv, TypeOK, Spent
    <3>2. writers[r] = 1 => r \notin active
      BY DEF IInv, Spent
    <3>3. writers[r] = 1 /\ worker[r] # "over" => r \in threaded
      BY DEF IInv, Spent
    <3>4. worker[r] # "over"
      BY <1>w DEF Alive
    <3>5. r \notin active'
      BY <1>w
    <3>6. CASE writers'[r] = writers[r] + 1 /\ (r \in threaded => r \in active)
      <4>1. writers[r] # 1
        BY <3>2, <3>3, <3>4, <3>6
      <4>2. writers'[r] \in Nat /\ writers'[r] <= 1
        BY <3>1, <3>6, <4>1
      <4>3. \/ worker'[r] = "over"
            \/ worker'[r] \in {"ended ok", "ended err"} /\ r \in threaded
        BY <1>w
      <4> QED
        BY <3>5, <4>2, <4>3
    <3>7. CASE writers'[r] = writers[r]
      BY <1>w, <3>1, <3>2, <3>3, <3>4, <3>5, <3>7 DEF Alive
    <3> QED
      BY <1>b, <3>6, <3>7
  <2> QED
    BY <1>0, <2>1, <2>2 DEF Spent
<1>4. (~CrashAnywhere => Covered)'
  <2>1. \A x \in Runs, c \in Cards : CoveredBy(c, x) => CoveredBy(c, x)'
    BY <1>0, <1>b DEF CoveredBy
  <2> QED
    BY <1>0, <2>1 DEF IInv, Covered, InProgress
<1> QED
  BY <1>1, <1>2, <1>3, <1>4 DEF IInv

LEMMA CancelKeeps ==
    ASSUME IInv, NEW r \in Runs, Cancel(r)
    PROVE  IInv'
<1>0. UNCHANGED <<card, record, stale, cardOf, threaded, at, listed, target,
                  run, crashes, requeues>>
  BY DEF Cancel, WriteBack, boardVars, runVars, procVars, bounds
<1>w. /\ r \in active /\ worker[r] \in Alive \ {"claimed"}
      /\ worker' \in [Runs -> {"none", "over"} \cup Alive]
      /\ \A x \in Runs : x # r => worker'[x] = worker[x]
      /\ \/ worker'[r] = "over"
         \/ worker'[r] = worker[r] /\ worker[r] # "running"
      /\ active' = active \ {r}
  <2>0. r \in active /\ active' = active \ {r}
    BY DEF Cancel
  <2>1. worker' = IF worker[r] = "running"
                  THEN [worker EXCEPT ![r] = "over"] ELSE worker
    BY DEF Cancel
  <2>2. worker[r] \in Alive \ {"claimed"}
    BY <2>0 DEF IInv, TypeOK
  <2>3. worker \in [Runs -> {"none", "over"} \cup Alive]
    BY DEF IInv, TypeOK
  <2>4. CASE worker[r] = "running"
    <3>1. worker' = [worker EXCEPT ![r] = "over"]
      BY <2>1, <2>4
    <3>2. /\ worker'[r] = "over"
          /\ worker' \in [Runs -> {"none", "over"} \cup Alive]
          /\ \A y \in Runs : y # r => worker'[y] = worker[y]
      BY <2>3, <3>1
    <3> QED
      BY <2>0, <2>2, <3>2
  <2>5. CASE worker[r] # "running"
    BY <2>0, <2>1, <2>2, <2>3, <2>5
  <2> QED
    BY <2>4, <2>5
<1>b. /\ write' \in [Runs -> {"no", "reading", "editing", "completing", "done",
                             "lost"}]
      /\ result' \in [Runs -> {"none", "ok", "err"}]
      /\ writers' \in [Runs -> Nat]
      /\ \A x \in Runs : x # r => /\ write'[x] = write[x]
                                  /\ writers'[x] = writers[x]
      /\ \/ write'[r] \in {"reading", "editing"}
         \/ write'[r] = write[r]
      /\ \/ writers'[r] = writers[r] + 1
         \/ writers'[r] = writers[r]
  <2>1. /\ write \in [Runs -> {"no", "reading", "editing", "completing",
                              "done", "lost"}]
        /\ result \in [Runs -> {"none", "ok", "err"}]
        /\ writers \in [Runs -> Nat]
    BY DEF IInv, TypeOK
  <2>2. ASSUME NEW o \in {"ok", "err"}, WriteBack(r, o)
        PROVE  \E y \in {"reading", "editing"} :
                  /\ write' = [write EXCEPT ![r] = y]
                  /\ result' = [result EXCEPT ![r] = o]
                  /\ writers' = [writers EXCEPT ![r] = @ + 1]
    BY <2>2 DEF WriteBack
  <2>3. WriteBack(r, "err")
    BY DEF Cancel
  <2> QED
    BY <2>1, <2>2, <2>3
<1>1. TypeOK'
  <2>1. cardOf[r] # NULL
    BY <1>w DEF IInv, TypeOK, Alive
  <2>2. \A x \in Runs : worker'[x] # "none" <=> cardOf[x] # NULL
    <3>1. worker[r] # "none" /\ worker'[r] # "none"
      BY <1>w DEF Alive
    <3> QED
      BY <1>w, <2>1, <3>1 DEF IInv, TypeOK
  <2>3. active' \subseteq threaded
        /\ \A x \in active' : worker'[x] \in Alive \ {"claimed"}
    BY <1>w DEF IInv, TypeOK
  <2>4. \A x \in Runs : write'[x] # "no" => cardOf[x] # NULL
    BY <1>b, <2>1 DEF IInv, TypeOK
  <2> QED
    BY <1>0, <1>w, <1>b, <2>2, <2>3, <2>4 DEF IInv, TypeOK
<1>2. OwnRuns'
  <2>1. \A q \in Launching : run[q] \in Runs /\ run[q] # r
    BY <1>w DEF IInv, OwnRuns, Launching, TypeOK
  <2> QED
    BY <1>0, <1>w, <2>1 DEF IInv, OwnRuns, Launching
<1>3. Spent'
  <2>1. ASSUME NEW x \in Runs, x # r
        PROVE  /\ writers'[x] <= 1
               /\ writers'[x] = 1 =>
                     /\ x \notin active'
                     /\ \/ worker'[x] = "over"
                        \/ /\ worker'[x] \in {"ended ok", "ended err"}
                           /\ x \in threaded
    BY <1>w, <1>b, <2>1 DEF IInv, Spent
  <2>2. /\ writers'[r] <= 1
        /\ r \notin active'
        /\ writers'[r] = 1 => \/ worker'[r] = "over"
                              \/ /\ worker'[r] \in {"ended ok", "ended err"}
                                 /\ r \in threaded
    <3>1. writers[r] \in Nat /\ writers[r] <= 1 /\ active \subseteq threaded
      BY DEF IInv, TypeOK, Spent
    <3>2. writers[r] = 1 => r \notin active
      BY DEF IInv, Spent
    <3>3. writers[r] = 1 /\ worker[r] # "over" => r \in threaded
      BY DEF IInv, Spent
    <3>4. worker[r] # "over"
      BY <1>w DEF Alive
    <3>5. r \notin active'
      BY <1>w
    <3>6. CASE writers'[r] = writers[r] + 1
      <4>1. writers[r] # 1
        BY <1>w, <3>2
      <4>2. writers'[r] \in Nat /\ writers'[r] <= 1
        BY <3>1, <3>6, <4>1
      <4>3. \/ worker'[r] = "over"
            \/ worker'[r] \in {"ended ok", "ended err"} /\ r \in threaded
        BY <1>w, <3>1 DEF Alive
      <4> QED
        BY <3>5, <4>2, <4>3
    <3>7. CASE writers'[r] = writers[r]
      BY <1>w, <3>1, <3>2, <3>3, <3>4, <3>5, <3>7 DEF Alive
    <3> QED
      BY <1>b, <3>6, <3>7
  <2> QED
    BY <1>0, <2>1, <2>2 DEF Spent
<1>4. (~CrashAnywhere => Covered)'
  <2>1. \A x \in Runs, c \in Cards : CoveredBy(c, x) => CoveredBy(c, x)'
    BY <1>0, <1>b DEF CoveredBy
  <2> QED
    BY <1>0, <2>1 DEF IInv, Covered, InProgress
<1> QED
  BY <1>1, <1>2, <1>3, <1>4 DEF IInv

LEMMA ReadStatusKeeps ==
    ASSUME IInv, NEW r \in Runs, ReadStatus(r)
    PROVE  IInv'
<1>0. UNCHANGED <<card, record, stale, cardOf, worker, threaded, active,
                  result, writers, at, listed, target, run, crashes,
                  requeues>>
  BY DEF ReadStatus, boardVars, runVars, procVars, bounds
<1>k. OwnRuns' /\ Spent'
  BY <1>0 DEF IInv, OwnRuns, Launching, Spent
<1>1. TypeOK'
  BY <1>0 DEF IInv, TypeOK, ReadStatus
<1>2. (~CrashAnywhere => Covered)'
  BY <1>0 DEF IInv, TypeOK, Covered, CoveredBy, InProgress, ReadStatus
<1> QED
  BY <1>k, <1>1, <1>2 DEF IInv

LEMMA EditCardKeeps ==
    ASSUME IInv, NEW r \in Runs, EditCard(r)
    PROVE  IInv'
<1>0. UNCHANGED <<record, stale, cardOf, worker, threaded, active, result,
                  writers, at, listed, target, run, crashes, requeues>>
  BY DEF EditCard, SetCard, boardVars, runVars, procVars, bounds
<1>k. OwnRuns' /\ Spent'
  BY <1>0 DEF IInv, OwnRuns, Launching, Spent
<1>1. TypeOK'
  BY <1>0 DEF IInv, TypeOK, EditCard, SetCard, Statuses
<1>2. (~CrashAnywhere => Covered)'
  BY <1>0 DEF IInv, TypeOK, Covered, CoveredBy, InProgress, EditCard, SetCard
<1> QED
  BY <1>k, <1>1, <1>2 DEF IInv

LEMMA CompleteRunKeeps ==
    ASSUME IInv, NEW r \in Runs, CompleteRun(r)
    PROVE  IInv'
<1>0. UNCHANGED <<card, stale, cardOf, worker, threaded, active, result,
                  writers, at, listed, target, run, crashes, requeues>>
  BY DEF CompleteRun, boardVars, runVars, procVars, bounds
<1>k. OwnRuns' /\ Spent'
  BY <1>0 DEF IInv, OwnRuns, Launching, Spent
<1>1. TypeOK'
  BY <1>0 DEF IInv, TypeOK, CompleteRun, Outcomes
<1>2. (~CrashAnywhere => Covered)'
  BY <1>0 DEF IInv, TypeOK, Covered, CoveredBy, InProgress, CompleteRun
<1> QED
  BY <1>k, <1>1, <1>2 DEF IInv

LEMMA DecidePlanKeeps ==
    ASSUME IInv, NEW c \in Cards, DecidePlan(c)
    PROVE  IInv'
<1>0. UNCHANGED <<record, stale, cardOf, worker, threaded, active, write,
                  result, writers, at, listed, target, run, crashes,
                  requeues>>
  BY DEF DecidePlan, SetCard, boardVars, runVars, procVars, bounds
<1>k. OwnRuns' /\ Spent'
  BY <1>0 DEF IInv, OwnRuns, Launching, Spent
<1>1. TypeOK'
  BY <1>0 DEF IInv, TypeOK, DecidePlan, SetCard, Statuses
<1>2. (~CrashAnywhere => Covered)'
  BY <1>0 DEF IInv, TypeOK, Covered, CoveredBy, InProgress, DecidePlan, SetCard
<1> QED
  BY <1>k, <1>1, <1>2 DEF IInv

LEMMA RequeueKeeps ==
    ASSUME IInv, NEW c \in Cards, Requeue(c)
    PROVE  IInv'
<1>0. UNCHANGED <<record, stale, cardOf, worker, threaded, active, write,
                  result, writers, at, listed, target, run, crashes>>
  BY DEF Requeue, SetCard, boardVars, runVars, procVars, bounds
<1>k. OwnRuns' /\ Spent'
  BY <1>0 DEF IInv, OwnRuns, Launching, Spent
<1>1. TypeOK'
  BY <1>0 DEF IInv, TypeOK, Requeue, SetCard, Statuses
<1>2. (~CrashAnywhere => Covered)'
  BY <1>0 DEF IInv, TypeOK, Covered, CoveredBy, InProgress, Requeue, SetCard
<1> QED
  BY <1>k, <1>1, <1>2 DEF IInv

LEMMA TriageDropsKeeps ==
    ASSUME IInv, NEW p \in Procs, NEW c \in Cards, TriageDrops(p, c)
    PROVE  IInv'
<1>0. UNCHANGED <<card, record, stale, cardOf, worker, threaded, active,
                  write, result, writers, listed, run, crashes, requeues>>
  BY DEF TriageDrops, Goto, boardVars, runVars, procVars, bounds
<1>k. Spent'
  BY <1>0 DEF IInv, Spent
<1>1. TypeOK'
  <2>1. \/ /\ target' = [target EXCEPT ![p] = c]
           /\ at' = [at EXCEPT ![p] = "gating"]
        \/ target' = target /\ at' = [at EXCEPT ![p] = "done"]
    BY DEF TriageDrops, Goto
  <2>2. /\ target' \in [Procs -> Cards \cup {NULL}]
        /\ at' \in [Procs -> {"idle", "done", "sweeping", "reclaiming",
                            "parking", "claiming", "recording", "launching",
                            "gating"}]
    BY <2>1 DEF IInv, TypeOK
  <2>3. ASSUME NEW q \in Procs
        PROVE  /\ at'[q] \in {"parking", "claiming", "recording",
                              "launching", "gating"} => target'[q] # NULL
               /\ at'[q] \in {"reclaiming", "recording", "launching"}
                     => at[q] = at'[q]
    <3>1. CASE q = p
      BY <2>1, <3>1, BoardAssumption DEF IInv, TypeOK
    <3>2. CASE q # p
      BY <2>1, <3>2 DEF IInv, TypeOK
    <3> QED
      BY <3>1, <3>2
  <2> QED
    BY <1>0, <2>2, <2>3 DEF IInv, TypeOK
<1>2. OwnRuns'
  BY <1>0 DEF IInv, TypeOK, OwnRuns, Launching, TriageDrops, Goto
<1>3. (~CrashAnywhere => Covered)'
  BY <1>0 DEF IInv, TypeOK, Covered, CoveredBy, InProgress, TriageDrops, Goto
<1> QED
  BY <1>k, <1>1, <1>2, <1>3 DEF IInv

LEMMA GateCardKeeps ==
    ASSUME IInv, NEW p \in Procs, GateCard(p)
    PROVE  IInv'
<1>0. UNCHANGED <<record, stale, cardOf, worker, threaded, active, write,
                  result, writers, listed, run, crashes, requeues>>
  BY DEF GateCard, Goto, SetCard, Finish, boardVars, runVars, procVars, bounds
<1>k. Spent'
  BY <1>0 DEF IInv, Spent
<1>1. TypeOK'
  BY <1>0 DEF IInv, TypeOK, GateCard, Goto, SetCard, Finish, Statuses
<1>2. OwnRuns'
  BY <1>0 DEF IInv, TypeOK, OwnRuns, Launching, GateCard, Goto, SetCard, Finish
<1>3. (~CrashAnywhere => Covered)'
  BY <1>0
    DEF IInv, TypeOK, Covered, CoveredBy, InProgress, GateCard, Goto,
        SetCard, Finish
<1> QED
  BY <1>k, <1>1, <1>2, <1>3 DEF IInv

LEMMA CrashKeeps ==
    ASSUME IInv, Crash
    PROVE  IInv'
<1>0. UNCHANGED <<card, record, stale, cardOf, threaded, result, writers,
                  requeues>>
  BY DEF Crash, boardVars, runVars, procVars, bounds
<1>1. TypeOK'
  <2>1. /\ worker' \in [Runs -> {"none", "over"} \cup Alive]
        /\ \A x \in Runs : worker'[x] # "none" <=> worker[x] # "none"
        /\ active' = {}
    BY DEF Crash
  <2>2. /\ write' \in [Runs -> {"no", "reading", "editing", "completing",
                               "done", "lost"}]
        /\ \A x \in Runs : write'[x] # "no" => write[x] # "no"
    BY DEF Crash, IInv, TypeOK
  <2>3. /\ at' \in [Procs -> {"idle", "done", "sweeping", "reclaiming",
                            "parking", "claiming", "recording", "launching",
                            "gating"}]
        /\ \A q \in Procs : at'[q] \in {"idle", "done"}
        /\ listed' = [q \in Procs |-> {}]
        /\ target' = [q \in Procs |-> NULL]
        /\ run' = [q \in Procs |-> NULL]
        /\ crashes' = crashes + 1
    BY DEF Crash
  <2> QED
    BY <1>0, <2>1, <2>2, <2>3 DEF IInv, TypeOK
<1>2. OwnRuns'
  BY <1>0 DEF IInv, TypeOK, OwnRuns, Launching, Crash
<1>3. Spent'
  BY <1>0 DEF IInv, TypeOK, Spent, Crash
<1>4. (~CrashAnywhere => Covered)'
  <2> SUFFICES ASSUME ~CrashAnywhere, NEW c \in InProgress
               PROVE  \E r \in Runs : CoveredBy(c, r)'
    BY <1>0 DEF Covered, InProgress
  <2>1. PICK r \in Runs : CoveredBy(c, r)
    BY DEF IInv, Covered
  <2>2. record[r] = "active"
    BY <2>1 DEF Crash, InWindow, CoveredBy
  <2>3. write'[r] \notin {"completing", "done"}
    BY <2>1 DEF Crash, CoveredBy
  <2> QED
    BY <1>0, <2>1, <2>2, <2>3 DEF CoveredBy
<1> QED
  BY <1>1, <1>2, <1>3, <1>4 DEF IInv

LEMMA InitIInv == Init => IInv
<1> SUFFICES ASSUME Init PROVE IInv
  OBVIOUS
<1>1. TypeOK
  BY DEF Init, TypeOK, Statuses, Outcomes, Alive
<1>2. OwnRuns /\ Spent /\ Covered
  BY DEF Init, OwnRuns, Launching, Spent, Covered, InProgress
<1> QED
  BY <1>1, <1>2 DEF IInv

LEMMA StutterKeeps == ASSUME IInv, UNCHANGED vars PROVE IInv'
<1>1. UNCHANGED <<card, record, stale, cardOf, worker, threaded, active,
                  write, result, writers, at, listed, target, run, crashes,
                  requeues>>
  BY DEF vars, boardVars, runVars, procVars, bounds
<1>2. TypeOK'
  BY <1>1 DEF IInv, TypeOK
<1>3. OwnRuns'
  BY <1>1 DEF IInv, OwnRuns, Launching
<1>4. Spent'
  BY <1>1 DEF IInv, Spent
<1>5. (~CrashAnywhere => Covered)'
  BY <1>1 DEF IInv, Covered, CoveredBy, InProgress
<1> QED
  BY <1>2, <1>3, <1>4, <1>5 DEF IInv

LEMMA NextIInv == IInv /\ [Next]_vars => IInv'
<1> SUFFICES ASSUME IInv, [Next]_vars PROVE IInv'
  OBVIOUS
<1>1. CASE UNCHANGED vars
  BY <1>1, StutterKeeps
<1>2. ASSUME NEW p \in Procs,
             SweepStep(p) \/ DispatchStep(p) \/ TriageStep(p)
      PROVE  IInv'
  <2>1. CASE SweepStep(p)
    BY <2>1, FindStaleKeeps, ReclaimRecordKeeps, ReclaimCardKeeps,
       EndSweepKeeps DEF SweepStep
  <2>2. CASE DispatchStep(p)
    BY <2>2, PickCardKeeps, PickNothingKeeps, ParkForApprovalKeeps,
       ClaimKeeps, ClaimRejectedKeeps, CreateRunKeeps, LaunchKeeps,
       GateCardKeeps DEF DispatchStep
  <2>3. CASE TriageStep(p)
    BY <2>3, TriageActsKeeps, TriageDropsKeeps DEF TriageStep
  <2> QED
    BY <1>2, <2>1, <2>2, <2>3
<1>3. ASSUME NEW r \in Runs, RunStep(r) \/ Age(r) PROVE IInv'
  BY <1>3, AgeKeeps, SelfBlockKeeps, RunEndsKeeps, CancelKeeps, TakeOwnKeeps,
     ReadStatusKeeps, EditCardKeeps, CompleteRunKeeps DEF RunStep, WriteStep
<1>4. ASSUME NEW c \in Cards, UserStep(c) PROVE IInv'
  BY <1>4, DecidePlanKeeps, RequeueKeeps DEF UserStep
<1>5. CASE Crash
  BY <1>5, CrashKeeps
<1> QED
  BY <1>1, <1>2, <1>3, <1>4, <1>5 DEF Next

LEMMA Invariance == Spec => []IInv
<1>1. Init => IInv
  BY InitIInv
<1>2. IInv /\ [Next]_vars => IInv'
  BY NextIInv
<1> QED
  BY <1>1, <1>2, PTL DEF Spec

-----------------------------------------------------------------------------
(* Cards, records, registry and dispatchers are what the code says they    *)
(* are in every state.                                                     *)
THEOREM TypeCorrect == Spec => []TypeOK
<1>1. IInv => TypeOK
  BY DEF IInv
<1> QED
  BY <1>1, Invariance, PTL

(* However a cancel races the end of a run, its outcome is written back to *)
(* the card once at most: the registry entry decides who does it.          *)
THEOREM OutcomeWrittenOnce == Spec => []WrittenBackOnce
<1>1. IInv => WrittenBackOnce
  BY DEF IInv, Spent, WrittenBackOnce
<1> QED
  BY <1>1, Invariance, PTL

(* No crash hits a claim without a record or a reclaimed record whose card *)
(* is not back: then a card in progress always has a record that a sweep   *)
(* can find, or a process about to write one or to put the card back.      *)
THEOREM ClaimsStayCovered == ~CrashAnywhere => (Spec => []ClaimsAreCovered)
<1> SUFFICES ASSUME ~CrashAnywhere PROVE Spec => []ClaimsAreCovered
  OBVIOUS
<1>1. IInv => ClaimsAreCovered
  BY DEF IInv, Covered, CoveredBy, ClaimsAreCovered, ClaimIsCovered
<1> QED
  BY <1>1, Invariance, PTL

-----------------------------------------------------------------------------
(* The promise of CardContract is implemented.                             *)

(* A sweep about to move a card has closed the record of its run, and no   *)
(* other sweep has; a claim has no record yet; a run whose write-back has  *)
(* begun has been counted.                                                 *)
Reclaiming == {p \in Procs : at[p] = "reclaiming"}
Sweeps ==
    /\ \A p \in Reclaiming : record[run[p]] = "reclaimed"
    /\ \A p, q \in Reclaiming : run[p] = run[q] => p = q
    /\ \A p \in Procs : at[p] = "recording" => record[run[p]] = "none"
Counted == \A r \in Runs : write[r] # "no" => writers[r] = 1

RInv == IInv /\ Sweeps /\ Counted

(* What the steps that close no record and put no card back leave alone.   *)
Undisturbed ==
    /\ record' = record
    /\ \A p \in Procs :
          at'[p] \in {"reclaiming", "recording"} =>
             at'[p] = at[p] /\ run'[p] = run[p]

LEMMA UndisturbedKeeps ==
    ASSUME Sweeps, Undisturbed
    PROVE  Sweeps'
    BY DEF Sweeps, Undisturbed, Reclaiming

(* A run is not written back twice: a write-back begins from "no".         *)
LEMMA WriteBackBegins ==
    ASSUME RInv, NEW r \in Runs,
           \/ r \in active
           \/ worker[r] \in {"ended ok", "ended err"} /\ r \notin threaded
    PROVE  write[r] = "no"
<1>1. writers[r] # 1
  BY DEF RInv, IInv, Spent
<1> QED
  BY <1>1 DEF RInv, Counted

LEMMA CountedKeeps ==
    ASSUME RInv, Next
    PROVE  Counted'
<1>0. write \in [Runs -> {"no", "reading", "editing", "completing", "done",
                          "lost"}] /\ writers \in [Runs -> Nat]
  BY DEF RInv, IInv, TypeOK
<1>1. CASE UNCHANGED <<write, writers>>
  BY <1>1 DEF RInv, Counted
<1>2. ASSUME NEW r \in Runs, NEW outcome, WriteBack(r, outcome), write[r] = "no"
      PROVE  Counted'
  <2>1. Spent'
    BY NextIInv DEF RInv, IInv
  <2>2. writers'[r] = writers[r] + 1 /\ writers'[r] <= 1
    BY <1>0, <1>2, <2>1 DEF WriteBack, Spent
  <2>3. \A x \in Runs \ {r} : write'[x] = write[x] /\ writers'[x] = writers[x]
    BY <1>0, <1>2 DEF WriteBack
  <2>4. writers'[r] = 1
    BY <1>0, <2>2
  <2> QED
    BY <2>3, <2>4 DEF RInv, Counted
<1>3. ASSUME NEW r \in Runs, TakeOwn(r) \/ Cancel(r) PROVE Counted'
  <2>1. CASE TakeOwn(r) /\ ~(r \in threaded => r \in active)
    BY <1>1, <2>1 DEF TakeOwn
  <2>2. CASE TakeOwn(r) /\ (r \in threaded => r \in active)
    BY <1>2, <2>2, WriteBackBegins DEF TakeOwn
  <2>3. CASE Cancel(r)
    BY <1>2, <2>3, WriteBackBegins DEF Cancel
  <2> QED
    BY <1>3, <2>1, <2>2, <2>3
<1>4. ASSUME NEW r \in Runs, ReadStatus(r) \/ EditCard(r) \/ CompleteRun(r)
      PROVE  Counted'
  BY <1>0, <1>4 DEF ReadStatus, EditCard, CompleteRun, RInv, Counted
<1>5. CASE Crash
  BY <1>0, <1>5 DEF Crash, RInv, Counted
<1>6. ASSUME NEW r \in Runs, SelfBlock(r) \/ RunEnds(r) \/ Age(r)
      PROVE  UNCHANGED <<write, writers>>
  BY <1>6 DEF SelfBlock, RunEnds, Age, runVars
<1>7. ASSUME NEW p \in Procs,
             SweepStep(p) \/ DispatchStep(p) \/ TriageStep(p)
      PROVE  UNCHANGED <<write, writers>>
  BY <1>7 DEF SweepStep, FindStale, ReclaimRecord, ReclaimCard, EndSweep,
    DispatchStep, PickCard, PickNothing, ParkForApproval, Claim, ClaimRejected,
    CreateRun, Launch, GateCard, TriageStep, TriageActs, TriageDrops, runVars
<1>8. ASSUME NEW c \in Cards, UserStep(c) PROVE UNCHANGED <<write, writers>>
  BY <1>8 DEF UserStep, DecidePlan, Requeue, runVars
<1> QED
  BY <1>1, <1>3, <1>4, <1>5, <1>6, <1>7, <1>8 DEF Next, RunStep, WriteStep

LEMMA SweepsKeeps ==
    ASSUME RInv, Next
    PROVE  Sweeps'
<1>0. at \in [Procs -> {"idle", "done", "sweeping", "reclaiming", "parking",
                        "claiming", "recording", "launching", "gating"}]
      /\ run \in [Procs -> Runs \cup {NULL}]
      /\ record \in [Runs -> {"none", "active"} \cup Outcomes]
      /\ Sweeps
  BY DEF RInv, IInv, TypeOK
<1>1. ASSUME NEW p \in Procs,
             \/ FindStale(p) \/ ReclaimCard(p) \/ EndSweep(p) \/ PickCard(p)
             \/ PickNothing(p) \/ ParkForApproval(p) \/ ClaimRejected(p)
             \/ Launch(p) \/ GateCard(p) \/ TriageStep(p)
      PROVE  Sweeps'
  <2>1. record' = record
    BY <1>1 DEF FindStale, ReclaimCard, EndSweep, PickCard, PickNothing,
      ParkForApproval, ClaimRejected, Launch, GateCard, TriageStep, TriageActs,
      TriageDrops, boardVars
  <2>2. at'[p] \notin {"reclaiming", "recording"}
    BY <1>0, <1>1 DEF FindStale, ReclaimCard, EndSweep, PickCard, PickNothing,
      ParkForApproval, ClaimRejected, Launch, GateCard, TriageStep, TriageActs,
      TriageDrops, Goto, Dispatch, Finish
  <2>3. \A q \in Procs \ {p} : at'[q] = at[q] /\ run'[q] = run[q]
    BY <1>0, <1>1 DEF FindStale, ReclaimCard, EndSweep, PickCard, PickNothing,
      ParkForApproval, ClaimRejected, Launch, GateCard, TriageStep, TriageActs,
      TriageDrops, Goto, Dispatch, Finish
  <2> QED
    BY <1>0, <2>1, <2>2, <2>3, UndisturbedKeeps DEF Undisturbed
<1>2. ASSUME NEW p \in Procs, NEW r \in Runs, ReclaimRecord(p, r)
      PROVE  Sweeps'
  <2>1. CASE record[r] # "active"
    BY <1>0, <1>2, <2>1, UndisturbedKeeps DEF ReclaimRecord, Undisturbed
  <2>2. CASE record[r] = "active"
    <3>1. /\ record' = [record EXCEPT ![r] = "reclaimed"]
          /\ run' = [run EXCEPT ![p] = r]
          /\ at' = [at EXCEPT ![p] = "reclaiming"]
      BY <1>2, <2>2 DEF ReclaimRecord, Goto
    <3>2. \A q \in Procs :
             at[q] \in {"reclaiming", "recording"} => run[q] \in Runs \ {r}
      BY <1>0, <2>2 DEF RInv, IInv, TypeOK, Sweeps, Reclaiming
    <3> QED
      BY <1>0, <3>1, <3>2 DEF Sweeps, Reclaiming
  <2> QED
    BY <2>1, <2>2
<1>3. ASSUME NEW p \in Procs, Claim(p) PROVE Sweeps'
  <2>1. PICK r \in Runs :
           /\ worker[r] = "none"
           /\ run' = [run EXCEPT ![p] = r]
           /\ at' = [at EXCEPT ![p] = "recording"]
           /\ record' = record
    BY <1>3 DEF Claim, Goto
  <2>2. record[r] = "none"
    BY <2>1 DEF RInv, IInv, TypeOK, Outcomes
  <2> QED
    BY <1>0, <2>1, <2>2 DEF Sweeps, Reclaiming
<1>4. ASSUME NEW p \in Procs, CreateRun(p) PROVE Sweeps'
  <2>1. /\ at[p] = "recording" /\ run[p] \in Runs /\ run' = run
        /\ record' = [record EXCEPT ![run[p]] = "active"]
        /\ at' = [at EXCEPT ![p] = "launching"]
    BY <1>0, <1>4 DEF CreateRun, Goto, RInv, IInv, TypeOK
  <2>2. \A q \in Procs \ {p} :
           at[q] \in {"reclaiming", "recording"} => run[q] \in Runs \ {run[p]}
    <3>1. record[run[p]] = "none"
      BY <1>0, <2>1 DEF Sweeps
    <3>2. \A q \in Procs \ {p} : at[q] = "recording" => run[q] # run[p]
      BY <2>1 DEF RInv, IInv, OwnRuns, Launching
    <3> QED
      BY <1>0, <3>1, <3>2 DEF RInv, IInv, TypeOK, Sweeps, Reclaiming
  <2> QED
    BY <1>0, <2>1, <2>2 DEF Sweeps, Reclaiming
<1>5. ASSUME NEW r \in Runs, CompleteRun(r) PROVE Sweeps'
  <2>1. /\ UNCHANGED <<at, run>>
        /\ \A x \in Runs : record[x] # "active" => record'[x] = record[x]
    BY <1>0, <1>5 DEF CompleteRun, procVars
  <2>2. \A q \in Procs : at[q] \in {"reclaiming", "recording"} =>
           run[q] \in Runs
    BY <1>0 DEF RInv, IInv, TypeOK
  <2> QED
    BY <1>0, <2>1, <2>2 DEF Sweeps, Reclaiming
<1>6. CASE Crash
  BY <1>6 DEF Crash, Sweeps, Reclaiming
<1>7. ASSUME \/ \E r \in Runs : \/ SelfBlock(r) \/ RunEnds(r) \/ Cancel(r)
                                \/ TakeOwn(r) \/ ReadStatus(r) \/ EditCard(r)
                                \/ Age(r)
             \/ \E c \in Cards : UserStep(c)
      PROVE  Undisturbed
  BY <1>7 DEF SelfBlock, RunEnds, Cancel, TakeOwn, ReadStatus, EditCard, Age,
    UserStep, DecidePlan, Requeue, boardVars, procVars, Undisturbed
<1> QED
  BY <1>0, <1>1, <1>2, <1>3, <1>4, <1>5, <1>6, <1>7, UndisturbedKeeps
    DEF Next, SweepStep, DispatchStep, RunStep, WriteStep

LEMMA RInvInit == Init => RInv
  BY InitIInv DEF Init, RInv, Sweeps, Reclaiming, Counted

LEMMA RInvNext == RInv /\ [Next]_vars => RInv'
<1> SUFFICES ASSUME RInv, [Next]_vars PROVE RInv'
  OBVIOUS
<1>1. CASE UNCHANGED vars
  <2>1. UNCHANGED <<record, at, run, write, writers>>
    BY <1>1 DEF vars, boardVars, runVars, procVars
  <2>2. Sweeps' /\ Counted'
    BY <2>1 DEF RInv, Sweeps, Reclaiming, Counted
  <2> QED
    BY <1>1, <2>2, StutterKeeps DEF RInv
<1> QED
  BY <1>1, NextIInv, SweepsKeeps, CountedKeeps DEF RInv

LEMMA CreditFacts ==
    ASSUME NEW r \in Runs
    PROVE  /\ credit[r] \subseteq {"outcome", "reclaim"}
           /\ "outcome" \in credit[r] <=> cardOf[r] # NULL /\ MayWrite(r)
           /\ "reclaim" \in credit[r] <=> cardOf[r] # NULL /\ MayBeReclaimed(r)
    BY DEF credit

(* Nothing that concerns a run's credit changes.                           *)
LEMMA CreditStays ==
    ASSUME UNCHANGED <<cardOf, write, record>>,
           \A p \in Procs : at'[p] = "reclaiming" <=> at[p] = "reclaiming",
           \A p \in Procs : at[p] = "reclaiming" => run'[p] = run[p]
    PROVE  credit' = credit
<1>1. \A r \in Runs : MayWrite(r)' <=> MayWrite(r)
  BY DEF MayWrite
<1>2. \A r \in Runs : MayBeReclaimed(r)' <=> MayBeReclaimed(r)
  BY DEF MayBeReclaimed
<1> QED
  BY <1>1, <1>2 DEF credit

(* Credit may lapse.                                                       *)
LEMMA CreditLapses ==
    ASSUME UNCHANGED <<card, cardOf>>,
           \A r \in Runs : MayWrite(r)' => MayWrite(r),
           \A r \in Runs : MayBeReclaimed(r)' => MayBeReclaimed(r)
    PROVE  Contract!Next
<1>1. DOMAIN credit' = Runs
  BY DEF credit
<1>2. \A r \in Runs : credit'[r] \subseteq credit[r]
  BY DEF credit
<1>3. Contract!Lapse
  BY <1>1, <1>2 DEF Contract!Lapse
<1> QED
  BY <1>3 DEF Contract!Next

(* Every sweep that is about to move a card has a run.                     *)
LEMMA ReclaimingRuns ==
    ASSUME RInv, NEW p \in Procs, at[p] = "reclaiming"
    PROVE  run[p] \in Runs /\ cardOf[run[p]] \in Cards
           /\ record[run[p]] = "reclaimed"
    BY DEF RInv, IInv, TypeOK, Sweeps, Reclaiming

LEMMA SweepMaps ==
    ASSUME RInv, NEW p \in Procs, SweepStep(p)
    PROVE  [Contract!Next]_(Contract!vars)
<1>0. at \in [Procs -> {"idle", "done", "sweeping", "reclaiming", "parking",
                        "claiming", "recording", "launching", "gating"}]
      /\ run \in [Procs -> Runs \cup {NULL}]
      /\ record \in [Runs -> {"none", "active"} \cup Outcomes]
  BY DEF RInv, IInv, TypeOK
<1>1. CASE FindStale(p) \/ EndSweep(p)
  <2>1. UNCHANGED <<card, cardOf, write, record>>
    BY <1>1 DEF FindStale, EndSweep, boardVars, runVars
  <2>2. /\ \A q \in Procs : at'[q] = "reclaiming" <=> at[q] = "reclaiming"
        /\ run' = run
    BY <1>0, <1>1 DEF FindStale, EndSweep, Goto
  <2> QED
    BY <2>1, <2>2, CreditStays DEF Contract!vars
<1>2. ASSUME NEW r \in Runs, ReclaimRecord(p, r) PROVE Contract!Next
  <2>1. UNCHANGED <<card, cardOf, write>>
    BY <1>2 DEF ReclaimRecord, runVars
  <2>2. \A x \in Runs : MayBeReclaimed(x)' => MayBeReclaimed(x)
    <3>1. CASE record[r] = "active"
      <4>1. /\ record' = [record EXCEPT ![r] = "reclaimed"]
            /\ run' = [run EXCEPT ![p] = r]
            /\ at' = [at EXCEPT ![p] = "reclaiming"]
        BY <1>2, <3>1 DEF ReclaimRecord, Goto
      <4> QED
        BY <1>0, <3>1, <4>1 DEF MayBeReclaimed
    <3>2. CASE record[r] # "active"
      BY <1>2, <3>2 DEF ReclaimRecord, MayBeReclaimed
    <3> QED
      BY <3>1, <3>2
  <2> QED
    BY <2>1, <2>2, CreditLapses DEF MayWrite
<1>3. CASE ReclaimCard(p)
  <2>0. PICK r \in Runs : r = run[p]
    BY <1>3, ReclaimingRuns DEF ReclaimCard
  <2>1. /\ at[p] = "reclaiming" /\ r = run[p] /\ cardOf[r] \in Cards
        /\ record[r] = "reclaimed"
        /\ UNCHANGED <<record, cardOf, write>>
        /\ at' = [at EXCEPT ![p] = "sweeping"] /\ run' = [run EXCEPT ![p] = NULL]
    BY <1>3, <2>0, ReclaimingRuns DEF ReclaimCard, Goto, runVars
  <2>2. cardOf[r] # NULL /\ MayBeReclaimed(r)
    BY <2>1, BoardAssumption DEF MayBeReclaimed
  <2>3. ~MayBeReclaimed(r)'
    <3>1. \A q \in Procs \ {p} : at[q] = "reclaiming" => run[q] # r
      BY <2>1 DEF RInv, Sweeps, Reclaiming
    <3> QED
      BY <1>0, <2>1, <3>1 DEF MayBeReclaimed
  <2>4. \A x \in Runs \ {r} : MayBeReclaimed(x)' <=> MayBeReclaimed(x)
    BY <1>0, <2>1 DEF MayBeReclaimed
  <2>5. \A x \in Runs : MayWrite(x)' <=> MayWrite(x)
    BY <2>1 DEF MayWrite
  <2>6. credit' = [credit EXCEPT ![r] = @ \ {"reclaim"}]
    <3>1. ASSUME NEW x \in Runs \ {r} PROVE credit'[x] = credit[x]
      BY <2>1, <2>4, <2>5, <3>1 DEF credit
    <3>2. credit'[r] = credit[r] \ {"reclaim"}
      BY <2>1, <2>3, <2>5 DEF credit
    <3> QED
      BY <3>1, <3>2 DEF credit
  <2>7. "reclaim" \in credit[r]
    BY <2>1, <2>2, CreditFacts
  <2>8. \E status \in {"todo", "blocked"} : Contract!SetCard(cardOf[r], status)
    BY <1>3, <2>0 DEF ReclaimCard, SetCard, Contract!SetCard
  <2>9. Contract!Reclaim(r)
    BY <2>1, <2>6, <2>7, <2>8 DEF Contract!Reclaim, Contract!Spend
  <2> QED
    BY <2>1, <2>9 DEF Contract!Next
<1> QED
  BY <1>1, <1>2, <1>3 DEF SweepStep

(* The steps of a dispatcher that leave the runs alone.                    *)
LEMMA DispatcherCredit ==
    ASSUME RInv, NEW p \in Procs,
           \/ PickCard(p) \/ PickNothing(p) \/ ParkForApproval(p)
           \/ ClaimRejected(p) \/ Launch(p) \/ GateCard(p) \/ TriageStep(p)
    PROVE  credit' = credit /\ cardOf' = cardOf
<1>0. at \in [Procs -> {"idle", "done", "sweeping", "reclaiming", "parking",
                        "claiming", "recording", "launching", "gating"}]
      /\ run \in [Procs -> Runs \cup {NULL}]
  BY DEF RInv, IInv, TypeOK
<1>1. UNCHANGED <<cardOf, write, record>>
  BY DEF PickCard, PickNothing, ParkForApproval, ClaimRejected, Launch, GateCard,
    TriageStep, TriageActs, TriageDrops, boardVars, runVars
<1>2. \A q \in Procs : at'[q] = "reclaiming" <=> at[q] = "reclaiming"
  BY <1>0 DEF PickCard, PickNothing, ParkForApproval, ClaimRejected, Launch,
    GateCard, TriageStep, TriageActs, TriageDrops, Goto, Dispatch, Finish
<1>3. \A q \in Procs : at[q] = "reclaiming" => run'[q] = run[q]
  BY <1>0 DEF PickCard, PickNothing, ParkForApproval, ClaimRejected, Launch,
    GateCard, TriageStep, TriageActs, TriageDrops
<1> QED
  BY <1>1, <1>2, <1>3, CreditStays

LEMMA DispatchMaps ==
    ASSUME RInv, NEW p \in Procs, DispatchStep(p) \/ TriageStep(p)
    PROVE  [Contract!Next]_(Contract!vars)
<1>0. at \in [Procs -> {"idle", "done", "sweeping", "reclaiming", "parking",
                        "claiming", "recording", "launching", "gating"}]
      /\ run \in [Procs -> Runs \cup {NULL}]
      /\ record \in [Runs -> {"none", "active"} \cup Outcomes]
      /\ cardOf \in [Runs -> Cards \cup {NULL}]
      /\ target \in [Procs -> Cards \cup {NULL}]
  BY DEF RInv, IInv, TypeOK
<1>1. CASE PickCard(p) \/ PickNothing(p) \/ ClaimRejected(p) \/ Launch(p)
             \/ TriageStep(p)
  <2>1. card' = card
    BY <1>1 DEF PickCard, PickNothing, ClaimRejected, Launch, TriageStep,
      TriageActs, TriageDrops, boardVars
  <2> QED
    BY <1>1, <2>1, DispatcherCredit DEF Contract!vars
<1>2. CASE ParkForApproval(p)
  <2>1. credit' = credit /\ cardOf' = cardOf
    BY <1>2, DispatcherCredit
  <2>2. target[p] \in Cards
    BY <1>2 DEF ParkForApproval, RInv, IInv, TypeOK
  <2>3. CASE card[target[p]] = "todo"
    <3>1. Contract!Park(target[p])
      BY <1>2, <2>1, <2>3 DEF ParkForApproval, SetCard, Contract!Park,
        Contract!Move, Contract!SetCard
    <3> QED
      BY <2>2, <3>1 DEF Contract!Next
  <2>4. CASE card[target[p]] # "todo"
    BY <1>2, <2>1, <2>4 DEF ParkForApproval, Contract!vars
  <2> QED
    BY <2>3, <2>4
<1>3. CASE GateCard(p)
  <2>1. credit' = credit /\ cardOf' = cardOf /\ target[p] \in Cards
    BY <1>3, DispatcherCredit DEF GateCard, RInv, IInv, TypeOK
  <2>2. Contract!Reject(target[p])
    BY <1>3, <2>1 DEF GateCard, SetCard, Contract!Reject, Contract!SetCard
  <2> QED
    BY <2>1, <2>2 DEF Contract!Next
<1>4. CASE CreateRun(p)
  <2>1. /\ at[p] = "recording" /\ run[p] \in Runs /\ run' = run
        /\ record' = [record EXCEPT ![run[p]] = "active"]
        /\ at' = [at EXCEPT ![p] = "launching"]
        /\ UNCHANGED <<card, cardOf, write>>
    BY <1>0, <1>4 DEF CreateRun, Goto, runVars, RInv, IInv, TypeOK
  <2>2. record[run[p]] = "none"
    BY <2>1 DEF RInv, Sweeps
  <2>3. \A x \in Runs : MayBeReclaimed(x)' => MayBeReclaimed(x)
    BY <1>0, <2>1, <2>2 DEF MayBeReclaimed
  <2> QED
    BY <2>1, <2>3, CreditLapses DEF MayWrite
<1>5. CASE Claim(p)
  <2>1. PICK r \in Runs :
           /\ worker[r] = "none"
           /\ card' = [card EXCEPT ![target[p]] = "in_progress"]
           /\ cardOf' = [cardOf EXCEPT ![r] = target[p]]
           /\ run' = [run EXCEPT ![p] = r]
           /\ at' = [at EXCEPT ![p] = "recording"]
           /\ UNCHANGED <<record, write>>
    BY <1>5 DEF Claim, SetCard, Goto
  <2>2. /\ target[p] \in Cards /\ target[p] # NULL /\ at[p] = "claiming"
        /\ card[target[p]] \in {"todo", "ready"}
        /\ \A b \in Cards : card[b] # "in_progress"
    BY <1>5, BoardAssumption
      DEF Claim, Claimable, InProgress, RInv, IInv, TypeOK
  <2>3. cardOf[r] = NULL /\ record[r] = "none" /\ write[r] = "no"
    BY <2>1 DEF RInv, IInv, TypeOK
  <2>4. \A x \in Runs : MayWrite(x)' <=> MayWrite(x)
    BY <2>1 DEF MayWrite
  <2>5. \A x \in Runs \ {r} : MayBeReclaimed(x)' <=> MayBeReclaimed(x)
    BY <1>0, <2>1, <2>2 DEF MayBeReclaimed
  <2>6. credit' = [credit EXCEPT ![r] = {"outcome", "reclaim"}]
    <3>1. ASSUME NEW x \in Runs \ {r} PROVE credit'[x] = credit[x]
      BY <1>0, <2>1, <2>4, <2>5, <3>1 DEF credit
    <3>2. credit'[r] = {"outcome", "reclaim"}
      <4>1. cardOf'[r] # NULL
        BY <1>0, <2>1, <2>2
      <4>2. MayWrite(r)' /\ MayBeReclaimed(r)'
        BY <2>1, <2>3 DEF MayWrite, MayBeReclaimed
      <4> QED
        BY <4>1, <4>2 DEF credit
    <3> QED
      BY <3>1, <3>2 DEF credit
  <2>7. Contract!Claim(target[p], r)
    BY <2>1, <2>2, <2>3, <2>6 DEF Contract!Claim, Contract!SetCard
  <2> QED
    BY <2>2, <2>7 DEF Contract!Next
<1> QED
  BY <1>1, <1>2, <1>3, <1>4, <1>5 DEF DispatchStep

LEMMA RunMaps ==
    ASSUME RInv, NEW r \in Runs, RunStep(r) \/ Age(r)
    PROVE  [Contract!Next]_(Contract!vars)
<1>0. /\ write \in [Runs -> {"no", "reading", "editing", "completing", "done",
                             "lost"}]
      /\ record \in [Runs -> {"none", "active"} \cup Outcomes]
      /\ UNCHANGED <<cardOf, at, run>>
  BY DEF RInv, IInv, TypeOK, RunStep, WriteStep, SelfBlock, RunEnds, Cancel,
    TakeOwn, ReadStatus, EditCard, CompleteRun, Age, runVars, procVars
<1>1. CASE Age(r) \/ RunEnds(r)
  <2>1. UNCHANGED <<card, write, record>>
    BY <1>1 DEF Age, RunEnds, runVars, boardVars
  <2> QED
    BY <1>0, <2>1, CreditStays DEF Contract!vars
<1>2. CASE SelfBlock(r)
  <2>1. /\ UNCHANGED <<write, record>> /\ worker[r] = "running"
        /\ card' = [card EXCEPT ![cardOf[r]] = "blocked"]
    BY <1>2 DEF SelfBlock, SetCard, runVars
  <2>2. credit' = credit
    BY <1>0, <2>1, CreditStays
  <2>3. cardOf[r] \in Cards /\ cardOf[r] # NULL /\ write[r] = "no"
    BY <2>1 DEF RInv, IInv, TypeOK, Spent, Counted
  <2>4. "outcome" \in credit[r]
    BY <2>3, CreditFacts DEF MayWrite
  <2>5. Contract!SelfBlock(r)
    BY <1>0, <2>1, <2>2, <2>4 DEF Contract!SelfBlock, Contract!SetCard
  <2> QED
    BY <2>5 DEF Contract!Next
<1>3. CASE TakeOwn(r) \/ Cancel(r)
  <2>1. UNCHANGED <<card, record>>
    BY <1>3 DEF TakeOwn, Cancel, boardVars
  <2>2. write' = write \/ (write[r] = "no" /\
           \A x \in Runs \ {r} : write'[x] = write[x])
    BY <1>0, <1>3, WriteBackBegins DEF TakeOwn, Cancel, WriteBack
  <2>3. \A x \in Runs : MayWrite(x)' => MayWrite(x)
    BY <2>2 DEF MayWrite
  <2>4. \A x \in Runs : MayBeReclaimed(x)' => MayBeReclaimed(x)
    BY <1>0, <2>1 DEF MayBeReclaimed
  <2> QED
    BY <1>0, <2>1, <2>3, <2>4, CreditLapses
<1>4. CASE ReadStatus(r) \/ CompleteRun(r)
  <2>1. card' = card
    BY <1>4 DEF ReadStatus, CompleteRun, boardVars
  <2>2. \A x \in Runs : MayWrite(x)' => MayWrite(x)
    BY <1>0, <1>4 DEF ReadStatus, CompleteRun, MayWrite
  <2>3. \A x \in Runs : record'[x] \in {"none", "active"} => record'[x] = record[x]
    BY <1>0, <1>4 DEF ReadStatus, CompleteRun, boardVars
  <2>4. \A x \in Runs : MayBeReclaimed(x)' => MayBeReclaimed(x)
    BY <1>0, <2>3 DEF MayBeReclaimed
  <2> QED
    BY <1>0, <2>1, <2>2, <2>4, CreditLapses
<1>5. CASE EditCard(r)
  <2>1. /\ write[r] = "editing" /\ record' = record
        /\ write' = [write EXCEPT ![r] = "completing"]
        /\ \E status \in {"done", "blocked"} :
              Contract!SetCard(cardOf[r], status)
    BY <1>5 DEF EditCard, SetCard, Contract!SetCard
  <2>2. cardOf[r] # NULL /\ MayWrite(r)
    BY <2>1 DEF MayWrite, RInv, IInv, TypeOK
  <2>3. ~MayWrite(r)' /\ \A x \in Runs \ {r} : MayWrite(x)' <=> MayWrite(x)
    BY <1>0, <2>1 DEF MayWrite
  <2>4. \A x \in Runs : MayBeReclaimed(x)' <=> MayBeReclaimed(x)
    BY <1>0, <2>1 DEF MayBeReclaimed
  <2>5. credit' = [credit EXCEPT ![r] = @ \ {"outcome"}]
    <3>1. ASSUME NEW x \in Runs \ {r} PROVE credit'[x] = credit[x]
      BY <1>0, <2>3, <2>4, <3>1 DEF credit
    <3>2. credit'[r] = credit[r] \ {"outcome"}
      BY <1>0, <2>3, <2>4 DEF credit
    <3> QED
      BY <3>1, <3>2 DEF credit
  <2>6. Contract!WriteBack(r)
    BY <1>0, <2>1, <2>2, <2>5, CreditFacts
      DEF Contract!WriteBack, Contract!Spend
  <2> QED
    BY <2>6 DEF Contract!Next
<1> QED
  BY <1>1, <1>2, <1>3, <1>4, <1>5 DEF RunStep, WriteStep

LEMMA UserMaps ==
    ASSUME NEW c \in Cards, UserStep(c)
    PROVE  Contract!Next
<1>1. UNCHANGED <<cardOf, write, record, at, run>>
  BY DEF UserStep, DecidePlan, Requeue, runVars, procVars
<1>2. credit' = credit
  BY <1>1, CreditStays
<1>3. Contract!Decide(c) \/ Contract!Requeue(c)
  BY <1>1, <1>2 DEF UserStep, DecidePlan, Requeue, SetCard, Contract!Decide,
    Contract!Requeue, Contract!Move, Contract!SetCard
<1> QED
  BY <1>3 DEF Contract!Next

LEMMA CrashMaps ==
    ASSUME RInv, Crash
    PROVE  Contract!Next
<1>1. UNCHANGED <<card, cardOf, record>>
  BY DEF Crash, boardVars
<1>2. \A x \in Runs : MayWrite(x)' => MayWrite(x)
  BY DEF Crash, MayWrite
<1>3. \A x \in Runs : MayBeReclaimed(x)' => MayBeReclaimed(x)
  BY DEF Crash, boardVars, MayBeReclaimed
<1> QED
  BY <1>1, <1>2, <1>3, CreditLapses

LEMMA NextMaps ==
    ASSUME RInv, [Next]_vars
    PROVE  [Contract!Next]_(Contract!vars)
<1>1. CASE UNCHANGED vars
  <2>1. UNCHANGED <<card, cardOf, write, record, at, run>>
    BY <1>1 DEF vars, boardVars, runVars, procVars
  <2> QED
    BY <2>1, CreditStays DEF Contract!vars
<1> QED
  BY <1>1, SweepMaps, DispatchMaps, RunMaps, UserMaps, CrashMaps DEF Next

(* Whatever sweeps, cancels, ends of runs and crashes interleave, and      *)
(* wherever a crash hits: a run moves its card once with its outcome and   *)
(* once by being reclaimed, and a card is claimed only while none is in    *)
(* progress.                                                               *)
THEOREM CardsKeepContract == Spec => ImplementsContract
<1>1. Init => Contract!Init
  BY DEF Init, Contract!Init, credit
<1>2. RInv /\ [Next]_vars => [Contract!Next]_(Contract!vars)
  BY NextMaps
<1> QED
  BY <1>1, <1>2, RInvInit, RInvNext, PTL
    DEF Spec, ImplementsContract, Contract!Spec
===============================================================================
