---------------------------- MODULE FlowRunsProofs ----------------------------
(***************************************************************************)
(* Proofs about flow runs, for every set of runs, resumes, cancels and     *)
(* graphs, every retention cap and any number of gates, edits and crashes, *)
(* whether or not the store may fail.                                      *)
(***************************************************************************)
EXTENDS FlowRuns, FiniteSetTheorems, TLAPS

-------------------------------------------------------------------------------
(* The inductive invariant.                                                *)

Settled(r) == row[r] \in Terminal \cup {"pruned"}

(* The start of r is over: it has parked its run, or is gone.              *)
Past(r) == at[r] \in {"leaving", "done"}
Unexecuted(r) == \A a \in Calls : ~Executes(a, r)

(* Nobody will park r again.                                               *)
Dead(r) == Settled(r) \/
    (row[r] # "pending_approval" /\ Past(r) /\ Unexecuted(r))

(* A start owns its row and its entry until it leaves.                     *)
Starts ==
    \A r \in Runs :
        /\ at[r] \in {"idle", "registered", "leaving", "done"} \cup Owning
        /\ of[r] = r
        /\ at[r] \in {"idle", "registered"} => row[r] = "none"
        /\ at[r] \in {"registered"} \cup Owning =>
              registry[r] = r /\ loaded[r] = origin[r]
        /\ at[r] \in Owning =>
              \/ row[r] = "running" /\ born[r] = restarts
              \/ StoreFaults /\ row[r] = "none"

(* A call knows how it ended from then on until it leaves.                 *)
Endings ==
    \A a \in Calls :
        /\ at[a] = "settling" => ends[a] # NULL
        /\ at[a] \notin {"settling", "leaving"} => ends[a] = NULL

(* The others come after it.                                               *)
Later ==
    /\ \A c \in Resumes :
         /\ at[c] # "registered"
         /\ at[c] \notin {"idle", "loaded", "done"} => Past(of[c])
    /\ \A k \in Cancels :
         /\ cancelAt[k] = "read" => at[target[k]] \notin {"idle", "registered"}
         /\ cancelAt[k] \in {"settling", "dropping"} => Past(target[k])
    /\ \A r \in Runs :
         swept[r] # "nothing" \/ r \in boot.left \/ r = boot.orphan => Past(r)

(* The pin of a parked run, and what a resume has compared with it.        *)
Pinned ==
    /\ \A r \in Runs : row[r] = "pending_approval" => pin[r] = origin[r]
    /\ \A c \in Resumes :
         at[c] \in {"checked", "claiming"} \cup Owning =>
            loaded[c] = origin[of[c]]

(* Whoever owes the drop of a checkpoint owes it for a dead run; whoever   *)
(* is about to park a run that lives has its checkpoint.                   *)
Checkpoints ==
    /\ \A a \in Calls :
         /\ at[a] = "leaving" /\ ends[a] = "cancelled" => Dead(of[a])
         /\ at[a] = "dropping" => Dead(of[a])
         /\ at[a] = "settling" /\ ends[a] = "pending_approval" =>
              saved[of[a]] # 0 \/ Settled(of[a])
    /\ \A k \in Cancels : cancelAt[k] = "dropping" => Dead(target[k])
    /\ \A r \in Runs : swept[r] # "nothing" => Dead(r)

(* Nothing is announced of a run that is not settled, nor twice.           *)
Announcements ==
    \A r \in Runs :
        /\ ~Settled(r) => finished[r] = 0
        /\ swept[r] = "notice" => Settled(r) /\ finished[r] = 0

IInv == /\ TypeOK /\ Starts /\ Endings /\ Later /\ OneExecutor /\ Pinned
        /\ Checkpoints /\ ParkedIsResumable /\ Announcements /\ OneFinish

LEMMA CallsFacts ==
    /\ Runs \subseteq Calls /\ Resumes \subseteq Calls
    /\ \A a \in Calls : (a \in Runs) # (a \in Resumes)
    /\ NULL \notin Calls /\ NULL \notin Runs /\ NULL \notin Graphs
    /\ NULL \notin Ends /\ NULL # "cancelled"
    BY IdsAssumption, NullAssumption DEF Calls, Ends, Terminal

(* A prune takes settled rows, and nothing else.                           *)
LEMMA PrunedFacts ==
    ASSUME NEW status \in [Runs -> Live \cup Terminal \cup {"none", "pruned"}],
           NEW since
    PROVE  /\ Pruned(status, since)
                \in [Runs -> Live \cup Terminal \cup {"none", "pruned"}]
           /\ \A x \in Runs :
                \/ Pruned(status, since)[x] = status[x]
                \/ status[x] \in Terminal /\ Pruned(status, since)[x] = "pruned"
    BY DEF Pruned, Stale

(* Only a start itself executes its run until it leaves.                   *)
LEMMA StartAlone ==
    ASSUME TypeOK, Starts, Later, NEW r \in Runs, ~Past(r)
    PROVE  \A a \in Calls : Executes(a, r) => a = r
    BY CallsFacts DEF TypeOK, Later, Past, Executes, Owning, Starts

(* What a call that is under way knows of its run.                         *)
LEMMA Target ==
    ASSUME TypeOK, NEW a \in Calls, at[a] \notin {"idle", "done"}
    PROVE  of[a] \in Runs /\ loaded[a] \in Graphs
    BY DEF TypeOK

(* What finish_flow_run_row does to the rows.                              *)
Wrote(r, status, g, k, m) ==
    /\ row' \in [Runs -> Live \cup Terminal \cup {"none", "pruned"}]
    /\ pin' \in [Runs -> Graphs \cup {NULL}]
    /\ pending' \in [Runs -> 0..MaxGates]
    /\ finished' \in [Runs -> Nat]
    /\ \A x \in Runs \ {r} : row'[x] = row[x] /\ pin'[x] = pin[x]
           /\ pending'[x] = pending[x] /\ finished'[x] = finished[x]
    /\ m => /\ row[r] \in Live /\ row'[r] = status
            /\ pin'[r] = g /\ pending'[r] = k
    /\ ~m => row' = row /\ pin' = pin /\ pending' = pending
    /\ \/ finished'[r] = finished[r]
       \/ m /\ status \in Terminal /\ finished'[r] = finished[r] + 1

LEMMA FinishFacts ==
    ASSUME TypeOK, NEW r \in Runs, NEW status \in Ends,
           NEW g \in Graphs \cup {NULL}, NEW k \in 0..MaxGates,
           NEW m \in BOOLEAN, FinishRow(r, status, g, k, m)
    PROVE  Wrote(r, status, g, k, m)
    BY BoundsAssumption DEF Wrote, FinishRow, TypeOK, Ends, Live, Terminal

(* A run whose checkpoint is dropped is not parked.                        *)
LEMMA DeadNotParked ==
    ASSUME NEW r \in Runs, Dead(r)
    PROVE  row[r] # "pending_approval"
    BY DEF Dead, Settled, Terminal

-------------------------------------------------------------------------------
(* One lemma per action: it keeps the invariant.  Step 0 says what the     *)
(* action leaves alone, step k which conjuncts read nothing else; then one *)
(* step for each conjunct the action could disturb.                        *)

LEMMA StartKeeps ==
    ASSUME IInv, NEW r \in Runs, Start(r)
    PROVE  IInv'
<1>0. UNCHANGED <<row, pin, pending, started, born, finished, saved,
                signalled, of, from, ends, cancelAt, target, swept,
                boot, graph, edits, restarts>>
  BY DEF Start, Register, rowVars, liveVars, callVars, cancelVars, flowVars
<1>k. ParkedIsResumable' /\ Announcements' /\ OneFinish'
  BY <1>0
    DEF IInv, ParkedIsResumable, Announcements, Settled, OneFinish
<1>1. TypeOK'
  <2>1. \A x \in Calls :
          at'[x] \notin {"idle", "done"} => of'[x] # NULL /\ loaded'[x] # NULL
    <3> TAKE x \in Calls
    <3>1. CASE x = r
      BY <1>0, <3>1, CallsFacts DEF IInv, TypeOK, Starts, Start
    <3>2. CASE x # r
      BY <1>0, <3>2, CallsFacts DEF IInv, TypeOK, Start
    <3> QED
      BY <3>1, <3>2
  <2> QED
    BY <1>0, <2>1, CallsFacts, BoundsAssumption
      DEF IInv, TypeOK, Phases, Ends, Live, Terminal, Owning, Start, Register
<1>2. Starts'
  BY <1>0, CallsFacts, BoundsAssumption
    DEF IInv, TypeOK, Starts, Later, Past, Live, Terminal, Owning, Start,
        Register
<1>3. Endings'
  BY <1>0, CallsFacts, BoundsAssumption
    DEF IInv, TypeOK, Endings, Phases, Ends, Terminal, Owning, Start,
        Register
<1>4. Later'
  BY <1>0, CallsFacts, BoundsAssumption
    DEF IInv, TypeOK, Starts, Later, Past, Live, Terminal, Owning, Start,
        Register
<1>5. \A x \in Runs : Dead(x) => Dead(x)'
  BY <1>0, CallsFacts, BoundsAssumption
    DEF IInv, TypeOK, Starts, Later, Past, OneExecutor, Executes, Dead,
        Settled, Unexecuted, Live, Terminal, Owning, Start, Register
<1>6. OneExecutor'
  BY <1>0, CallsFacts, BoundsAssumption
    DEF IInv, TypeOK, Starts, Later, Past, OneExecutor, Executes, Live,
        Terminal, Owning, Start, Register
<1>7. Pinned'
  <2>1. \A x \in Resumes :
          /\ at'[x] = at[x] /\ loaded'[x] = loaded[x]
          /\ at[x] \in {"checked", "claiming"} \cup Owning =>
                of[x] \in Runs /\ of[x] # r
    BY CallsFacts DEF Start, IInv, TypeOK, Later, Past, Owning
  <2>2. \A x \in Runs : row[x] = "pending_approval" => x # r
    BY DEF Start, IInv, Starts
  <2> QED
    BY <1>0, <2>1, <2>2 DEF Start, IInv, TypeOK, Pinned
<1>8. Checkpoints'
  BY <1>0, CallsFacts, BoundsAssumption, <1>5
    DEF IInv, TypeOK, Starts, Later, Past, Endings, Checkpoints, Dead,
        Settled, Unexecuted, OneExecutor, Executes, Live, Terminal, Owning,
        Start, Register
<1> QED
  BY <1>k, <1>1, <1>2, <1>3, <1>4, <1>6, <1>7, <1>8
    DEF IInv

LEMMA InsertRowKeeps ==
    ASSUME IInv, NEW r \in Runs, NEW b \in BOOLEAN, InsertRow(r, b)
    PROVE  IInv'
<1>0. UNCHANGED <<pin, pending, finished, saved, registry, signalled, of,
                loaded, from, ends, cancelAt, target, swept, boot,
                graph, edits, origin, restarts>>
  BY DEF InsertRow, Become, rowVars, liveVars, callVars, cancelVars, flowVars
<1>p. /\ row' \in [Runs -> Live \cup Terminal \cup {"none", "pruned"}]
      /\ \A x \in Runs \ {r} : row'[x] = row[x]
            \/ (row[x] \in Terminal /\ row'[x] = "pruned")
      /\ row'[r] = IF b THEN "running" ELSE row[r]
  <2>1. CASE b
    <3> DEFINE inserted == [row EXCEPT ![r] = "running"]
    <3>1. inserted \in [Runs -> Live \cup Terminal \cup {"none", "pruned"}]
      BY DEF IInv, TypeOK, Live
    <3>2. row' = Pruned(inserted, started') \/ row' = inserted
      BY <2>1 DEF InsertRow
    <3>3. inserted[r] = "running" /\ \A x \in Runs \ {r} : inserted[x] = row[x]
      BY DEF IInv, TypeOK
    <3> HIDE DEF inserted
    <3> QED
      BY <2>1, <3>1, <3>2, <3>3, PrunedFacts DEF Terminal, Live
  <2>2. CASE ~b
    BY <2>2 DEF InsertRow, IInv, TypeOK
  <2> QED
    BY <2>1, <2>2
<1>q. /\ at[r] = "registered" /\ at' = [at EXCEPT ![r] = "started"]
      /\ b \/ StoreFaults
      /\ row[r] = "none"
  BY DEF InsertRow, Become, IInv, Starts
<1>s. /\ started' \in [Runs -> Nat] /\ born' \in [Runs -> 0..MaxRestarts]
      /\ b => born'[r] = restarts
      /\ \A x \in Runs \ {r} : born'[x] = born[x]
  <2> DEFINE rank == Cardinality({q \in Runs : row[q] # "none"})
  <2>1. rank \in Nat
    BY RunsAssumption, FS_CardinalityType, FS_Subset
  <2>2. started' = started \/ started' = [started EXCEPT ![r] = rank + 1]
    BY DEF InsertRow
  <2> HIDE DEF rank
  <2>3. rank + 1 \in Nat
    BY <2>1
  <2>4. started' \in [Runs -> Nat]
    BY <2>2, <2>3 DEF IInv, TypeOK
  <2> QED
    BY <2>4 DEF InsertRow, IInv, TypeOK
<1>1. TypeOK'
  BY <1>0, <1>p, <1>q, <1>s, CallsFacts, BoundsAssumption
    DEF IInv, TypeOK, Endings, Phases, Ends, Live, Terminal, Owning
<1>2. Starts'
  BY <1>0, <1>p, <1>q, <1>s, CallsFacts, BoundsAssumption
    DEF IInv, TypeOK, Starts, Later, Past, Live, Terminal, Owning
<1>3. Endings'
  BY <1>0, <1>p, <1>q, <1>s, CallsFacts, BoundsAssumption
    DEF IInv, TypeOK, Endings, Phases, Ends, Terminal, Owning
<1>4. Later'
  BY <1>0, <1>p, <1>q, <1>s, CallsFacts, BoundsAssumption
    DEF IInv, TypeOK, Starts, Later, Past, Live, Terminal, Owning
<1>5. \A x \in Runs : Dead(x) => Dead(x)'
  BY <1>0, <1>p, <1>q, <1>s, CallsFacts, BoundsAssumption
    DEF IInv, TypeOK, Starts, Later, Past, OneExecutor, Executes, Dead,
        Settled, Unexecuted, Live, Terminal, Owning
<1>6. OneExecutor'
  <2>1. \A a \in Calls : Executes(a, r) => a = r
    BY <1>q, StartAlone DEF IInv, Past
  <2>2. \A a \in Calls, x \in Runs :
          Executes(a, x)' => Executes(a, x) \/ (a = r /\ x = r)
    BY <1>0, <1>q, CallsFacts DEF IInv, TypeOK, Executes, Starts
  <2>3. \A x \in Runs :
          row'[x] = "pending_approval" => x # r /\ row[x] = "pending_approval"
    BY <1>p, <1>q
  <2> QED
    BY <2>1, <2>2, <2>3 DEF IInv, OneExecutor
<1>7. Pinned'
  <2>1. \A x \in Runs :
          row'[x] = "pending_approval" => row[x] = "pending_approval"
    BY <1>p, <1>q
  <2>2. \A c \in Resumes : at'[c] = at[c]
    BY <1>q, CallsFacts DEF IInv, TypeOK
  <2> QED
    BY <1>0, <2>1, <2>2 DEF IInv, Pinned
<1>8. Checkpoints'
  <2>1. \A x \in Calls :
          /\ at'[x] = "leaving" /\ ends'[x] = "cancelled" =>
                (at[x] = "leaving" /\ ends[x] = "cancelled")
          /\ at'[x] = "dropping" => at[x] = "dropping"
          /\ at'[x] = "settling" /\ ends'[x] = "pending_approval" =>
                at[x] = "settling" /\ ends[x] = "pending_approval"
    BY <1>0, <1>p, <1>q DEF IInv, TypeOK, Endings
  <2>2. \A x \in Runs : Settled(x) => Settled(x)'
    BY <1>0, <1>p, <1>q DEF IInv, TypeOK, Endings, Settled, Terminal, Live
  <2> QED
    BY <1>0, <1>5, <2>1, <2>2, CallsFacts
      DEF IInv, TypeOK, Checkpoints
<1>9. ParkedIsResumable'
  <2>1. \A x \in Runs :
          row'[x] = "pending_approval" => row[x] = "pending_approval"
    BY <1>p, <1>q
  <2> QED
    BY <1>0, <2>1 DEF IInv, ParkedIsResumable
<1>10. Announcements'
  BY <1>0, <1>p, <1>q, <1>s, CallsFacts, BoundsAssumption
    DEF IInv, TypeOK, Starts, Later, Past, Announcements, Settled,
        OneFinish, Live, Terminal, Owning
<1>11. OneFinish'
  BY <1>0, <1>p, <1>q, <1>s, CallsFacts, BoundsAssumption
    DEF IInv, TypeOK, Starts, Announcements, Settled, OneFinish, Live,
        Terminal, Owning
<1> QED
  BY <1>1, <1>2, <1>3, <1>4, <1>6, <1>7, <1>8, <1>9, <1>10, <1>11
    DEF IInv

LEMMA BeginEngineKeeps ==
    ASSUME IInv, NEW a \in Calls, BeginEngine(a)
    PROVE  IInv'
<1>0. UNCHANGED <<row, pin, pending, started, born, finished, saved, registry,
                signalled, of, loaded, cancelAt, target, swept, boot,
                graph, edits, origin, restarts>>
  BY DEF BeginEngine, Settling, Elsewhere, rowVars, liveVars, callVars,
     cancelVars, flowVars
<1>k. ParkedIsResumable' /\ Announcements' /\ OneFinish'
  BY <1>0
    DEF IInv, ParkedIsResumable, Announcements, Settled, OneFinish
<1>1. TypeOK'
  <2>1. a \in Calls /\ of[a] \in Runs /\ saved[of[a]] \in 0..MaxGates
    BY Target DEF IInv, TypeOK, BeginEngine
  <2>2. /\ at' \in [Calls -> Phases] /\ from' \in [Calls -> 0..MaxGates]
        /\ ends' \in [Calls -> Ends \cup {NULL}]
    BY <2>1 DEF BeginEngine, Settling, IInv, TypeOK, Phases, Owning, Ends,
      Terminal
  <2>3. \A x \in Calls : at'[x] \notin {"idle", "done"} =>
          at[x] \notin {"idle", "done"}
    BY <2>1 DEF BeginEngine, Settling, IInv, TypeOK
  <2> QED
    BY <1>0, <2>2, <2>3 DEF IInv, TypeOK
<1>2. Starts'
  BY <1>0, CallsFacts, BoundsAssumption
    DEF IInv, TypeOK, Starts, Later, Past, Live, Terminal, Owning,
        BeginEngine, Settling, Elsewhere
<1>3. Endings'
  BY <1>0, CallsFacts, BoundsAssumption
    DEF IInv, TypeOK, Endings, Phases, Ends, Terminal, Owning, BeginEngine,
        Settling, Elsewhere
<1>4. Later'
  BY <1>0, CallsFacts, BoundsAssumption
    DEF IInv, TypeOK, Starts, Later, Past, Live, Terminal, Owning,
        BeginEngine, Settling, Elsewhere
<1>5. \A x \in Runs : Dead(x) => Dead(x)'
  BY <1>0, CallsFacts, BoundsAssumption
    DEF IInv, TypeOK, Starts, Later, Past, OneExecutor, Executes, Dead,
        Settled, Unexecuted, Live, Terminal, Owning, BeginEngine, Settling,
        Elsewhere
<1>6. OneExecutor'
  <2>1. \A x \in Calls : at'[x] \in Owning => at[x] \in Owning
    BY DEF BeginEngine, Settling, IInv, TypeOK, Owning
  <2> QED
    BY <1>0, <2>1 DEF IInv, OneExecutor, Executes
<1>7. Pinned'
  BY <1>0, CallsFacts, BoundsAssumption
    DEF IInv, TypeOK, Starts, Later, Past, Pinned, OneExecutor, Executes,
        Live, Terminal, Owning, BeginEngine, Settling, Elsewhere
<1>8. Checkpoints'
  <2>1. \A x \in Calls :
          /\ at'[x] = "leaving" /\ ends'[x] = "cancelled" =>
                (at[x] = "leaving" /\ ends[x] = "cancelled")
          /\ at'[x] = "dropping" => at[x] = "dropping"
          /\ at'[x] = "settling" /\ ends'[x] = "pending_approval" =>
                at[x] = "settling" /\ ends[x] = "pending_approval"
    BY <1>0 DEF IInv, TypeOK, Endings, BeginEngine, Settling
  <2>2. \A x \in Runs : Settled(x) => Settled(x)'
    BY <1>0
      DEF IInv, TypeOK, Endings, BeginEngine, Settling, Settled, Terminal,
          Live
  <2> QED
    BY <1>0, <1>5, <2>1, <2>2, CallsFacts
      DEF IInv, TypeOK, Checkpoints
<1> QED
  BY <1>k, <1>1, <1>2, <1>3, <1>4, <1>6, <1>7, <1>8
    DEF IInv

LEMMA EnginePausesKeeps ==
    ASSUME IInv, NEW a \in Calls, EnginePauses(a)
    PROVE  IInv'
<1>0. UNCHANGED <<row, pin, pending, started, born, finished, registry,
                signalled, of, loaded, from, cancelAt, target, swept,
                boot, graph, edits, origin, restarts>>
  BY DEF EnginePauses, Settling, rowVars, liveVars, callVars, cancelVars,
     flowVars
<1>k. Announcements' /\ OneFinish'
  BY <1>0
    DEF IInv, Announcements, Settled, OneFinish
<1>1. TypeOK'
  BY <1>0, CallsFacts, BoundsAssumption
    DEF IInv, TypeOK, Endings, Phases, Ends, Live, Terminal, Owning,
        EnginePauses, Settling
<1>2. Starts'
  BY <1>0, CallsFacts, BoundsAssumption
    DEF IInv, TypeOK, Starts, Later, Past, Live, Terminal, Owning,
        EnginePauses, Settling
<1>3. Endings'
  BY <1>0, CallsFacts, BoundsAssumption
    DEF IInv, TypeOK, Endings, Phases, Ends, Terminal, Owning, EnginePauses,
        Settling
<1>4. Later'
  BY <1>0, CallsFacts, BoundsAssumption
    DEF IInv, TypeOK, Starts, Later, Past, Live, Terminal, Owning,
        EnginePauses, Settling
<1>5. \A x \in Runs : Dead(x) => Dead(x)'
  BY <1>0, CallsFacts, BoundsAssumption
    DEF IInv, TypeOK, Starts, Later, Past, OneExecutor, Executes, Dead,
        Settled, Unexecuted, Live, Terminal, Owning, EnginePauses, Settling
<1>6. OneExecutor'
  BY <1>0, CallsFacts, BoundsAssumption
    DEF IInv, TypeOK, Starts, Later, Past, OneExecutor, Executes, Live,
        Terminal, Owning, EnginePauses, Settling
<1>7. Pinned'
  BY <1>0, CallsFacts, BoundsAssumption
    DEF IInv, TypeOK, Starts, Later, Past, Pinned, OneExecutor, Executes,
        Live, Terminal, Owning, EnginePauses, Settling
<1>8. Checkpoints'
  BY <1>0, CallsFacts, BoundsAssumption, <1>5
    DEF IInv, TypeOK, Starts, Later, Past, Endings, Checkpoints, Dead,
        Settled, Unexecuted, OneExecutor, Executes, Live, Terminal, Owning,
        EnginePauses, Settling
<1>9. ParkedIsResumable'
  BY <1>0, CallsFacts, BoundsAssumption
    DEF IInv, TypeOK, Starts, Checkpoints, Dead, Settled, Unexecuted,
        OneExecutor, Executes, Past, ParkedIsResumable, Live, Terminal, Owning,
        EnginePauses, Settling
<1> QED
  BY <1>k, <1>1, <1>2, <1>3, <1>4, <1>6, <1>7, <1>8, <1>9
    DEF IInv

LEMMA SettlingKeeps ==
    ASSUME IInv, NEW a \in Calls, at[a] \in {"started", "executing"},
           NEW status \in Terminal, Settling(a, status), Elsewhere
    PROVE  IInv'
<1>0. UNCHANGED <<row, pin, pending, started, born, finished, saved, registry,
                signalled, of, loaded, from, cancelAt, target, swept,
                boot, graph, edits, origin, restarts>>
  BY DEF Settling, Elsewhere, rowVars, liveVars, callVars, cancelVars, flowVars
<1>k. ParkedIsResumable' /\ Announcements' /\ OneFinish'
  BY <1>0
    DEF IInv, ParkedIsResumable, Announcements, Settled, OneFinish
<1>1. TypeOK'
  BY <1>0, CallsFacts, BoundsAssumption
    DEF IInv, TypeOK, Endings, Phases, Ends, Live, Terminal, Owning,
        Settling, Elsewhere
<1>2. Starts'
  BY <1>0, CallsFacts, BoundsAssumption
    DEF IInv, TypeOK, Starts, Later, Past, Live, Terminal, Owning, Settling,
        Elsewhere
<1>3. Endings'
  BY <1>0, CallsFacts, BoundsAssumption
    DEF IInv, TypeOK, Endings, Phases, Ends, Terminal, Owning, Settling,
        Elsewhere
<1>4. Later'
  BY <1>0, CallsFacts, BoundsAssumption
    DEF IInv, TypeOK, Starts, Later, Past, Live, Terminal, Owning, Settling,
        Elsewhere
<1>5. \A x \in Runs : Dead(x) => Dead(x)'
  BY <1>0, CallsFacts, BoundsAssumption
    DEF IInv, TypeOK, Starts, Later, Past, OneExecutor, Executes, Dead,
        Settled, Unexecuted, Live, Terminal, Owning, Settling, Elsewhere
<1>6. OneExecutor'
  BY <1>0, CallsFacts, BoundsAssumption
    DEF IInv, TypeOK, Starts, Later, Past, OneExecutor, Executes, Live,
        Terminal, Owning, Settling, Elsewhere
<1>7. Pinned'
  BY <1>0, CallsFacts, BoundsAssumption
    DEF IInv, TypeOK, Starts, Later, Past, Pinned, OneExecutor, Executes,
        Live, Terminal, Owning, Settling, Elsewhere
<1>8. Checkpoints'
  BY <1>0, CallsFacts, BoundsAssumption, <1>5
    DEF IInv, TypeOK, Starts, Later, Past, Endings, Checkpoints, Dead,
        Settled, Unexecuted, OneExecutor, Executes, Live, Terminal, Owning,
        Settling, Elsewhere
<1> QED
  BY <1>k, <1>1, <1>2, <1>3, <1>4, <1>6, <1>7, <1>8
    DEF IInv

LEMMA WriteEndKeeps ==
    ASSUME IInv, NEW a \in Calls, NEW b \in BOOLEAN, WriteEnd(a, b)
    PROVE  IInv'
<1>0. UNCHANGED <<started, born, saved, registry, signalled, of, loaded,
                from, ends, cancelAt, target, swept, boot, graph,
                edits, origin, restarts>>
  BY DEF WriteEnd, Become, FinishRow, SettleRow, rowVars, liveVars, callVars,
     cancelVars, flowVars
<1>t. of[a] \in Runs /\ loaded[a] \in Graphs /\ at[a] = "settling"
      /\ ends[a] \in Ends /\ saved[of[a]] \in 0..MaxGates
  BY Target DEF IInv, WriteEnd, Endings, TypeOK
<1>p. /\ \E g, k : Wrote(of[a], ends[a], g, k, b)
      /\ ends[a] = "pending_approval" =>
            Wrote(of[a], ends[a], loaded[a], saved[of[a]], b)
  <2>1. CASE ends[a] = "pending_approval"
    <3>1. FinishRow(of[a], ends[a], loaded[a], saved[of[a]], b)
      BY <2>1 DEF WriteEnd
    <3>2. Wrote(of[a], ends[a], loaded[a], saved[of[a]], b)
      BY <1>t, <3>1, FinishFacts DEF IInv
    <3> QED
      BY <3>2
  <2>2. CASE ends[a] # "pending_approval"
    <3>1. FinishRow(of[a], ends[a], NULL, 0, b) /\ 0 \in 0..MaxGates
      BY <2>2, BoundsAssumption DEF WriteEnd, SettleRow
    <3>2. Wrote(of[a], ends[a], NULL, 0, b)
      BY <1>t, <3>1, FinishFacts DEF IInv
    <3> QED
      BY <2>2, <3>2
  <2> QED
    BY <2>1, <2>2
<1>s. \A x \in Runs \ {of[a]} : row'[x] = row[x] /\ pin'[x] = pin[x]
         /\ pending'[x] = pending[x]
  BY <1>p DEF Wrote
<1>q. at' = [at EXCEPT ![a] = "leaving"]
  BY DEF WriteEnd, Become
<1>r. /\ row[of[a]] # "pending_approval" /\ (a \in Runs \/ Past(of[a]))
      /\ \A x \in Calls : Executes(x, of[a]) => x = a
  BY <1>t, CallsFacts
    DEF IInv, OneExecutor, Executes, Later, Owning
<1>1. TypeOK'
  BY <1>0, <1>t, <1>p, <1>q, <1>r, CallsFacts, BoundsAssumption
    DEF IInv, TypeOK, Endings, Phases, Ends, Live, Terminal, Owning, Wrote
<1>2. Starts'
  BY <1>0, <1>t, <1>p, <1>q, <1>r, CallsFacts, BoundsAssumption
    DEF IInv, TypeOK, Starts, Later, Past, Live, Terminal, Owning, Wrote
<1>3. Endings'
  BY <1>0, <1>t, <1>p, <1>q, <1>r, CallsFacts, BoundsAssumption
    DEF IInv, TypeOK, Endings, Phases, Ends, Terminal, Owning, Wrote
<1>4. Later'
  BY <1>0, <1>t, <1>p, <1>q, <1>r, CallsFacts, BoundsAssumption
    DEF IInv, TypeOK, Starts, Later, Past, Live, Terminal, Owning, Wrote
<1>5. \A x \in Runs : Dead(x) => Dead(x)'
  BY <1>0, <1>t, <1>p, <1>q, <1>r, CallsFacts, BoundsAssumption
    DEF IInv, TypeOK, Starts, Later, Past, OneExecutor, Executes, Dead,
        Settled, Unexecuted, Live, Terminal, Owning, Wrote
<1>6. OneExecutor'
  BY <1>0, <1>t, <1>p, <1>q, <1>r, CallsFacts, BoundsAssumption
    DEF IInv, TypeOK, Starts, Later, Past, OneExecutor, Executes, Live,
        Terminal, Owning, Wrote
<1>7. Pinned'
  <2>1. loaded[a] = origin[of[a]]
    BY <1>t, CallsFacts DEF IInv, Starts, Pinned, Owning
  <2>2. \A x \in Runs : row'[x] = "pending_approval" =>
          \/ row[x] = "pending_approval" /\ pin'[x] = pin[x]
          \/ x = of[a] /\ pin'[x] = loaded[a]
    <3> TAKE x \in Runs
    <3>1. CASE x = of[a]
      BY <1>p, <1>r, <3>1 DEF Wrote
    <3>2. CASE x # of[a]
      BY <1>s, <3>2
    <3> QED
      BY <3>1, <3>2
  <2>3. \A x \in Resumes : at'[x] \in {"checked", "claiming"} \cup Owning =>
          at'[x] = at[x]
    BY <1>q, CallsFacts DEF IInv, TypeOK, Owning
  <2> QED
    BY <1>0, <2>1, <2>2, <2>3 DEF IInv, Pinned
<1>8. Checkpoints'
  <2>1. \A x \in Calls :
          /\ at'[x] = "leaving" /\ ends'[x] = "cancelled" =>
                (at[x] = "leaving" /\ ends[x] = "cancelled") \/ x = a
          /\ at'[x] = "dropping" => at[x] = "dropping"
          /\ at'[x] = "settling" /\ ends'[x] = "pending_approval" =>
                at[x] = "settling" /\ ends[x] = "pending_approval"
    BY <1>0, <1>p, <1>q, <1>r, <1>t DEF Wrote, IInv, TypeOK, Endings
  <2>2. \A x \in Runs : Settled(x) => Settled(x)'
    BY <1>0, <1>p, <1>q, <1>r, <1>t
      DEF Wrote, IInv, TypeOK, Endings, Settled, Terminal, Live
  <2>3. ends[a] = "cancelled" => Dead(of[a])'
    <3>1. CASE b /\ ends[a] = "cancelled"
      BY <1>0, <1>p, <1>t, <3>1 DEF Wrote, Dead, Settled, Terminal
    <3>2. CASE ~b
      <4>1. row'[of[a]] # "pending_approval"
        BY <1>p, <1>r, <3>2 DEF Wrote
      <4>2. Past(of[a])'
        BY <1>0, <1>q, <1>r, <1>t DEF Past, IInv, TypeOK, Starts
      <4>3. Unexecuted(of[a])'
        BY <1>0, <1>q, <1>r, <1>t
          DEF Unexecuted, Executes, Owning, IInv, TypeOK
      <4> QED
        BY <1>0, <4>1, <4>2, <4>3 DEF Dead
    <3> QED
      BY <3>1, <3>2
  <2> QED
    BY <1>0, <1>5, <2>1, <2>2, <2>3, <1>1, <1>t, CallsFacts
      DEF IInv, TypeOK, Checkpoints
<1>9. ParkedIsResumable'
  <2>1. b /\ ends[a] = "pending_approval" => saved[of[a]] # 0
    BY <1>p, <1>t DEF Wrote, IInv, Checkpoints, Settled, Live, Terminal
  <2>2. \A x \in Runs : row'[x] = "pending_approval" =>
          \/ row[x] = "pending_approval" /\ pending'[x] = pending[x]
          \/ x = of[a] /\ b /\ ends[a] = "pending_approval"
    <3> TAKE x \in Runs
    <3>1. CASE x = of[a]
      BY <1>p, <1>r, <3>1 DEF Wrote
    <3>2. CASE x # of[a]
      BY <1>s, <3>2
    <3> QED
      BY <3>1, <3>2
  <2> QED
    BY <1>0, <1>p, <2>1, <2>2 DEF Wrote, IInv, ParkedIsResumable
<1>10. Announcements'
  BY <1>0, <1>t, <1>p, <1>q, <1>r, CallsFacts, BoundsAssumption
    DEF IInv, TypeOK, Starts, Later, Past, Announcements, Settled,
        OneFinish, Live, Terminal, Owning, Wrote
<1>11. OneFinish'
  BY <1>0, <1>t, <1>p, <1>q, <1>r, CallsFacts, BoundsAssumption
    DEF IInv, TypeOK, Starts, Announcements, Settled, OneFinish, Live,
        Terminal, Owning, Wrote
<1> QED
  BY <1>1, <1>2, <1>3, <1>4, <1>6, <1>7, <1>8, <1>9, <1>10, <1>11
    DEF IInv

LEMMA DropCancelledKeeps ==
    ASSUME IInv, NEW a \in Calls, DropCancelled(a)
    PROVE  IInv'
<1>0. UNCHANGED <<row, pin, pending, started, born, finished, registry,
                signalled, at, of, loaded, from, cancelAt, target,
                swept, boot, graph, edits, origin, restarts>>
  BY DEF DropCancelled, DropCheckpoint, rowVars, liveVars, callVars,
     cancelVars, flowVars
<1>k. Starts' /\ Later' /\ OneExecutor' /\ Pinned' /\ Announcements' /\
      OneFinish'
  BY <1>0
    DEF IInv, Starts, Later, Past, OneExecutor, Executes, Pinned,
        Announcements, Settled, OneFinish
<1>1. TypeOK'
  BY <1>0, CallsFacts, BoundsAssumption
    DEF IInv, TypeOK, Endings, Phases, Ends, Live, Terminal, Owning,
        DropCancelled, DropCheckpoint
<1>2. Endings'
  BY <1>0, CallsFacts, BoundsAssumption
    DEF IInv, TypeOK, Endings, Phases, Ends, Terminal, Owning,
        DropCancelled, DropCheckpoint
<1>3. \A x \in Runs : Dead(x) => Dead(x)'
  BY <1>0
    DEF IInv, Dead, Settled, Unexecuted, Executes, Past
<1>4. Checkpoints'
  BY <1>0, CallsFacts, BoundsAssumption, <1>3
    DEF IInv, TypeOK, Starts, Later, Past, Endings, Checkpoints, Dead,
        Settled, Unexecuted, OneExecutor, Executes, Live, Terminal, Owning,
        DropCancelled, DropCheckpoint
<1>5. ParkedIsResumable'
  <2>1. row[of[a]] # "pending_approval"
    BY Target, DeadNotParked
      DEF IInv, Checkpoints, TypeOK, DropCancelled, DropCheckpoint
  <2>2. \A x \in Runs \ {of[a]} : saved'[x] = saved[x]
    BY DEF IInv, TypeOK, DropCancelled, DropCheckpoint
  <2> QED
    BY <1>0, <2>1, <2>2 DEF IInv, ParkedIsResumable
<1> QED
  BY <1>k, <1>1, <1>2, <1>4, <1>5
    DEF IInv

LEMMA LeaveKeeps ==
    ASSUME IInv, NEW a \in Calls, Leave(a)
    PROVE  IInv'
<1>0. UNCHANGED <<row, pin, pending, started, born, finished, saved,
                signalled, of, cancelAt, target, swept, boot, graph, edits,
                origin, restarts>>
  BY DEF Leave, Deregister, End, rowVars, liveVars, callVars, cancelVars,
     flowVars
<1>k. ParkedIsResumable' /\ Announcements' /\ OneFinish'
  BY <1>0
    DEF IInv, ParkedIsResumable, Announcements, Settled, OneFinish
<1>1. TypeOK'
  BY <1>0, CallsFacts, BoundsAssumption
    DEF IInv, TypeOK, Endings, Phases, Ends, Live, Terminal, Owning, Leave,
        Deregister, End
<1>2. Starts'
  BY <1>0, CallsFacts, BoundsAssumption
    DEF IInv, TypeOK, Starts, Later, Past, Live, Terminal, Owning, Leave,
        Deregister, End
<1>3. Endings'
  BY <1>0, CallsFacts, BoundsAssumption
    DEF IInv, TypeOK, Endings, Phases, Ends, Terminal, Owning, Leave,
        Deregister, End
<1>4. Later'
  BY <1>0, CallsFacts, BoundsAssumption
    DEF IInv, TypeOK, Starts, Later, Past, Live, Terminal, Owning, Leave,
        Deregister, End
<1>5. \A x \in Runs : Dead(x) => Dead(x)'
  BY <1>0, CallsFacts, BoundsAssumption
    DEF IInv, TypeOK, Starts, Later, Past, OneExecutor, Executes, Dead,
        Settled, Unexecuted, Live, Terminal, Owning, Leave, Deregister, End
<1>6. OneExecutor'
  BY <1>0, CallsFacts, BoundsAssumption
    DEF IInv, TypeOK, Starts, Later, Past, OneExecutor, Executes, Live,
        Terminal, Owning, Leave, Deregister, End
<1>7. Pinned'
  BY <1>0, CallsFacts, BoundsAssumption
    DEF IInv, TypeOK, Starts, Later, Past, Pinned, OneExecutor, Executes,
        Live, Terminal, Owning, Leave, Deregister, End
<1>8. Checkpoints'
  BY <1>0, CallsFacts, BoundsAssumption, <1>5
    DEF IInv, TypeOK, Starts, Later, Past, Endings, Checkpoints, Dead,
        Settled, Unexecuted, OneExecutor, Executes, Live, Terminal, Owning,
        Leave, Deregister, End
<1> QED
  BY <1>k, <1>1, <1>2, <1>3, <1>4, <1>6, <1>7, <1>8
    DEF IInv

LEMMA LoadFlowKeeps ==
    ASSUME IInv, NEW c \in Resumes, NEW r \in Runs, LoadFlow(c, r)
    PROVE  IInv'
<1>0. UNCHANGED <<row, pin, pending, started, born, finished, saved, registry,
                signalled, from, ends, cancelAt, target, swept, boot,
                graph, edits, origin, restarts>>
  BY DEF LoadFlow, Elsewhere, rowVars, liveVars, callVars, cancelVars, flowVars
<1>k. ParkedIsResumable' /\ Announcements' /\ OneFinish'
  BY <1>0
    DEF IInv, ParkedIsResumable, Announcements, Settled, OneFinish
<1>1. TypeOK'
  BY <1>0, CallsFacts, BoundsAssumption
    DEF IInv, TypeOK, Endings, Phases, Ends, Live, Terminal, Owning,
        LoadFlow, Elsewhere
<1>2. Starts'
  BY <1>0, CallsFacts, BoundsAssumption
    DEF IInv, TypeOK, Starts, Later, Past, Live, Terminal, Owning, LoadFlow,
        Elsewhere
<1>3. Endings'
  BY <1>0, CallsFacts, BoundsAssumption
    DEF IInv, TypeOK, Endings, Phases, Ends, Terminal, Owning, LoadFlow,
        Elsewhere
<1>4. Later'
  BY <1>0, CallsFacts, BoundsAssumption
    DEF IInv, TypeOK, Starts, Later, Past, Live, Terminal, Owning, LoadFlow,
        Elsewhere
<1>5. \A x \in Runs : Dead(x) => Dead(x)'
  BY <1>0, CallsFacts, BoundsAssumption
    DEF IInv, TypeOK, Starts, Later, Past, OneExecutor, Executes, Dead,
        Settled, Unexecuted, Live, Terminal, Owning, LoadFlow, Elsewhere
<1>6. OneExecutor'
  BY <1>0, CallsFacts, BoundsAssumption
    DEF IInv, TypeOK, Starts, Later, Past, OneExecutor, Executes, Live,
        Terminal, Owning, LoadFlow, Elsewhere
<1>7. Pinned'
  BY <1>0, CallsFacts, BoundsAssumption
    DEF IInv, TypeOK, Starts, Later, Past, Pinned, OneExecutor, Executes,
        Live, Terminal, Owning, LoadFlow, Elsewhere
<1>8. Checkpoints'
  BY <1>0, CallsFacts, BoundsAssumption, <1>5
    DEF IInv, TypeOK, Starts, Later, Past, Endings, Checkpoints, Dead,
        Settled, Unexecuted, OneExecutor, Executes, Live, Terminal, Owning,
        LoadFlow, Elsewhere
<1> QED
  BY <1>k, <1>1, <1>2, <1>3, <1>4, <1>6, <1>7, <1>8
    DEF IInv

LEMMA CheckRowKeeps ==
    ASSUME IInv, NEW c \in Resumes, CheckRow(c)
    PROVE  IInv'
<1>0. UNCHANGED <<row, pin, pending, started, born, finished, saved, registry,
                signalled, of, cancelAt, target, swept, boot, graph, edits,
                origin, restarts>>
  BY DEF CheckRow, End, Become, Elsewhere, rowVars, liveVars, callVars,
     cancelVars, flowVars
<1>k. ParkedIsResumable' /\ Announcements' /\ OneFinish'
  BY <1>0
    DEF IInv, ParkedIsResumable, Announcements, Settled, OneFinish
<1>1. TypeOK'
  <2>1. /\ at' \in [Calls -> Phases] /\ loaded' \in [Calls -> Graphs \cup {NULL}]
        /\ from' \in [Calls -> 0..MaxGates]
        /\ ends' \in [Calls -> Ends \cup {NULL}]
    <3>1. c \in Calls /\ at[c] = "loaded" /\ of[c] \in Runs
      BY CallsFacts, Target DEF IInv, CheckRow
    <3>2. pending[of[c]] \in 0..MaxGates /\ 0 \in 0..MaxGates
      BY <3>1, BoundsAssumption DEF IInv, TypeOK
    <3>3. CASE End(c)
      BY <3>1, <3>2, <3>3 DEF End, IInv, TypeOK, Phases
    <3>4. CASE Become(c, "refusing")
      BY <3>1, <3>4 DEF Become, IInv, TypeOK, Phases
    <3>5. CASE /\ at' = [at EXCEPT ![c] = "checked"]
               /\ UNCHANGED <<of, loaded, from, ends>>
      BY <3>1, <3>2, <3>5 DEF IInv, TypeOK, Phases
    <3> QED
      BY <3>3, <3>4, <3>5 DEF CheckRow
  <2>2. \A x \in Calls :
          at'[x] \notin {"idle", "done"} => of'[x] # NULL /\ loaded'[x] # NULL
    BY <1>0, CallsFacts DEF IInv, TypeOK, CheckRow, End, Become
  <2> QED
    BY <1>0, <2>1, <2>2 DEF IInv, TypeOK
<1>a. /\ c \in Calls /\ c \notin Runs
      /\ at[c] = "loaded" /\ at'[c] \in {"checked", "refusing", "done"}
      /\ \A x \in Calls \ {c} : at'[x] = at[x] /\ loaded'[x] = loaded[x]
             /\ ends'[x] = ends[x]
  BY CallsFacts DEF CheckRow, End, Become, IInv, TypeOK
<1>b. at'[c] # "done" => Past(of[c])
  <2>1. at'[c] # "done" => row[of[c]] = "pending_approval"
    BY <1>a DEF CheckRow, End, Become, IInv, TypeOK
  <2>2. of[c] \in Runs
    BY <1>a, Target DEF IInv
  <2> QED
    BY <2>1, <2>2 DEF IInv, Starts, Past, Owning
<1>2. Starts'
  BY <1>0, CallsFacts, BoundsAssumption
    DEF IInv, TypeOK, Starts, Later, Past, Live, Terminal, Owning, CheckRow,
        End, Become, Elsewhere
<1>3. Endings'
  BY <1>0, CallsFacts, BoundsAssumption
    DEF IInv, TypeOK, Endings, Phases, Ends, Terminal, Owning, CheckRow,
        End, Become, Elsewhere
<1>4. Later'
  <2>1. \A r \in Runs : at'[r] = at[r]
    BY <1>a, CallsFacts
  <2>2. \A x \in Resumes : x # c => at'[x] = at[x]
    BY <1>a, CallsFacts
  <2>3. /\ of[c] \in Runs
        /\ \A x \in Resumes :
             at[x] \notin {"idle", "loaded", "done"} => of[x] \in Runs
        /\ \A k \in Cancels : cancelAt[k] # "idle" /\ cancelAt[k] # "done"
             => target[k] \in Runs
    BY <1>a, CallsFacts, Target DEF IInv, TypeOK
  <2>4. \A x \in Resumes :
          /\ at'[x] # "registered"
          /\ at'[x] \notin {"idle", "loaded", "done"} => Past(of[x])'
    BY <1>0, <1>a, <1>b, <2>1, <2>2, <2>3 DEF IInv, Later, Past
  <2>5. \A k \in Cancels :
          /\ cancelAt'[k] = "read" =>
                at'[target'[k]] \notin {"idle", "registered"}
          /\ cancelAt'[k] \in {"settling", "dropping"} => Past(target[k])'
    BY <1>0, <2>1, <2>3 DEF IInv, Later, Past
  <2>6. \A r \in Runs :
          (swept[r] # "nothing" \/ r \in boot.left \/ r = boot.orphan)'
             => Past(r)'
    BY <1>0, <2>1 DEF IInv, Later, Past
  <2> QED
    BY <2>4, <2>5, <2>6 DEF Later
<1>5. \A x \in Runs : Dead(x) => Dead(x)'
  BY <1>0, CallsFacts, BoundsAssumption
    DEF IInv, TypeOK, Starts, Later, Past, OneExecutor, Executes, Dead,
        Settled, Unexecuted, Live, Terminal, Owning, CheckRow, End, Become,
        Elsewhere
<1>6. OneExecutor'
  <2>1. \A x \in Calls, r \in Runs : Executes(x, r)' => Executes(x, r)
    BY <1>0, <1>a DEF Executes, Owning
  <2> QED
    BY <1>0, <2>1 DEF IInv, OneExecutor
<1>7. Pinned'
  <2>1. \A x \in Resumes : x # c => at'[x] = at[x] /\ loaded'[x] = loaded[x]
    BY CallsFacts DEF CheckRow, End, Become, IInv, TypeOK
  <2>2. at'[c] = "checked" => loaded'[c] = origin[of[c]]
    BY CallsFacts DEF CheckRow, End, Become, IInv, TypeOK, Pinned
  <2>3. at'[c] \in {"checked", "refusing", "done"}
    BY CallsFacts DEF CheckRow, End, Become, IInv, TypeOK
  <2> QED
    BY <1>0, <2>1, <2>2, <2>3 DEF IInv, Pinned, Owning
<1>8. Checkpoints'
  <2>1. \A x \in Calls :
          /\ at'[x] = "leaving" /\ ends'[x] = "cancelled" =>
                (at[x] = "leaving" /\ ends[x] = "cancelled")
          /\ at'[x] = "dropping" => at[x] = "dropping"
          /\ at'[x] = "settling" /\ ends'[x] = "pending_approval" =>
                at[x] = "settling" /\ ends[x] = "pending_approval"
    BY <1>0 DEF IInv, TypeOK, Endings, CheckRow, End, Become
  <2>2. \A x \in Runs : Settled(x) => Settled(x)'
    BY <1>0
      DEF IInv, TypeOK, Endings, CheckRow, End, Become, Settled, Terminal,
          Live
  <2> QED
    BY <1>0, <1>5, <2>1, <2>2, CallsFacts
      DEF IInv, TypeOK, Checkpoints
<1> QED
  BY <1>k, <1>1, <1>2, <1>3, <1>4, <1>6, <1>7, <1>8
    DEF IInv

LEMMA RefuseStaleKeeps ==
    ASSUME IInv, NEW c \in Resumes, NEW b \in BOOLEAN, RefuseStale(c, b)
    PROVE  IInv'
<1>0. UNCHANGED <<started, born, saved, registry, signalled, of, cancelAt,
                target, swept, boot, graph, edits, origin, restarts>>
  BY DEF RefuseStale, FinishRow, SettleRow, Become, End, rowVars, liveVars,
     callVars, cancelVars, flowVars
<1>t. c \in Calls /\ of[c] \in Runs /\ at[c] = "refusing"
  BY CallsFacts, Target DEF IInv, RefuseStale
<1>p. Wrote(of[c], "cancelled", NULL, 0, b)
  <2>1. FinishRow(of[c], "cancelled", NULL, 0, b)
    BY DEF RefuseStale, SettleRow
  <2>2. "cancelled" \in Ends /\ 0 \in 0..MaxGates
    BY BoundsAssumption DEF Ends, Terminal
  <2> QED
    BY <1>t, <2>1, <2>2, FinishFacts DEF IInv
<1>q. /\ at' \in [Calls -> Phases] /\ loaded' \in [Calls -> Graphs \cup {NULL}]
      /\ from' \in [Calls -> 0..MaxGates]
      /\ ends' \in [Calls -> Ends \cup {NULL}]
      /\ at'[c] = IF b THEN "dropping" ELSE "done"
      /\ \A x \in Calls \ {c} : at'[x] = at[x] /\ loaded'[x] = loaded[x]
             /\ ends'[x] = ends[x]
      /\ ends'[c] = NULL
      /\ b => loaded' = loaded
  BY <1>t, BoundsAssumption
    DEF RefuseStale, Become, End, IInv, TypeOK, Endings, Phases, Ends
<1>w. born' = born /\ started' = started
  BY <1>0
<1>1. TypeOK'
  <2>1. \A x \in Calls : at'[x] \notin {"idle", "done"} =>
          at[x] \notin {"idle", "done"} /\ loaded'[x] = loaded[x]
    BY <1>t, <1>q
  <2>2. \A x \in Calls : at'[x] \notin {"idle", "done"} =>
          of'[x] # NULL /\ loaded'[x] # NULL
    BY <1>0, <2>1 DEF IInv, TypeOK
  <2> QED
    BY <1>0, <1>p, <1>q, <2>2 DEF Wrote, IInv, TypeOK
<1>2. Starts'
  BY <1>0, <1>t, <1>p, <1>q, CallsFacts, BoundsAssumption
    DEF IInv, TypeOK, Starts, Later, Past, Live, Terminal, Owning, Wrote
<1>3. Endings'
  BY <1>0, <1>t, <1>p, <1>q, CallsFacts, BoundsAssumption
    DEF IInv, TypeOK, Endings, Phases, Ends, Terminal, Owning, Wrote
<1>4. Later'
  <2>1. \A x \in Calls :
          /\ at'[x] \notin {"idle", "done"} =>
                at[x] = at'[x] \/ (x = c /\ at[x] = "refusing")
          /\ at'[x] \in {"idle", "registered"} => at[x] = at'[x]
    BY <1>t, <1>q
  <2>2. \A x \in Runs : at'[x] = at[x]
    BY <1>t, <1>q, CallsFacts
  <2>3. \A x \in Resumes :
          at'[x] \notin {"idle", "loaded", "done"} => Past(of[x])
    BY <1>t, <2>1, CallsFacts DEF IInv, Later
  <2>4. \A x \in Resumes :
          at'[x] \notin {"idle", "loaded", "done"} => of[x] \in Runs
    BY <1>t, <2>1, Target, CallsFacts DEF IInv
  <2>5. \A x \in Resumes :
          /\ at'[x] # "registered"
          /\ at'[x] \notin {"idle", "loaded", "done"} =>
                at'[of'[x]] \in {"leaving", "done"}
    <3>1. \A x \in Resumes : at'[x] # "registered"
      BY <2>1, CallsFacts DEF IInv, Later
    <3> QED
      BY <1>0, <2>2, <2>3, <2>4, <3>1 DEF Past
  <2>6. \A x \in Cancels :
          /\ cancelAt[x] = "read" => at'[target[x]] \notin {"idle", "registered"}
          /\ cancelAt[x] \in {"settling", "dropping"} => Past(target[x])'
    BY <1>0, <2>2 DEF IInv, TypeOK, Later, Past
  <2>7. \A x \in Runs :
          swept[x] # "nothing" \/ x \in boot.left \/ x = boot.orphan => Past(x)'
    BY <2>2 DEF IInv, Later, Past
  <2> QED
    BY <1>0, <2>5, <2>6, <2>7 DEF Later, Past
<1>5. \A x \in Runs : Dead(x) => Dead(x)'
  BY <1>0, <1>t, <1>p, <1>q, CallsFacts, BoundsAssumption
    DEF IInv, TypeOK, Starts, Later, Past, OneExecutor, Executes, Dead,
        Settled, Unexecuted, Live, Terminal, Owning, Wrote
<1>6. OneExecutor'
  <2>1. \A x \in Calls, q \in Runs : Executes(x, q)' => Executes(x, q)
    BY <1>0, <1>q DEF Executes, Owning
  <2>2. \A x \in Runs :
          row'[x] = "pending_approval" => row[x] = "pending_approval"
    BY <1>p DEF Wrote
  <2> QED
    BY <2>1, <2>2 DEF IInv, OneExecutor
<1>7. Pinned'
  <2>1. \A x \in Runs : row'[x] = "pending_approval" =>
          row[x] = "pending_approval" /\ pin'[x] = pin[x]
    BY <1>p DEF Wrote
  <2>2. \A x \in Resumes : at'[x] \in {"checked", "claiming"} \cup Owning =>
          at'[x] = at[x] /\ loaded'[x] = loaded[x]
    BY <1>q, CallsFacts DEF Owning
  <2> QED
    BY <1>0, <2>1, <2>2 DEF IInv, Pinned
<1>8. Checkpoints'
  <2>1. \A x \in Calls :
          /\ at'[x] = "leaving" /\ ends'[x] = "cancelled" =>
                (at[x] = "leaving" /\ ends[x] = "cancelled")
          /\ at'[x] = "dropping" => at[x] = "dropping" \/ x = c
          /\ at'[x] = "settling" /\ ends'[x] = "pending_approval" =>
                at[x] = "settling" /\ ends[x] = "pending_approval"
    BY <1>0, <1>p, <1>q DEF Wrote, IInv, TypeOK, Endings
  <2>2. \A x \in Runs : Settled(x) => Settled(x)'
    BY <1>0, <1>p, <1>q
      DEF Wrote, IInv, TypeOK, Endings, Settled, Terminal, Live
  <2>3. at'[c] = "dropping" => Settled(of[c])'
    BY <1>0, <1>p, <1>q DEF Wrote, Settled, Terminal
  <2>4. at'[c] = "dropping" => Dead(of[c])'
    BY <2>3 DEF Dead
  <2>5. \A x \in Calls :
          at[x] \notin {"idle", "done"} => of[x] \in Runs /\ of'[x] = of[x]
    BY <1>0, Target DEF IInv
  <2>6. \A x \in Calls :
          at'[x] = "leaving" /\ ends'[x] = "cancelled" => Dead(of[x])'
    BY <1>5, <2>1, <2>5 DEF IInv, Checkpoints
  <2>7. \A x \in Calls : at'[x] = "dropping" => Dead(of[x])'
    BY <1>5, <2>1, <2>4, <2>5 DEF IInv, Checkpoints
  <2>8. \A x \in Calls : at'[x] = "settling" /\ ends'[x] = "pending_approval"
          => saved[of[x]] # 0 \/ Settled(of[x])'
    BY <2>1, <2>2, <2>5 DEF IInv, Checkpoints
  <2>9. \A x \in Cancels : cancelAt'[x] = "dropping" => Dead(target[x])'
    BY <1>0, <1>5 DEF IInv, TypeOK, Checkpoints
  <2>10. \A x \in Runs : swept'[x] # "nothing" => Dead(x)'
    BY <1>0, <1>5 DEF IInv, Checkpoints
  <2> QED
    BY <1>0, <2>6, <2>7, <2>8, <2>9, <2>10 DEF Checkpoints
<1>9. ParkedIsResumable'
  <2>1. \A x \in Runs : row'[x] = "pending_approval" =>
          row[x] = "pending_approval" /\ pending'[x] = pending[x]
    BY <1>p DEF Wrote
  <2> QED
    BY <1>0, <2>1 DEF IInv, ParkedIsResumable
<1>10. Announcements'
  BY <1>0, <1>t, <1>p, <1>q, CallsFacts, BoundsAssumption
    DEF IInv, TypeOK, Starts, Later, Past, Announcements, Settled,
        OneFinish, Live, Terminal, Owning, Wrote
<1>11. OneFinish'
  BY <1>0, <1>t, <1>p, <1>q, CallsFacts, BoundsAssumption
    DEF IInv, TypeOK, Starts, Announcements, Settled, OneFinish, Live,
        Terminal, Owning, Wrote
<1> QED
  BY <1>1, <1>2, <1>3, <1>4, <1>6, <1>7, <1>8, <1>9, <1>10, <1>11
    DEF IInv

LEMMA DropRefusedKeeps ==
    ASSUME IInv, NEW c \in Resumes, DropRefused(c)
    PROVE  IInv'
<1>0. UNCHANGED <<row, pin, pending, started, born, finished, registry,
                signalled, of, cancelAt, target, swept, boot, graph, edits,
                origin, restarts>>
  BY DEF DropRefused, DropCheckpoint, End, rowVars, liveVars, callVars,
     cancelVars, flowVars
<1>k. Announcements' /\ OneFinish'
  BY <1>0
    DEF IInv, Announcements, Settled, OneFinish
<1>1. TypeOK'
  BY <1>0, CallsFacts, BoundsAssumption
    DEF IInv, TypeOK, Endings, Phases, Ends, Live, Terminal, Owning,
        DropRefused, DropCheckpoint, End
<1>2. Starts'
  BY <1>0, CallsFacts, BoundsAssumption
    DEF IInv, TypeOK, Starts, Later, Past, Live, Terminal, Owning,
        DropRefused, DropCheckpoint, End
<1>3. Endings'
  BY <1>0, CallsFacts, BoundsAssumption
    DEF IInv, TypeOK, Endings, Phases, Ends, Terminal, Owning, DropRefused,
        DropCheckpoint, End
<1>4. Later'
  BY <1>0, CallsFacts, BoundsAssumption
    DEF IInv, TypeOK, Starts, Later, Past, Live, Terminal, Owning,
        DropRefused, DropCheckpoint, End
<1>5. \A x \in Runs : Dead(x) => Dead(x)'
  BY <1>0, CallsFacts, BoundsAssumption
    DEF IInv, TypeOK, Starts, Later, Past, OneExecutor, Executes, Dead,
        Settled, Unexecuted, Live, Terminal, Owning, DropRefused,
        DropCheckpoint, End
<1>6. OneExecutor'
  BY <1>0, CallsFacts, BoundsAssumption
    DEF IInv, TypeOK, Starts, Later, Past, OneExecutor, Executes, Live,
        Terminal, Owning, DropRefused, DropCheckpoint, End
<1>7. Pinned'
  BY <1>0, CallsFacts, BoundsAssumption
    DEF IInv, TypeOK, Starts, Later, Past, Pinned, OneExecutor, Executes,
        Live, Terminal, Owning, DropRefused, DropCheckpoint, End
<1>8. Checkpoints'
  BY <1>0, CallsFacts, BoundsAssumption, <1>5
    DEF IInv, TypeOK, Starts, Later, Past, Endings, Checkpoints, Dead,
        Settled, Unexecuted, OneExecutor, Executes, Live, Terminal, Owning,
        DropRefused, DropCheckpoint, End
<1>9. ParkedIsResumable'
  <2>1. row[of[c]] # "pending_approval"
    BY Target, CallsFacts, DeadNotParked
      DEF IInv, Checkpoints, TypeOK, DropRefused, DropCheckpoint
  <2>2. \A x \in Runs \ {of[c]} : saved'[x] = saved[x]
    BY DEF IInv, TypeOK, DropRefused, DropCheckpoint
  <2> QED
    BY <1>0, <2>1, <2>2 DEF IInv, ParkedIsResumable
<1> QED
  BY <1>k, <1>1, <1>2, <1>3, <1>4, <1>6, <1>7, <1>8, <1>9
    DEF IInv

LEMMA RefuseIncompatibleKeeps ==
    ASSUME IInv, NEW c \in Resumes, NEW b \in BOOLEAN, RefuseIncompatible(c, b)
    PROVE  IInv'
<1>0. UNCHANGED <<started, born, saved, registry, signalled, of, cancelAt,
                target, swept, boot, graph, edits, origin, restarts>>
  BY DEF RefuseIncompatible, FinishRow, SettleRow, End, rowVars, liveVars,
     callVars, cancelVars, flowVars
<1>1. TypeOK'
  BY <1>0, CallsFacts, BoundsAssumption
    DEF IInv, TypeOK, Endings, Phases, Ends, Live, Terminal, Owning,
        RefuseIncompatible, FinishRow, SettleRow, End
<1>2. Starts'
  BY <1>0, CallsFacts, BoundsAssumption
    DEF IInv, TypeOK, Starts, Later, Past, Live, Terminal, Owning,
        RefuseIncompatible, FinishRow, SettleRow, End
<1>3. Endings'
  BY <1>0, CallsFacts, BoundsAssumption
    DEF IInv, TypeOK, Endings, Phases, Ends, Terminal, Owning,
        RefuseIncompatible, FinishRow, SettleRow, End
<1>4. Later'
  BY <1>0, CallsFacts, BoundsAssumption
    DEF IInv, TypeOK, Starts, Later, Past, Live, Terminal, Owning,
        RefuseIncompatible, FinishRow, SettleRow, End
<1>5. \A x \in Runs : Dead(x) => Dead(x)'
  BY <1>0, CallsFacts, BoundsAssumption
    DEF IInv, TypeOK, Starts, Later, Past, OneExecutor, Executes, Dead,
        Settled, Unexecuted, Live, Terminal, Owning, RefuseIncompatible,
        FinishRow, SettleRow, End
<1>6. OneExecutor'
  BY <1>0, CallsFacts, BoundsAssumption
    DEF IInv, TypeOK, Starts, Later, Past, OneExecutor, Executes, Live,
        Terminal, Owning, RefuseIncompatible, FinishRow, SettleRow, End
<1>7. Pinned'
  BY <1>0, CallsFacts, BoundsAssumption
    DEF IInv, TypeOK, Starts, Later, Past, Pinned, OneExecutor, Executes,
        Live, Terminal, Owning, RefuseIncompatible, FinishRow, SettleRow, End
<1>8. Checkpoints'
  BY <1>0, CallsFacts, BoundsAssumption, <1>5
    DEF IInv, TypeOK, Starts, Later, Past, Endings, Checkpoints, Dead,
        Settled, Unexecuted, OneExecutor, Executes, Live, Terminal, Owning,
        RefuseIncompatible, FinishRow, SettleRow, End
<1>9. ParkedIsResumable'
  BY <1>0, CallsFacts, BoundsAssumption
    DEF IInv, TypeOK, Starts, Checkpoints, Dead, Settled, Unexecuted,
        OneExecutor, Executes, Past, ParkedIsResumable, Live, Terminal, Owning,
        RefuseIncompatible, FinishRow, SettleRow, End
<1>10. Announcements'
  BY <1>0, CallsFacts, BoundsAssumption
    DEF IInv, TypeOK, Starts, Later, Past, Announcements, Settled,
        OneFinish, Live, Terminal, Owning, RefuseIncompatible, FinishRow,
        SettleRow, End
<1>11. OneFinish'
  BY <1>0, CallsFacts, BoundsAssumption
    DEF IInv, TypeOK, Starts, Announcements, Settled, OneFinish, Live,
        Terminal, Owning, RefuseIncompatible, FinishRow, SettleRow, End
<1> QED
  BY <1>1, <1>2, <1>3, <1>4, <1>6, <1>7, <1>8, <1>9, <1>10, <1>11
    DEF IInv

LEMMA GiveUpKeeps ==
    ASSUME IInv, NEW c \in Resumes, GiveUp(c)
    PROVE  IInv'
<1>0. UNCHANGED <<row, pin, pending, started, born, finished, saved, registry,
                signalled, of, cancelAt, target, swept, boot, graph, edits,
                origin, restarts>>
  BY DEF GiveUp, End, Elsewhere, rowVars, liveVars, callVars, cancelVars,
     flowVars
<1>k. ParkedIsResumable' /\ Announcements' /\ OneFinish'
  BY <1>0
    DEF IInv, ParkedIsResumable, Announcements, Settled, OneFinish
<1>1. TypeOK'
  BY <1>0, CallsFacts, BoundsAssumption
    DEF IInv, TypeOK, Endings, Phases, Ends, Live, Terminal, Owning, GiveUp,
        End, Elsewhere
<1>2. Starts'
  BY <1>0, CallsFacts, BoundsAssumption
    DEF IInv, TypeOK, Starts, Later, Past, Live, Terminal, Owning, GiveUp,
        End, Elsewhere
<1>3. Endings'
  BY <1>0, CallsFacts, BoundsAssumption
    DEF IInv, TypeOK, Endings, Phases, Ends, Terminal, Owning, GiveUp, End,
        Elsewhere
<1>4. Later'
  BY <1>0, CallsFacts, BoundsAssumption
    DEF IInv, TypeOK, Starts, Later, Past, Live, Terminal, Owning, GiveUp,
        End, Elsewhere
<1>5. \A x \in Runs : Dead(x) => Dead(x)'
  BY <1>0, CallsFacts, BoundsAssumption
    DEF IInv, TypeOK, Starts, Later, Past, OneExecutor, Executes, Dead,
        Settled, Unexecuted, Live, Terminal, Owning, GiveUp, End, Elsewhere
<1>6. OneExecutor'
  BY <1>0, CallsFacts, BoundsAssumption
    DEF IInv, TypeOK, Starts, Later, Past, OneExecutor, Executes, Live,
        Terminal, Owning, GiveUp, End, Elsewhere
<1>7. Pinned'
  BY <1>0, CallsFacts, BoundsAssumption
    DEF IInv, TypeOK, Starts, Later, Past, Pinned, OneExecutor, Executes,
        Live, Terminal, Owning, GiveUp, End, Elsewhere
<1>8. Checkpoints'
  BY <1>0, CallsFacts, BoundsAssumption, <1>5
    DEF IInv, TypeOK, Starts, Later, Past, Endings, Checkpoints, Dead,
        Settled, Unexecuted, OneExecutor, Executes, Live, Terminal, Owning,
        GiveUp, End, Elsewhere
<1> QED
  BY <1>k, <1>1, <1>2, <1>3, <1>4, <1>6, <1>7, <1>8
    DEF IInv

LEMMA RegisterResumeKeeps ==
    ASSUME IInv, NEW c \in Resumes, RegisterResume(c)
    PROVE  IInv'
<1>0. UNCHANGED <<row, pin, pending, started, born, finished, saved,
                signalled, of, loaded, from, ends, cancelAt, target,
                swept, boot, graph, edits, origin, restarts>>
  BY DEF RegisterResume, Register, Become, rowVars, liveVars, callVars,
     cancelVars, flowVars
<1>k. ParkedIsResumable' /\ Announcements' /\ OneFinish'
  BY <1>0
    DEF IInv, ParkedIsResumable, Announcements, Settled, OneFinish
<1>1. TypeOK'
  BY <1>0, CallsFacts, BoundsAssumption
    DEF IInv, TypeOK, Endings, Phases, Ends, Live, Terminal, Owning,
        RegisterResume, Register, Become
<1>2. Starts'
  BY <1>0, CallsFacts, BoundsAssumption
    DEF IInv, TypeOK, Starts, Later, Past, Live, Terminal, Owning,
        RegisterResume, Register, Become
<1>3. Endings'
  BY <1>0, CallsFacts, BoundsAssumption
    DEF IInv, TypeOK, Endings, Phases, Ends, Terminal, Owning,
        RegisterResume, Register, Become
<1>4. Later'
  BY <1>0, CallsFacts, BoundsAssumption
    DEF IInv, TypeOK, Starts, Later, Past, Live, Terminal, Owning,
        RegisterResume, Register, Become
<1>5. \A x \in Runs : Dead(x) => Dead(x)'
  BY <1>0, CallsFacts, BoundsAssumption
    DEF IInv, TypeOK, Starts, Later, Past, OneExecutor, Executes, Dead,
        Settled, Unexecuted, Live, Terminal, Owning, RegisterResume, Register,
        Become
<1>6. OneExecutor'
  BY <1>0, CallsFacts, BoundsAssumption
    DEF IInv, TypeOK, Starts, Later, Past, OneExecutor, Executes, Live,
        Terminal, Owning, RegisterResume, Register, Become
<1>7. Pinned'
  BY <1>0, CallsFacts, BoundsAssumption
    DEF IInv, TypeOK, Starts, Later, Past, Pinned, OneExecutor, Executes,
        Live, Terminal, Owning, RegisterResume, Register, Become
<1>8. Checkpoints'
  BY <1>0, CallsFacts, BoundsAssumption, <1>5
    DEF IInv, TypeOK, Starts, Later, Past, Endings, Checkpoints, Dead,
        Settled, Unexecuted, OneExecutor, Executes, Live, Terminal, Owning,
        RegisterResume, Register, Become
<1> QED
  BY <1>k, <1>1, <1>2, <1>3, <1>4, <1>6, <1>7, <1>8
    DEF IInv

LEMMA ClaimKeeps ==
    ASSUME IInv, NEW c \in Resumes, NEW b \in BOOLEAN, Claim(c, b)
    PROVE  IInv'
<1>0. UNCHANGED <<pin, pending, started, born, finished, saved, registry,
                signalled, of, loaded, from, ends, cancelAt, target,
                swept, boot, graph, edits, origin, restarts>>
  BY DEF Claim, Become, rowVars, liveVars, callVars, cancelVars, flowVars
<1>1. TypeOK'
  BY <1>0, CallsFacts, BoundsAssumption
    DEF IInv, TypeOK, Endings, Phases, Ends, Live, Terminal, Owning, Claim,
        Become
<1>2. Starts'
  BY <1>0, CallsFacts, BoundsAssumption
    DEF IInv, TypeOK, Starts, Later, Past, Live, Terminal, Owning, Claim,
        Become
<1>3. Endings'
  BY <1>0, CallsFacts, BoundsAssumption
    DEF IInv, TypeOK, Endings, Phases, Ends, Terminal, Owning, Claim, Become
<1>4. Later'
  BY <1>0, CallsFacts, BoundsAssumption
    DEF IInv, TypeOK, Starts, Later, Past, Live, Terminal, Owning, Claim,
        Become
<1>5. \A x \in Runs : Dead(x) => Dead(x)'
  BY <1>0, CallsFacts, BoundsAssumption
    DEF IInv, TypeOK, Starts, Later, Past, OneExecutor, Executes, Dead,
        Settled, Unexecuted, Live, Terminal, Owning, Claim, Become
<1>6. OneExecutor'
  BY <1>0, CallsFacts, BoundsAssumption
    DEF IInv, TypeOK, Starts, Later, Past, OneExecutor, Executes, Live,
        Terminal, Owning, Claim, Become
<1>7. Pinned'
  BY <1>0, CallsFacts, BoundsAssumption
    DEF IInv, TypeOK, Starts, Later, Past, Pinned, OneExecutor, Executes,
        Live, Terminal, Owning, Claim, Become
<1>8. Checkpoints'
  <2>1. \A x \in Calls :
          /\ at'[x] = "leaving" /\ ends'[x] = "cancelled" =>
                (at[x] = "leaving" /\ ends[x] = "cancelled")
          /\ at'[x] = "dropping" => at[x] = "dropping"
          /\ at'[x] = "settling" /\ ends'[x] = "pending_approval" =>
                at[x] = "settling" /\ ends[x] = "pending_approval"
    BY <1>0, CallsFacts DEF IInv, TypeOK, Endings, Claim, Become
  <2>2. \A x \in Runs : Settled(x) => Settled(x)'
    BY <1>0 DEF IInv, TypeOK, Endings, Claim, Become, Settled, Terminal, Live
  <2> QED
    BY <1>0, <1>5, <2>1, <2>2, CallsFacts
      DEF IInv, TypeOK, Checkpoints
<1>9. ParkedIsResumable'
  BY <1>0, CallsFacts, BoundsAssumption
    DEF IInv, TypeOK, Starts, Checkpoints, Dead, Settled, Unexecuted,
        OneExecutor, Executes, Past, ParkedIsResumable, Live, Terminal, Owning,
        Claim, Become
<1>10. Announcements'
  BY <1>0, CallsFacts, BoundsAssumption
    DEF IInv, TypeOK, Starts, Later, Past, Announcements, Settled,
        OneFinish, Live, Terminal, Owning, Claim, Become
<1>11. OneFinish'
  BY <1>0, CallsFacts, BoundsAssumption
    DEF IInv, TypeOK, Starts, Announcements, Settled, OneFinish, Live,
        Terminal, Owning, Claim, Become
<1> QED
  BY <1>1, <1>2, <1>3, <1>4, <1>6, <1>7, <1>8, <1>9, <1>10, <1>11
    DEF IInv

LEMMA ReadStatusKeeps ==
    ASSUME IInv, NEW k \in Cancels, NEW r \in Runs, ReadStatus(k, r)
    PROVE  IInv'
<1>0. UNCHANGED <<row, pin, pending, started, born, finished, saved, registry,
                signalled, at, of, loaded, from, ends, swept, boot,
                graph, edits, origin, restarts>>
  BY DEF ReadStatus, CancelUnchanged, rowVars, liveVars, callVars, cancelVars,
     flowVars
<1>k. Starts' /\ Endings' /\ OneExecutor' /\ Pinned' /\ ParkedIsResumable'
      /\ Announcements' /\ OneFinish'
  BY <1>0
    DEF IInv, Starts, Endings, OneExecutor, Executes, Pinned,
        ParkedIsResumable, Announcements, Settled, OneFinish
<1>1. TypeOK'
  BY <1>0, CallsFacts, BoundsAssumption
    DEF IInv, TypeOK, Endings, Phases, Ends, Live, Terminal, Owning,
        ReadStatus, CancelUnchanged
<1>2. Later'
  BY <1>0, CallsFacts, BoundsAssumption
    DEF IInv, TypeOK, Starts, Later, Past, Live, Terminal, Owning,
        ReadStatus, CancelUnchanged
<1>3. \A x \in Runs : Dead(x) => Dead(x)'
  BY <1>0
    DEF IInv, Dead, Settled, Unexecuted, Executes, Past
<1>4. Checkpoints'
  BY <1>0, CallsFacts, BoundsAssumption, <1>3
    DEF IInv, TypeOK, Starts, Later, Past, Endings, Checkpoints, Dead,
        Settled, Unexecuted, OneExecutor, Executes, Live, Terminal, Owning,
        ReadStatus, CancelUnchanged
<1> QED
  BY <1>k, <1>1, <1>2, <1>4
    DEF IInv

LEMMA SignalKeeps ==
    ASSUME IInv, NEW k \in Cancels, Signal(k)
    PROVE  IInv'
<1>0. UNCHANGED <<row, pin, pending, started, born, finished, saved, registry,
                at, of, loaded, from, ends, target, swept, boot,
                graph, edits, origin, restarts>>
  BY DEF Signal, CancelAt, CancelUnchanged, rowVars, liveVars, callVars,
     cancelVars, flowVars
<1>k. Starts' /\ Endings' /\ OneExecutor' /\ Pinned' /\ ParkedIsResumable'
      /\ Announcements' /\ OneFinish'
  BY <1>0
    DEF IInv, Starts, Endings, OneExecutor, Executes, Pinned,
        ParkedIsResumable, Announcements, Settled, OneFinish
<1>1. TypeOK'
  <2>1. \/ cancelAt' = [cancelAt EXCEPT ![k] = "done"]
        \/ cancelAt' = [cancelAt EXCEPT ![k] = "settling"]
    BY DEF Signal, CancelAt
  <2>2. target[k] \in Runs
    BY DEF Signal, IInv, TypeOK
  <2>3. registry[target[k]] \in Calls \cup {NULL}
    BY <2>2 DEF IInv, TypeOK
  <2>4. signalled' \subseteq Calls
    BY <2>3 DEF Signal, IInv, TypeOK
  <2>5. cancelAt' \in [Cancels ->
                        {"idle", "read", "settling", "dropping", "done"}]
    BY <2>1 DEF IInv, TypeOK
  <2>6. \A x \in Cancels :
          cancelAt'[x] \notin {"idle", "done"} => target[x] # NULL
    BY <2>1, <2>2, NullAssumption DEF Signal, IInv, TypeOK
  <2> QED
    BY <1>0, <2>4, <2>5, <2>6 DEF IInv, TypeOK
<1>2. Later'
  BY <1>0, CallsFacts, BoundsAssumption
    DEF IInv, TypeOK, Starts, Later, Past, Live, Terminal, Owning, Signal,
        CancelAt, CancelUnchanged
<1>3. \A x \in Runs : Dead(x) => Dead(x)'
  BY <1>0
    DEF IInv, Dead, Settled, Unexecuted, Executes, Past
<1>4. Checkpoints'
  BY <1>0, CallsFacts, BoundsAssumption, <1>3
    DEF IInv, TypeOK, Starts, Later, Past, Endings, Checkpoints, Dead,
        Settled, Unexecuted, OneExecutor, Executes, Live, Terminal, Owning,
        Signal, CancelAt, CancelUnchanged
<1> QED
  BY <1>k, <1>1, <1>2, <1>4
    DEF IInv

LEMMA SettleCancelKeeps ==
    ASSUME IInv, NEW k \in Cancels, NEW b \in BOOLEAN, SettleCancel(k, b)
    PROVE  IInv'
<1>0. UNCHANGED <<started, born, saved, registry, signalled, at, of, loaded,
                from, ends, target, swept, boot, graph, edits,
                origin, restarts>>
  BY DEF SettleCancel, FinishRow, SettleRow, CancelAt, CancelUnchanged,
     rowVars, liveVars, callVars, cancelVars, flowVars
<1>t. target[k] \in Runs /\ cancelAt[k] = "settling"
  BY DEF IInv, TypeOK, SettleCancel
<1>p. Wrote(target[k], "cancelled", NULL, 0, b)
  <2>1. FinishRow(target[k], "cancelled", NULL, 0, b)
    BY DEF SettleCancel, SettleRow
  <2>2. "cancelled" \in Ends /\ 0 \in 0..MaxGates
    BY BoundsAssumption DEF Ends, Terminal
  <2> QED
    BY <1>t, <2>1, <2>2, FinishFacts DEF IInv
<1>q. cancelAt' = [cancelAt EXCEPT ![k] = IF b THEN "dropping" ELSE "done"]
  BY DEF SettleCancel, CancelAt
<1>k. Endings'
  BY <1>0
    DEF IInv, Endings
<1>1. TypeOK'
  BY <1>0, <1>t, <1>p, <1>q, CallsFacts, BoundsAssumption
    DEF IInv, TypeOK, Endings, Phases, Ends, Live, Terminal, Owning, Wrote
<1>2. Starts'
  BY <1>0, <1>t, <1>p, <1>q, CallsFacts, BoundsAssumption
    DEF IInv, TypeOK, Starts, Later, Past, Live, Terminal, Owning, Wrote
<1>3. Later'
  BY <1>0, <1>t, <1>p, <1>q, CallsFacts, BoundsAssumption
    DEF IInv, TypeOK, Starts, Later, Past, Live, Terminal, Owning, Wrote
<1>4. \A x \in Runs : Dead(x) => Dead(x)'
  BY <1>0, <1>t, <1>p, <1>q, CallsFacts, BoundsAssumption
    DEF IInv, TypeOK, Starts, Later, Past, OneExecutor, Executes, Dead,
        Settled, Unexecuted, Live, Terminal, Owning, Wrote
<1>5. OneExecutor'
  BY <1>0, <1>t, <1>p, <1>q, CallsFacts, BoundsAssumption
    DEF IInv, TypeOK, Starts, Later, Past, OneExecutor, Executes, Live,
        Terminal, Owning, Wrote
<1>6. Pinned'
  BY <1>0, <1>t, <1>p, <1>q, CallsFacts, BoundsAssumption
    DEF IInv, TypeOK, Starts, Later, Past, Pinned, OneExecutor, Executes,
        Live, Terminal, Owning, Wrote
<1>7. Checkpoints'
  <2>1. \A x \in Calls :
          /\ at'[x] = "leaving" /\ ends'[x] = "cancelled" =>
                (at[x] = "leaving" /\ ends[x] = "cancelled")
          /\ at'[x] = "dropping" => at[x] = "dropping"
          /\ at'[x] = "settling" /\ ends'[x] = "pending_approval" =>
                at[x] = "settling" /\ ends[x] = "pending_approval"
    BY <1>0, <1>p DEF Wrote, IInv, TypeOK, Endings
  <2>2. \A x \in Runs : Settled(x) => Settled(x)'
    BY <1>0, <1>p DEF Wrote, IInv, TypeOK, Endings, Settled, Terminal, Live
  <2>3. \A x \in Cancels : cancelAt'[x] = "dropping" =>
          cancelAt[x] = "dropping" \/ Settled(target[x])'
    BY <1>0, <1>p, <1>q DEF Wrote, IInv, TypeOK, Settled, Terminal
  <2>4. \A x \in Runs : Settled(x)' => Dead(x)'
    BY DEF Dead
  <2> QED
    BY <1>0, <1>4, <2>1, <2>2, <1>1, <2>3, <2>4, CallsFacts
      DEF IInv, TypeOK, Checkpoints
<1>8. ParkedIsResumable'
  <2>1. \A x \in Runs : row'[x] = "pending_approval" =>
          row[x] = "pending_approval" /\ pending'[x] = pending[x]
    BY <1>p DEF Wrote
  <2> QED
    BY <1>0, <2>1 DEF IInv, ParkedIsResumable
<1>9. Announcements'
  BY <1>0, <1>t, <1>p, <1>q, CallsFacts, BoundsAssumption
    DEF IInv, TypeOK, Starts, Later, Past, Announcements, Settled,
        OneFinish, Live, Terminal, Owning, Wrote
<1>10. OneFinish'
  BY <1>0, <1>t, <1>p, <1>q, CallsFacts, BoundsAssumption
    DEF IInv, TypeOK, Starts, Announcements, Settled, OneFinish, Live,
        Terminal, Owning, Wrote
<1> QED
  BY <1>k, <1>1, <1>2, <1>3, <1>5, <1>6, <1>7, <1>8, <1>9, <1>10
    DEF IInv

LEMMA DropByCancelKeeps ==
    ASSUME IInv, NEW k \in Cancels, NEW b \in BOOLEAN, DropByCancel(k, b)
    PROVE  IInv'
<1>0. UNCHANGED <<row, pin, pending, started, born, finished, registry,
                signalled, at, of, loaded, from, ends, target, swept,
                boot, graph, edits, origin, restarts>>
  BY DEF DropByCancel, DropCheckpoint, CancelAt, CancelUnchanged, rowVars,
     liveVars, callVars, cancelVars, flowVars
<1>k. Starts' /\ Endings' /\ OneExecutor' /\ Pinned' /\ Announcements' /\
      OneFinish'
  BY <1>0
    DEF IInv, Starts, Endings, OneExecutor, Executes, Pinned, Announcements,
        Settled, OneFinish
<1>1. TypeOK'
  BY <1>0, CallsFacts, BoundsAssumption
    DEF IInv, TypeOK, Endings, Phases, Ends, Live, Terminal, Owning,
        DropByCancel, DropCheckpoint, CancelAt, CancelUnchanged
<1>2. Later'
  BY <1>0, CallsFacts, BoundsAssumption
    DEF IInv, TypeOK, Starts, Later, Past, Live, Terminal, Owning,
        DropByCancel, DropCheckpoint, CancelAt, CancelUnchanged
<1>3. \A x \in Runs : Dead(x) => Dead(x)'
  BY <1>0
    DEF IInv, Dead, Settled, Unexecuted, Executes, Past
<1>4. Checkpoints'
  BY <1>0, CallsFacts, BoundsAssumption, <1>3
    DEF IInv, TypeOK, Starts, Later, Past, Endings, Checkpoints, Dead,
        Settled, Unexecuted, OneExecutor, Executes, Live, Terminal, Owning,
        DropByCancel, DropCheckpoint, CancelAt, CancelUnchanged
<1>5. ParkedIsResumable'
  <2>1. row[target[k]] # "pending_approval"
    BY DeadNotParked
      DEF IInv, Checkpoints, TypeOK, DropByCancel, DropCheckpoint
  <2>2. \A x \in Runs \ {target[k]} : saved'[x] = saved[x]
    BY DEF IInv, TypeOK, DropByCancel, DropCheckpoint
  <2> QED
    BY <1>0, <2>1, <2>2 DEF IInv, ParkedIsResumable
<1> QED
  BY <1>k, <1>1, <1>2, <1>4, <1>5
    DEF IInv

LEMMA ExpireKeeps ==
    ASSUME IInv, NEW r \in Runs, Expire(r)
    PROVE  IInv'
<1>0. UNCHANGED <<pin, pending, started, born, finished, saved, registry,
                signalled, at, of, loaded, from, ends, cancelAt,
                target, boot, graph, edits, origin, restarts>>
  BY DEF Expire, rowVars, liveVars, callVars, cancelVars, flowVars
<1>k. Endings'
  BY <1>0
    DEF IInv, Endings
<1>1. TypeOK'
  BY <1>0, CallsFacts, BoundsAssumption
    DEF IInv, TypeOK, Endings, Phases, Ends, Live, Terminal, Owning, Expire
<1>2. Starts'
  BY <1>0, CallsFacts, BoundsAssumption
    DEF IInv, TypeOK, Starts, Later, Past, Live, Terminal, Owning, Expire
<1>3. Later'
  BY <1>0, CallsFacts, BoundsAssumption
    DEF IInv, TypeOK, Starts, Later, Past, Live, Terminal, Owning, Expire
<1>4. \A x \in Runs : Dead(x) => Dead(x)'
  BY <1>0, CallsFacts, BoundsAssumption
    DEF IInv, TypeOK, Starts, Later, Past, OneExecutor, Executes, Dead,
        Settled, Unexecuted, Live, Terminal, Owning, Expire
<1>5. OneExecutor'
  BY <1>0, CallsFacts, BoundsAssumption
    DEF IInv, TypeOK, Starts, Later, Past, OneExecutor, Executes, Live,
        Terminal, Owning, Expire
<1>6. Pinned'
  BY <1>0, CallsFacts, BoundsAssumption
    DEF IInv, TypeOK, Starts, Later, Past, Pinned, OneExecutor, Executes,
        Live, Terminal, Owning, Expire
<1>7. Checkpoints'
  BY <1>0, CallsFacts, BoundsAssumption, <1>4
    DEF IInv, TypeOK, Starts, Later, Past, Endings, Checkpoints, Dead,
        Settled, Unexecuted, OneExecutor, Executes, Live, Terminal, Owning,
        Expire
<1>8. ParkedIsResumable'
  BY <1>0, CallsFacts, BoundsAssumption
    DEF IInv, TypeOK, Starts, Checkpoints, Dead, Settled, Unexecuted,
        OneExecutor, Executes, Past, ParkedIsResumable, Live, Terminal, Owning,
        Expire
<1>9. Announcements'
  BY <1>0, CallsFacts, BoundsAssumption
    DEF IInv, TypeOK, Starts, Later, Past, Announcements, Settled,
        OneFinish, Live, Terminal, Owning, Expire
<1>10. OneFinish'
  BY <1>0, CallsFacts, BoundsAssumption
    DEF IInv, TypeOK, Starts, Announcements, Settled, OneFinish, Live,
        Terminal, Owning, Expire
<1> QED
  BY <1>k, <1>1, <1>2, <1>3, <1>5, <1>6, <1>7, <1>8, <1>9, <1>10
    DEF IInv

LEMMA AnnounceKeeps ==
    ASSUME IInv, NEW r \in Runs, Announce(r)
    PROVE  IInv'
<1>0. UNCHANGED <<row, pin, pending, started, born, saved, registry,
                signalled, at, of, loaded, from, ends, cancelAt,
                target, boot, graph, edits, origin, restarts>>
  BY DEF Announce, rowVars, liveVars, callVars, cancelVars, flowVars
<1>k. Starts' /\ Endings' /\ OneExecutor' /\ Pinned' /\ ParkedIsResumable'
  BY <1>0
    DEF IInv, Starts, Endings, OneExecutor, Executes, Pinned,
        ParkedIsResumable
<1>1. TypeOK'
  BY <1>0, CallsFacts, BoundsAssumption
    DEF IInv, TypeOK, Endings, Phases, Ends, Live, Terminal, Owning,
        Announce
<1>2. Later'
  BY <1>0, CallsFacts, BoundsAssumption
    DEF IInv, TypeOK, Starts, Later, Past, Live, Terminal, Owning, Announce
<1>3. \A x \in Runs : Dead(x) => Dead(x)'
  BY <1>0
    DEF IInv, Dead, Settled, Unexecuted, Executes, Past
<1>4. Checkpoints'
  BY <1>0, CallsFacts, BoundsAssumption, <1>3
    DEF IInv, TypeOK, Starts, Later, Past, Endings, Checkpoints, Dead,
        Settled, Unexecuted, OneExecutor, Executes, Live, Terminal, Owning,
        Announce
<1>5. Announcements'
  BY <1>0, CallsFacts, BoundsAssumption
    DEF IInv, TypeOK, Starts, Later, Past, Announcements, Settled,
        OneFinish, Live, Terminal, Owning, Announce
<1>6. OneFinish'
  BY <1>0, CallsFacts, BoundsAssumption
    DEF IInv, TypeOK, Starts, Announcements, Settled, OneFinish, Live,
        Terminal, Owning, Announce
<1> QED
  BY <1>k, <1>1, <1>2, <1>4, <1>5, <1>6
    DEF IInv

LEMMA DropSweptKeeps ==
    ASSUME IInv, NEW r \in Runs, DropSwept(r)
    PROVE  IInv'
<1>0. UNCHANGED <<row, pin, pending, started, born, finished, registry,
                signalled, at, of, loaded, from, ends, cancelAt,
                target, boot, graph, edits, origin, restarts>>
  BY DEF DropSwept, DropCheckpoint, rowVars, liveVars, callVars, cancelVars,
     flowVars
<1>k. Starts' /\ Endings' /\ OneExecutor' /\ Pinned' /\ OneFinish'
  BY <1>0
    DEF IInv, Starts, Endings, OneExecutor, Executes, Pinned, OneFinish
<1>1. TypeOK'
  BY <1>0, CallsFacts, BoundsAssumption
    DEF IInv, TypeOK, Endings, Phases, Ends, Live, Terminal, Owning,
        DropSwept, DropCheckpoint
<1>2. Later'
  BY <1>0, CallsFacts, BoundsAssumption
    DEF IInv, TypeOK, Starts, Later, Past, Live, Terminal, Owning,
        DropSwept, DropCheckpoint
<1>3. \A x \in Runs : Dead(x) => Dead(x)'
  BY <1>0
    DEF IInv, Dead, Settled, Unexecuted, Executes, Past
<1>4. Checkpoints'
  BY <1>0, CallsFacts, BoundsAssumption, <1>3
    DEF IInv, TypeOK, Starts, Later, Past, Endings, Checkpoints, Dead,
        Settled, Unexecuted, OneExecutor, Executes, Live, Terminal, Owning,
        DropSwept, DropCheckpoint
<1>5. ParkedIsResumable'
  <2>1. row[r] # "pending_approval"
    BY DeadNotParked DEF IInv, Checkpoints, TypeOK, DropSwept, DropCheckpoint
  <2>2. \A x \in Runs \ {r} : saved'[x] = saved[x]
    BY DEF IInv, TypeOK, DropSwept, DropCheckpoint
  <2> QED
    BY <1>0, <2>1, <2>2 DEF IInv, ParkedIsResumable
<1>6. Announcements'
  BY <1>0, CallsFacts, BoundsAssumption
    DEF IInv, TypeOK, Starts, Later, Past, Announcements, Settled,
        OneFinish, Live, Terminal, Owning, DropSwept, DropCheckpoint
<1> QED
  BY <1>k, <1>1, <1>2, <1>4, <1>5, <1>6
    DEF IInv

LEMMA AbandonSweepKeeps ==
    ASSUME IInv, NEW r \in Runs, AbandonSweep(r)
    PROVE  IInv'
<1>0. UNCHANGED <<row, pin, pending, started, born, finished, saved, registry,
                signalled, at, of, loaded, from, ends, cancelAt,
                target, boot, graph, edits, origin, restarts>>
  BY DEF AbandonSweep, rowVars, liveVars, callVars, cancelVars, flowVars
<1>k. Starts' /\ Endings' /\ OneExecutor' /\ Pinned' /\ ParkedIsResumable'
      /\ OneFinish'
  BY <1>0
    DEF IInv, Starts, Endings, OneExecutor, Executes, Pinned,
        ParkedIsResumable, OneFinish
<1>1. TypeOK'
  BY <1>0, CallsFacts, BoundsAssumption
    DEF IInv, TypeOK, Endings, Phases, Ends, Live, Terminal, Owning,
        AbandonSweep
<1>2. Later'
  BY <1>0, CallsFacts, BoundsAssumption
    DEF IInv, TypeOK, Starts, Later, Past, Live, Terminal, Owning,
        AbandonSweep
<1>3. \A x \in Runs : Dead(x) => Dead(x)'
  BY <1>0
    DEF IInv, Dead, Settled, Unexecuted, Executes, Past
<1>4. Checkpoints'
  BY <1>0, CallsFacts, BoundsAssumption, <1>3
    DEF IInv, TypeOK, Starts, Later, Past, Endings, Checkpoints, Dead,
        Settled, Unexecuted, OneExecutor, Executes, Live, Terminal, Owning,
        AbandonSweep
<1>5. Announcements'
  BY <1>0, CallsFacts, BoundsAssumption
    DEF IInv, TypeOK, Starts, Later, Past, Announcements, Settled,
        OneFinish, Live, Terminal, Owning, AbandonSweep
<1> QED
  BY <1>k, <1>1, <1>2, <1>4, <1>5
    DEF IInv

LEMMA ListOrphansKeeps ==
    ASSUME IInv, ListOrphans
    PROVE  IInv'
<1>0. UNCHANGED <<row, pin, pending, started, born, finished, saved, registry,
                signalled, at, of, loaded, from, ends, cancelAt,
                target, swept, graph, edits, origin, restarts>>
  BY DEF ListOrphans, Orphans, BootUnchanged, rowVars, liveVars, callVars,
     cancelVars, flowVars
<1>k. Starts' /\ Endings' /\ OneExecutor' /\ Pinned' /\ Checkpoints' /\
      ParkedIsResumable' /\ Announcements' /\ OneFinish'
  BY <1>0
    DEF IInv, Starts, Endings, OneExecutor, Executes, Pinned, Checkpoints,
        Dead, Settled, Unexecuted, Past, ParkedIsResumable, Announcements,
        OneFinish
<1>1. TypeOK'
  BY <1>0, CallsFacts, BoundsAssumption
    DEF IInv, TypeOK, Endings, Phases, Ends, Live, Terminal, Owning,
        ListOrphans, Orphans, BootUnchanged
<1>2. Later'
  BY <1>0, CallsFacts, BoundsAssumption
    DEF IInv, TypeOK, Starts, Later, Past, Live, Terminal, Owning,
        ListOrphans, Orphans, BootUnchanged
<1> QED
  BY <1>k, <1>1, <1>2
    DEF IInv

LEMMA ExamineOrphanKeeps ==
    ASSUME IInv, NEW r \in Runs, ExamineOrphan(r)
    PROVE  IInv'
<1>0. UNCHANGED <<row, pin, pending, started, born, finished, saved, registry,
                signalled, at, of, loaded, from, ends, cancelAt,
                target, swept, graph, edits, origin, restarts>>
  BY DEF ExamineOrphan, BootUnchanged, rowVars, liveVars, callVars, cancelVars,
     flowVars
<1>k. Starts' /\ Endings' /\ OneExecutor' /\ Pinned' /\ Checkpoints' /\
      ParkedIsResumable' /\ Announcements' /\ OneFinish'
  BY <1>0
    DEF IInv, Starts, Endings, OneExecutor, Executes, Pinned, Checkpoints,
        Dead, Settled, Unexecuted, Past, ParkedIsResumable, Announcements,
        OneFinish
<1>1. TypeOK'
  BY <1>0, CallsFacts, BoundsAssumption
    DEF IInv, TypeOK, Endings, Phases, Ends, Live, Terminal, Owning,
        ExamineOrphan, BootUnchanged
<1>2. Later'
  BY <1>0, CallsFacts, BoundsAssumption
    DEF IInv, TypeOK, Starts, Later, Past, Live, Terminal, Owning,
        ExamineOrphan, BootUnchanged
<1> QED
  BY <1>k, <1>1, <1>2
    DEF IInv

LEMMA MarkInterruptedKeeps ==
    ASSUME IInv, NEW b \in BOOLEAN, MarkInterrupted(b)
    PROVE  IInv'
<1>0. UNCHANGED <<pin, pending, started, born, saved, registry, signalled, at,
                of, loaded, from, ends, cancelAt, target, graph,
                edits, origin, restarts>>
  BY DEF MarkInterrupted, BootUnchanged, rowVars, liveVars, callVars,
     cancelVars, flowVars
<1>k. Endings'
  BY <1>0
    DEF IInv, Endings
<1>1. TypeOK'
  <2>1. boot.orphan \in Runs
    BY DEF IInv, TypeOK, MarkInterrupted
  <2>2. /\ row' \in [Runs -> Live \cup Terminal \cup {"none", "pruned"}]
        /\ finished' \in [Runs -> Nat]
        /\ swept' \in [Runs -> {"nothing", "notice", "checkpoint"}]
    BY <2>1 DEF IInv, TypeOK, MarkInterrupted, Terminal
  <2>3. boot' \in [listed : BOOLEAN, left : SUBSET Runs,
                   orphan : Runs \cup {NULL}]
    BY DEF IInv, TypeOK, MarkInterrupted
  <2> QED
    BY <1>0, <2>2, <2>3 DEF IInv, TypeOK
<1>2. Starts'
  BY <1>0, CallsFacts, BoundsAssumption
    DEF IInv, TypeOK, Starts, Later, Past, Live, Terminal, Owning,
        MarkInterrupted, BootUnchanged
<1>3. Later'
  BY <1>0, CallsFacts, BoundsAssumption
    DEF IInv, TypeOK, Starts, Later, Past, Live, Terminal, Owning,
        MarkInterrupted, BootUnchanged
<1>4. \A x \in Runs : Dead(x) => Dead(x)'
  BY <1>0, CallsFacts, BoundsAssumption
    DEF IInv, TypeOK, Starts, Later, Past, OneExecutor, Executes, Dead,
        Settled, Unexecuted, Live, Terminal, Owning, MarkInterrupted,
        BootUnchanged
<1>5. OneExecutor'
  BY <1>0, CallsFacts, BoundsAssumption
    DEF IInv, TypeOK, Starts, Later, Past, OneExecutor, Executes, Live,
        Terminal, Owning, MarkInterrupted, BootUnchanged
<1>6. Pinned'
  BY <1>0, CallsFacts, BoundsAssumption
    DEF IInv, TypeOK, Starts, Later, Past, Pinned, OneExecutor, Executes,
        Live, Terminal, Owning, MarkInterrupted, BootUnchanged
<1>7. Checkpoints'
  <2>1. \A x \in Calls :
          /\ at'[x] = "leaving" /\ ends'[x] = "cancelled" =>
                (at[x] = "leaving" /\ ends[x] = "cancelled")
          /\ at'[x] = "dropping" => at[x] = "dropping"
          /\ at'[x] = "settling" /\ ends'[x] = "pending_approval" =>
                at[x] = "settling" /\ ends[x] = "pending_approval"
    BY <1>0 DEF IInv, TypeOK, Endings, MarkInterrupted
  <2>2. \A x \in Runs : Settled(x) => Settled(x)'
    BY <1>0 DEF IInv, TypeOK, Endings, MarkInterrupted, Settled, Terminal, Live
  <2>3. \A x \in Runs : swept'[x] # "nothing" =>
          swept[x] # "nothing" \/ Settled(x)'
    BY <1>0 DEF MarkInterrupted, IInv, TypeOK, Settled, Terminal
  <2>4. \A x \in Runs : Settled(x)' => Dead(x)'
    BY DEF Dead
  <2> QED
    BY <1>0, <1>4, <2>1, <2>2, <1>1, <2>3, <2>4, CallsFacts
      DEF IInv, TypeOK, Checkpoints
<1>8. ParkedIsResumable'
  BY <1>0, CallsFacts, BoundsAssumption
    DEF IInv, TypeOK, Starts, Checkpoints, Dead, Settled, Unexecuted,
        OneExecutor, Executes, Past, ParkedIsResumable, Live, Terminal, Owning,
        MarkInterrupted, BootUnchanged
<1>9. Announcements'
  BY <1>0, CallsFacts, BoundsAssumption
    DEF IInv, TypeOK, Starts, Later, Past, Announcements, Settled,
        OneFinish, Live, Terminal, Owning, MarkInterrupted, BootUnchanged
<1>10. OneFinish'
  BY <1>0, CallsFacts, BoundsAssumption
    DEF IInv, TypeOK, Starts, Announcements, Settled, OneFinish, Live,
        Terminal, Owning, MarkInterrupted, BootUnchanged
<1> QED
  BY <1>k, <1>1, <1>2, <1>3, <1>5, <1>6, <1>7, <1>8, <1>9, <1>10
    DEF IInv

LEMMA PruneRunsKeeps ==
    ASSUME IInv, PruneRuns
    PROVE  IInv'
<1>0. UNCHANGED <<pin, pending, started, born, finished, saved, registry,
                signalled, at, of, loaded, from, ends, cancelAt,
                target, swept, boot, graph, edits, origin, restarts>>
  BY DEF PruneRuns, Pruned, Stale, rowVars, liveVars, callVars, cancelVars,
     flowVars
<1>p. /\ row' \in [Runs -> Live \cup Terminal \cup {"none", "pruned"}]
      /\ \A x \in Runs : row'[x] = row[x]
            \/ (row[x] \in Terminal /\ row'[x] = "pruned")
  BY PrunedFacts DEF PruneRuns, IInv, TypeOK
<1>k. Endings' /\ Later'
  BY <1>0
    DEF IInv, Endings, Later, Past
<1>1. TypeOK'
  BY <1>0, <1>p, CallsFacts, BoundsAssumption
    DEF IInv, TypeOK, Endings, Phases, Ends, Live, Terminal, Owning
<1>2. Starts'
  BY <1>0, <1>p, CallsFacts, BoundsAssumption
    DEF IInv, TypeOK, Starts, Later, Past, Live, Terminal, Owning
<1>3. \A x \in Runs : Dead(x) => Dead(x)'
  BY <1>0, <1>p, CallsFacts, BoundsAssumption
    DEF IInv, TypeOK, Starts, Later, Past, OneExecutor, Executes, Dead,
        Settled, Unexecuted, Live, Terminal, Owning
<1>4. OneExecutor'
  <2>1. \A x \in Runs :
          row'[x] = "pending_approval" => row[x] = "pending_approval"
    BY <1>p
  <2> QED
    BY <1>0, <2>1 DEF IInv, OneExecutor, Executes
<1>5. Pinned'
  BY <1>0, <1>p, CallsFacts, BoundsAssumption
    DEF IInv, TypeOK, Starts, Later, Past, Pinned, OneExecutor, Executes,
        Live, Terminal, Owning
<1>6. Checkpoints'
  <2>1. \A x \in Calls :
          /\ at'[x] = "leaving" /\ ends'[x] = "cancelled" =>
                (at[x] = "leaving" /\ ends[x] = "cancelled")
          /\ at'[x] = "dropping" => at[x] = "dropping"
          /\ at'[x] = "settling" /\ ends'[x] = "pending_approval" =>
                at[x] = "settling" /\ ends[x] = "pending_approval"
    BY <1>0, <1>p DEF IInv, TypeOK, Endings
  <2>2. \A x \in Runs : Settled(x) => Settled(x)'
    BY <1>0, <1>p DEF IInv, TypeOK, Endings, Settled, Terminal, Live
  <2> QED
    BY <1>0, <1>3, <2>1, <2>2, CallsFacts
      DEF IInv, TypeOK, Checkpoints
<1>7. ParkedIsResumable'
  BY <1>0, <1>p, CallsFacts, BoundsAssumption
    DEF IInv, TypeOK, Starts, Checkpoints, Dead, Settled, Unexecuted,
        OneExecutor, Executes, Past, ParkedIsResumable, Live, Terminal, Owning
<1>8. Announcements'
  BY <1>0, <1>p, CallsFacts, BoundsAssumption
    DEF IInv, TypeOK, Starts, Later, Past, Announcements, Settled,
        OneFinish, Live, Terminal, Owning
<1>9. OneFinish'
  BY <1>0, <1>p, CallsFacts, BoundsAssumption
    DEF IInv, TypeOK, Starts, Announcements, Settled, OneFinish, Live,
        Terminal, Owning
<1> QED
  BY <1>k, <1>1, <1>2, <1>4, <1>5, <1>6, <1>7, <1>8, <1>9
    DEF IInv

LEMMA EditFlowKeeps ==
    ASSUME IInv, EditFlow
    PROVE  IInv'
<1>0. UNCHANGED <<row, pin, pending, started, born, finished, saved, registry,
                signalled, at, of, loaded, from, ends, cancelAt,
                target, swept, boot, origin, restarts>>
  BY DEF EditFlow, rowVars, liveVars, callVars, cancelVars, flowVars
<1>k. Starts' /\ Endings' /\ Later' /\ OneExecutor' /\ Pinned' /\
      Checkpoints' /\ ParkedIsResumable' /\ Announcements' /\ OneFinish'
  BY <1>0
    DEF IInv, Starts, Endings, Later, Past, OneExecutor, Executes, Pinned,
        Checkpoints, Dead, Settled, Unexecuted, ParkedIsResumable,
        Announcements, OneFinish
<1>1. TypeOK'
  BY <1>0, CallsFacts, BoundsAssumption
    DEF IInv, TypeOK, Endings, Phases, Ends, Live, Terminal, Owning,
        EditFlow
<1> QED
  BY <1>k, <1>1
    DEF IInv

LEMMA CrashKeeps ==
    ASSUME IInv, Crash
    PROVE  IInv'
<1>0. UNCHANGED <<row, pin, pending, started, born, finished, saved, of,
                target, graph, edits, origin>>
  BY DEF Crash, Unlisted, rowVars, liveVars, callVars, cancelVars, flowVars
<1>k. ParkedIsResumable' /\ OneFinish'
  BY <1>0
    DEF IInv, ParkedIsResumable, OneFinish
<1>1. TypeOK'
  BY <1>0, CallsFacts, BoundsAssumption
    DEF IInv, TypeOK, Endings, Phases, Ends, Live, Terminal, Owning, Crash,
        Unlisted
<1>2. Starts'
  BY <1>0, CallsFacts, BoundsAssumption
    DEF IInv, TypeOK, Starts, Later, Past, Live, Terminal, Owning, Crash,
        Unlisted
<1>3. Endings'
  BY <1>0, CallsFacts, BoundsAssumption
    DEF IInv, TypeOK, Endings, Phases, Ends, Terminal, Owning, Crash,
        Unlisted
<1>4. Later'
  BY <1>0, CallsFacts, BoundsAssumption
    DEF IInv, TypeOK, Starts, Later, Past, Live, Terminal, Owning, Crash,
        Unlisted
<1>5. \A x \in Runs : Dead(x) => Dead(x)'
  BY <1>0, CallsFacts, BoundsAssumption
    DEF IInv, TypeOK, Starts, Later, Past, OneExecutor, Executes, Dead,
        Settled, Unexecuted, Live, Terminal, Owning, Crash, Unlisted
<1>6. OneExecutor'
  BY <1>0, CallsFacts, BoundsAssumption
    DEF IInv, TypeOK, Starts, Later, Past, OneExecutor, Executes, Live,
        Terminal, Owning, Crash, Unlisted
<1>7. Pinned'
  BY <1>0, CallsFacts, BoundsAssumption
    DEF IInv, TypeOK, Starts, Later, Past, Pinned, OneExecutor, Executes,
        Live, Terminal, Owning, Crash, Unlisted
<1>8. Checkpoints'
  BY <1>0, CallsFacts, BoundsAssumption, <1>5
    DEF IInv, TypeOK, Starts, Later, Past, Endings, Checkpoints, Dead,
        Settled, Unexecuted, OneExecutor, Executes, Live, Terminal, Owning,
        Crash, Unlisted
<1>9. Announcements'
  BY <1>0, CallsFacts, BoundsAssumption
    DEF IInv, TypeOK, Starts, Later, Past, Announcements, Settled,
        OneFinish, Live, Terminal, Owning, Crash, Unlisted
<1> QED
  BY <1>k, <1>1, <1>2, <1>3, <1>4, <1>6, <1>7, <1>8, <1>9
    DEF IInv

-------------------------------------------------------------------------------
(* The invariant holds, and with it the invariants the runs check.         *)

LEMMA InitIInv == Init => IInv
<1> SUFFICES ASSUME Init PROVE IInv
  OBVIOUS
<1>1. TypeOK
  BY CallsFacts, BoundsAssumption
    DEF Init, TypeOK, Unlisted, Phases, Live, Terminal
<1>2. Starts
  BY CallsFacts DEF Init, Starts, Owning
<1>3. \A a \in Calls : at[a] = "idle" /\ ends[a] = NULL
  BY DEF Init
<1>4. /\ \A k \in Cancels : cancelAt[k] = "idle"
      /\ \A r \in Runs : row[r] = "none" /\ swept[r] = "nothing"
                         /\ finished[r] = 0
      /\ boot.left = {} /\ boot.orphan = NULL
  BY DEF Init, Unlisted
<1>5. Endings
  BY <1>3 DEF Endings
<1>6. Later
  BY <1>3, <1>4, CallsFacts DEF Later
<1>7. OneExecutor /\ Pinned /\ ParkedIsResumable
  BY <1>3, <1>4, CallsFacts
    DEF OneExecutor, Executes, Pinned, ParkedIsResumable, Owning
<1>8. Checkpoints
  BY <1>3, <1>4 DEF Checkpoints
<1>9. Announcements /\ OneFinish
  BY <1>4 DEF Announcements, OneFinish, Settled
<1> QED
  BY <1>1, <1>2, <1>5, <1>6, <1>7, <1>8, <1>9 DEF IInv

LEMMA Stutter ==
    ASSUME IInv, UNCHANGED vars
    PROVE  IInv'
<1> UNCHANGED <<rowVars, saved, liveVars, callVars, cancelVars, swept, boot,
                flowVars, origin, restarts>>
  BY DEF vars
<1> QED
  BY DEF rowVars, liveVars, callVars, cancelVars, flowVars, IInv, TypeOK,
    Starts, Endings, Later, Past, OneExecutor, Executes, Pinned, Checkpoints,
    Dead, Settled, Unexecuted, ParkedIsResumable, Announcements, OneFinish

LEMMA NextIInv ==
    ASSUME IInv, [Next]_vars
    PROVE  IInv'
<1>0. "failed" \in Terminal /\ "completed" \in Terminal
      /\ "cancelled" \in Terminal /\ "interrupted" \in Terminal
  BY DEF Terminal
<1>1. CASE \E r \in Runs : StartStep(r)
  BY <1>0, <1>1, CallsFacts, StartKeeps, InsertRowKeeps, SettlingKeeps
    DEF StartStep, FailEarly
<1>2. CASE \E r \in Runs : SweepStep(r)
  BY <1>2, ExpireKeeps, AnnounceKeeps, DropSweptKeeps, AbandonSweepKeeps
    DEF SweepStep
<1>3. CASE \E a \in Calls : BodyStep(a)
  BY <1>0, <1>3, BeginEngineKeeps, EnginePausesKeeps, SettlingKeeps,
    DropCancelledKeeps, LeaveKeeps, WriteEndKeeps
    DEF BodyStep, EngineEnds, SeeCancel, DropFuture
<1>4. CASE \E c \in Resumes : ResumeStep(c)
  BY <1>4, LoadFlowKeeps, CheckRowKeeps, DropRefusedKeeps, GiveUpKeeps,
    RegisterResumeKeeps, RefuseStaleKeeps, RefuseIncompatibleKeeps, ClaimKeeps
    DEF ResumeStep
<1>5. CASE \E k \in Cancels : CancelStep(k)
  BY <1>5, ReadStatusKeeps, SignalKeeps, SettleCancelKeeps, DropByCancelKeeps
    DEF CancelStep
<1>6. CASE BootStep
  BY <1>6, ListOrphansKeeps, ExamineOrphanKeeps, MarkInterruptedKeeps
    DEF BootStep
<1>7. CASE Rest \/ UNCHANGED vars
  BY <1>7, Stutter DEF Rest
<1> QED
  BY <1>1, <1>2, <1>3, <1>4, <1>5, <1>6, <1>7, PruneRunsKeeps, EditFlowKeeps,
    CrashKeeps DEF Next

THEOREM Invariance == Spec => []IInv
  BY InitIInv, NextIInv, PTL DEF Spec

(* Every variable keeps its type; in particular a call that is under way   *)
(* has a run and the flow it loaded.                                       *)
THEOREM TypeCorrect == Spec => []TypeOK
<1>1. IInv => TypeOK
  BY DEF IInv
<1> QED
  BY <1>1, Invariance, PTL

(* A run is executed by one call at a time, and by none while it is parked.*)
THEOREM ExecutionIsExclusive == Spec => []OneExecutor
<1>1. IInv => OneExecutor
  BY DEF IInv
<1> QED
  BY <1>1, Invariance, PTL

(* A parked run has the checkpoint of the gate its row names.              *)
THEOREM ParkedRunsResume == Spec => []ParkedIsResumable
<1>1. IInv => ParkedIsResumable
  BY DEF IInv
<1> QED
  BY <1>1, Invariance, PTL

(* A resume executes the graph its run was started with.                   *)
THEOREM ResumesRunWhatWasApproved == Spec => []ApprovedGraphOnly
<1>1. IInv => ApprovedGraphOnly
  BY DEF IInv, Pinned, ApprovedGraphOnly
<1> QED
  BY <1>1, Invariance, PTL

(* Nobody settles, refuses or sweeps a run under its start.                *)
THEOREM StartsAreProtected == Spec => []StartIsProtected
<1>1. IInv => StartIsProtected
  BY DEF IInv, Starts, StartIsProtected
<1> QED
  BY <1>1, Invariance, PTL

(* A run is announced finished at most once, and then is settled.          *)
THEOREM FinishedOnce == Spec => []OneFinish
<1>1. IInv => OneFinish
  BY DEF IInv
<1> QED
  BY <1>1, Invariance, PTL

-------------------------------------------------------------------------------
(* The lifecycle of FlowRunContract is implemented.                        *)

RunStep(x) == Contract!RunStep(x)

(* Nobody begins or ends executing. *)
SameExecutors ==
    \A a \in Calls : /\ at'[a] \in Owning <=> at[a] \in Owning
                     /\ at[a] \in Owning => of'[a] = of[a]

LEMMA SameExecutorsFacts ==
    ASSUME SameExecutors
    PROVE  executors' = executors
    BY DEF SameExecutors, executors, Executes

(* A row may be settled, or pruned once it is; a settled run may be        *)
(* announced, once.                                                        *)
RowSettles(x) ==
    \/ row'[x] = row[x] /\ finished'[x] = finished[x]
    \/ /\ row[x] \in Live /\ row'[x] \in Terminal
       /\ finished[x] = 0 /\ finished'[x] \in {0, 1}
    \/ /\ row[x] \in Terminal \cup {"pruned"} /\ row'[x] = row[x]
       /\ finished[x] = 0 /\ finished'[x] = 1
    \/ row[x] \in Terminal /\ row'[x] = "pruned" /\ finished'[x] = finished[x]

(* A run that lives has not been announced.                                *)
LEMMA Unannounced ==
    ASSUME IInv, NEW x \in Runs, row[x] \in Live
    PROVE  finished[x] = 0
    BY DEF IInv, Announcements, Settled, Live, Terminal

LEMMA RowsOnly ==
    ASSUME SameExecutors, \A x \in Runs : RowSettles(x)
    PROVE  \A x \in Runs : RunStep(x)
<1>1. executors' = executors
  BY SameExecutorsFacts
<1> QED
  BY <1>1 DEF RowSettles, RunStep, Contract!RunStep, Contract!Rest,
    Contract!Settle, Contract!Announce, Contract!Forget, Contract!Quiet,
    Contract!Live, Contract!Settled, Live, Terminal

LEMMA RowsOnlyFinish ==
    ASSUME IInv, NEW r \in Runs, NEW status \in Terminal, NEW g, NEW k,
           NEW m \in BOOLEAN, FinishRow(r, status, g, k, m)
    PROVE  \A x \in Runs : RowSettles(x)
    BY Unannounced DEF IInv, TypeOK, FinishRow, RowSettles

(* The steps that begin, hand over or end an execution.                    *)
LEMMA InsertRowMaps ==
    ASSUME IInv, NEW r \in Runs, NEW b \in BOOLEAN, InsertRow(r, b)
    PROVE  \A x \in Runs : RunStep(x)
<1>1. /\ row[r] = "none" /\ at[r] = "registered" /\ r \in Calls
      /\ at' = [at EXCEPT ![r] = "started"] /\ of' = of /\ of[r] = r
  BY CallsFacts DEF IInv, Starts, InsertRow, Become
<1>2. executors[r] = {}
  <2>1. \A a \in Calls : Executes(a, r) => a = r
    BY <1>1, StartAlone DEF IInv, Past
  <2> QED
    BY <1>1, <2>1 DEF executors, Executes, Owning
<1>3. executors'[r] = {r}
  <2>1. \A a \in Calls : Executes(a, r)' <=> a = r
    BY <1>1, <1>2 DEF executors, Executes, Owning, IInv, TypeOK
  <2> QED
    BY <1>1, <2>1 DEF executors
<1>4. \A x \in Runs \ {r} : executors'[x] = executors[x]
  BY <1>1 DEF executors, Executes, Owning, IInv, TypeOK
<1>5. /\ row'[r] \in {"none", "running"} /\ finished' = finished
      /\ \A x \in Runs \ {r} : RowSettles(x)
  <2>1. CASE b
    <3> DEFINE inserted == [row EXCEPT ![r] = "running"]
    <3>1. inserted \in [Runs -> Live \cup Terminal \cup {"none", "pruned"}]
      BY DEF IInv, TypeOK, Live
    <3>2. row' = Pruned(inserted, started') \/ row' = inserted
      BY <2>1 DEF InsertRow
    <3>3. inserted[r] = "running" /\ \A x \in Runs \ {r} : inserted[x] = row[x]
      BY DEF IInv, TypeOK
    <3>4. finished' = finished
      BY <2>1 DEF InsertRow
    <3> HIDE DEF inserted
    <3> QED
      BY <3>1, <3>2, <3>3, <3>4, PrunedFacts DEF Terminal, RowSettles
  <2>2. CASE ~b
    BY <1>1, <2>2 DEF InsertRow, RowSettles
  <2> QED
    BY <2>1, <2>2
<1>6. Contract!RunStep(r)
  BY <1>1, <1>2, <1>3, <1>5 DEF Contract!RunStep, Contract!Begin,
    Contract!Quiet
<1>7. \A x \in Runs \ {r} : Contract!RunStep(x)
  BY <1>4, <1>5 DEF RowSettles, Contract!RunStep, Contract!Rest,
    Contract!Settle, Contract!Announce, Contract!Forget, Contract!Quiet,
    Contract!Live, Contract!Settled, Live, Terminal
<1> QED
  BY <1>6, <1>7 DEF RunStep

LEMMA WriteEndMaps ==
    ASSUME IInv, NEW a \in Calls, NEW b \in BOOLEAN, WriteEnd(a, b)
    PROVE  \A x \in Runs : RunStep(x)
<1> DEFINE r == of[a]
<1>1. /\ r \in Runs /\ at[a] = "settling" /\ ends[a] \in Ends
      /\ at' = [at EXCEPT ![a] = "leaving"] /\ of' = of
  BY Target DEF IInv, WriteEnd, Become, Endings, TypeOK
<1>2. /\ \A x \in Runs \ {r} : row'[x] = row[x] /\ finished'[x] = finished[x]
      /\ \/ row'[r] = row[r] /\ finished'[r] = finished[r]
         \/ /\ row[r] \in Live /\ row'[r] = ends[a] /\ finished[r] = 0
            /\ finished'[r] = IF ends[a] \in Terminal THEN 1 ELSE 0
  <2>1. CASE ends[a] = "pending_approval"
    BY <1>1, <2>1, Unannounced
      DEF WriteEnd, FinishRow, IInv, TypeOK, Terminal
  <2>2. CASE ends[a] # "pending_approval"
    BY <1>1, <2>2, Unannounced
      DEF WriteEnd, SettleRow, FinishRow, IInv, TypeOK, Ends
  <2> QED
    BY <2>1, <2>2
<1>3. executors[r] = {a}
  BY <1>1 DEF IInv, OneExecutor, executors, Executes, Owning
<1>4. executors'[r] = {}
  <2>1. \A x \in Calls : Executes(x, r) => x = a
    BY <1>1, <1>3 DEF executors
  <2>2. \A x \in Calls : ~(at'[x] \in Owning /\ of'[x] = r)
    BY <1>1, <2>1 DEF Executes, Owning, IInv, TypeOK
  <2> QED
    BY <1>1, <2>2 DEF executors, Executes
<1>5. \A x \in Runs \ {r} : executors'[x] = executors[x]
  BY <1>1 DEF executors, Executes, Owning, IInv, TypeOK
<1>6. row[r] # "pending_approval"
  BY <1>1, <1>3 DEF IInv, OneExecutor, executors
<1>7. Contract!RunStep(r)
  BY <1>1, <1>2, <1>3, <1>4, <1>6 DEF Contract!RunStep, Contract!Pause,
    Contract!Settle, Contract!Stop, Contract!Quiet, Contract!Live,
    Contract!Settled, Live, Ends, Terminal
<1>8. \A x \in Runs \ {r} : Contract!RunStep(x)
  BY <1>2, <1>5 DEF Contract!RunStep, Contract!Rest, Contract!Quiet
<1> QED
  BY <1>1, <1>7, <1>8 DEF RunStep

LEMMA ClaimMaps ==
    ASSUME IInv, NEW c \in Resumes, NEW b \in BOOLEAN, Claim(c, b)
    PROVE  \A x \in Runs : RunStep(x)
<1> DEFINE r == of[c]
<1>1. c \in Calls /\ r \in Runs /\ at[c] = "claiming" /\ of' = of
  BY CallsFacts, Target DEF IInv, Claim, Become
<1>2. CASE ~b
  <2>1. at' = [at EXCEPT ![c] = "leaving"] /\ UNCHANGED <<row, finished>>
    BY <1>2 DEF Claim, Become
  <2>2. SameExecutors /\ \A x \in Runs : RowSettles(x)
    BY <1>1, <2>1 DEF SameExecutors, RowSettles, Owning, IInv, TypeOK
  <2> QED
    BY <2>2, RowsOnly
<1>3. CASE b
  <2>1. /\ at' = [at EXCEPT ![c] = "started"]
        /\ row[r] = "pending_approval" /\ row'[r] = "running"
        /\ \A x \in Runs \ {r} : row'[x] = row[x]
        /\ finished' = finished
    BY <1>1, <1>3 DEF Claim, Become, IInv, TypeOK
  <2>2. executors[r] = {}
    BY <1>1, <2>1 DEF IInv, OneExecutor, executors
  <2>3. executors'[r] = {c}
    <3>1. \A a \in Calls : ~(at[a] \in Owning /\ of[a] = r)
      BY <1>1, <2>2 DEF executors, Executes
    <3>2. \A a \in Calls : at'[a] \in Owning /\ of'[a] = r <=> a = c
      BY <1>1, <2>1, <3>1 DEF Owning, IInv, TypeOK
    <3> QED
      BY <1>1, <3>2 DEF executors, Executes
  <2>4. \A x \in Runs \ {r} : executors'[x] = executors[x]
    BY <1>1, <2>1 DEF executors, Executes, Owning, IInv, TypeOK
  <2>5. Contract!RunStep(r)
    BY <1>1, <2>1, <2>2, <2>3 DEF Contract!RunStep, Contract!TakeUp,
      Contract!Quiet
  <2>6. \A x \in Runs \ {r} : Contract!RunStep(x)
    BY <2>1, <2>4 DEF Contract!RunStep, Contract!Rest, Contract!Quiet
  <2> QED
    BY <1>1, <2>5, <2>6 DEF RunStep
<1> QED
  BY <1>2, <1>3

LEMMA CrashMaps ==
    ASSUME IInv, Crash
    PROVE  \A x \in Runs : RunStep(x)
<1>1. \A a \in Calls : at'[a] \notin Owning
  BY DEF Crash, Owning
<1>2. \A x \in Runs : executors'[x] = {} /\ row'[x] = row[x] /\ finished' = finished
  BY <1>1 DEF executors, Executes, Crash, rowVars
<1> QED
  BY <1>2 DEF RunStep, Contract!RunStep, Contract!Rest, Contract!Stop,
    Contract!Quiet

(* The steps under which executions neither begin nor end.                 *)
LEMMA RestMaps ==
    ASSUME SameExecutors, UNCHANGED <<row, finished>>
    PROVE  \A x \in Runs : RunStep(x)
    BY RowsOnly DEF RowSettles

LEMMA BodyMaps ==
    ASSUME IInv, NEW a \in Calls, BodyStep(a)
    PROVE  \A x \in Runs : RunStep(x)
<1>1. CASE \E status \in Terminal : at[a] \in {"started", "executing"}
             /\ Settling(a, status) /\ Elsewhere
  <2>1. SameExecutors /\ UNCHANGED <<row, finished>>
    BY <1>1 DEF SameExecutors, Settling, Elsewhere, rowVars, Owning, IInv,
      TypeOK
  <2> QED
    BY <2>1, RestMaps
<1>2. CASE BeginEngine(a)
  <2>1. SameExecutors /\ UNCHANGED <<row, finished>>
    BY <1>2 DEF SameExecutors, BeginEngine, Settling, Elsewhere, rowVars,
      Owning, IInv, TypeOK
  <2> QED
    BY <2>1, RestMaps
<1>3. CASE EnginePauses(a)
  <2>1. SameExecutors /\ UNCHANGED <<row, finished>>
    BY <1>3 DEF SameExecutors, EnginePauses, Settling, rowVars, Owning, IInv,
      TypeOK
  <2> QED
    BY <2>1, RestMaps
<1>4. CASE DropCancelled(a)
  <2>1. SameExecutors /\ UNCHANGED <<row, finished>>
    BY <1>4 DEF SameExecutors, DropCancelled, rowVars
  <2> QED
    BY <2>1, RestMaps
<1>5. CASE Leave(a)
  <2>1. SameExecutors /\ UNCHANGED <<row, finished>>
    BY <1>5 DEF SameExecutors, Leave, End, rowVars, Owning, IInv, TypeOK
  <2> QED
    BY <2>1, RestMaps
<1>6. "failed" \in Terminal /\ "completed" \in Terminal
      /\ "cancelled" \in Terminal /\ "interrupted" \in Terminal
  BY DEF Terminal
<1>7. CASE EngineEnds(a) \/ SeeCancel(a) \/ DropFuture(a)
  BY <1>1, <1>6, <1>7 DEF EngineEnds, SeeCancel, DropFuture
<1> QED
  BY <1>2, <1>3, <1>4, <1>5, <1>7, WriteEndMaps DEF BodyStep

LEMMA StartMaps ==
    ASSUME IInv, NEW r \in Runs, StartStep(r)
    PROVE  \A x \in Runs : RunStep(x)
<1>1. CASE Start(r)
  <2>1. SameExecutors /\ UNCHANGED <<row, finished>>
    BY <1>1, CallsFacts DEF SameExecutors, Start, rowVars, Owning, IInv, TypeOK
  <2> QED
    BY <2>1, RestMaps
<1>2. CASE FailEarly(r)
  <2>1. SameExecutors /\ UNCHANGED <<row, finished>>
    BY <1>2, CallsFacts DEF SameExecutors, FailEarly, Settling, Elsewhere,
      rowVars, Owning, IInv, TypeOK
  <2> QED
    BY <2>1, RestMaps
<1> QED
  BY <1>1, <1>2, InsertRowMaps DEF StartStep

LEMMA ResumeMaps ==
    ASSUME IInv, NEW c \in Resumes, ResumeStep(c)
    PROVE  \A x \in Runs : RunStep(x)
<1>0. c \in Calls /\ "failed" \in Terminal /\ "cancelled" \in Terminal
  BY CallsFacts DEF Terminal
<1>1. ASSUME NEW r \in Runs, LoadFlow(c, r) PROVE \A x \in Runs : RunStep(x)
  <2>1. SameExecutors /\ UNCHANGED <<row, finished>>
    BY <1>0, <1>1 DEF SameExecutors, LoadFlow, Elsewhere, rowVars, Owning,
      IInv, TypeOK
  <2> QED
    BY <2>1, RestMaps
<1>2. CASE CheckRow(c)
  <2>1. SameExecutors /\ UNCHANGED <<row, finished>>
    BY <1>0, <1>2 DEF SameExecutors, CheckRow, End, Become, Elsewhere, rowVars,
      Owning, IInv, TypeOK
  <2> QED
    BY <2>1, RestMaps
<1>3. CASE DropRefused(c) \/ GiveUp(c)
  <2>1. SameExecutors /\ UNCHANGED <<row, finished>>
    BY <1>0, <1>3 DEF SameExecutors, DropRefused, GiveUp, End, Elsewhere,
      rowVars, Owning, IInv, TypeOK
  <2> QED
    BY <2>1, RestMaps
<1>4. CASE RegisterResume(c)
  <2>1. SameExecutors /\ UNCHANGED <<row, finished>>
    BY <1>0, <1>4 DEF SameExecutors, RegisterResume, Become, rowVars, Owning,
      IInv, TypeOK
  <2> QED
    BY <2>1, RestMaps
<1>5. ASSUME NEW b \in BOOLEAN, RefuseStale(c, b)
      PROVE  \A x \in Runs : RunStep(x)
  <2>1. SameExecutors
    BY <1>0, <1>5 DEF SameExecutors, RefuseStale, Become, End, Owning, IInv,
      TypeOK
  <2>2. of[c] \in Runs /\ FinishRow(of[c], "cancelled", NULL, 0, b)
    BY <1>0, <1>5, Target DEF RefuseStale, SettleRow, IInv
  <2> QED
    BY <1>0, <2>1, <2>2, RowsOnlyFinish, RowsOnly
<1>6. ASSUME NEW b \in BOOLEAN, RefuseIncompatible(c, b)
      PROVE  \A x \in Runs : RunStep(x)
  <2>1. SameExecutors
    BY <1>0, <1>6 DEF SameExecutors, RefuseIncompatible, End, Owning, IInv,
      TypeOK
  <2>2. of[c] \in Runs /\ FinishRow(of[c], "failed", NULL, 0, b)
    BY <1>0, <1>6, Target DEF RefuseIncompatible, SettleRow, IInv
  <2> QED
    BY <1>0, <2>1, <2>2, RowsOnlyFinish, RowsOnly
<1> QED
  BY <1>1, <1>2, <1>3, <1>4, <1>5, <1>6, ClaimMaps DEF ResumeStep

LEMMA CancelMaps ==
    ASSUME IInv, NEW k \in Cancels, CancelStep(k)
    PROVE  \A x \in Runs : RunStep(x)
<1>1. SameExecutors
  BY DEF CancelStep, ReadStatus, Signal, SettleCancel, DropByCancel,
    CancelUnchanged, callVars, SameExecutors
<1>2. CASE UNCHANGED <<row, finished>>
  BY <1>1, <1>2, RestMaps
<1>3. ASSUME NEW b \in BOOLEAN, SettleCancel(k, b)
      PROVE  \A x \in Runs : RunStep(x)
  <2>1. /\ target[k] \in Runs /\ "cancelled" \in Terminal
        /\ FinishRow(target[k], "cancelled", NULL, 0, b)
    BY <1>3 DEF SettleCancel, SettleRow, IInv, TypeOK, Terminal
  <2> QED
    BY <1>1, <2>1, RowsOnlyFinish, RowsOnly
<1> QED
  BY <1>2, <1>3 DEF CancelStep, ReadStatus, Signal, DropByCancel, rowVars

LEMMA OthersMap ==
    ASSUME IInv, \/ \E r \in Runs : SweepStep(r)
                 \/ BootStep \/ PruneRuns \/ EditFlow \/ UNCHANGED vars
    PROVE  \A x \in Runs : RunStep(x)
<1>1. SameExecutors
  BY DEF SweepStep, Expire, Announce, DropSwept, AbandonSweep, BootStep,
    ListOrphans, ExamineOrphan, MarkInterrupted, BootUnchanged, PruneRuns,
    EditFlow, callVars, vars, SameExecutors
<1>2. ASSUME NEW r \in Runs, SweepStep(r)
      PROVE  \A x \in Runs : RowSettles(x)
  BY <1>2, Unannounced DEF SweepStep, Expire, Announce, DropSwept,
    AbandonSweep, rowVars, RowSettles, Live, Terminal, IInv, TypeOK,
    Announcements, Settled
<1>3. ASSUME BootStep PROVE \A x \in Runs : RowSettles(x)
  <2>1. ASSUME NEW b \in BOOLEAN, MarkInterrupted(b)
        PROVE  \A x \in Runs : RowSettles(x)
    <3>1. boot.orphan \in Runs /\ TypeOK
      BY <2>1 DEF MarkInterrupted, IInv, TypeOK
    <3>2. row[boot.orphan] = "running" => finished[boot.orphan] = 0
      BY <3>1, Unannounced DEF Live
    <3> QED
      BY <2>1, <3>1, <3>2
        DEF MarkInterrupted, RowSettles, Live, Terminal, TypeOK
  <2>2. CASE ListOrphans \/ \E r \in Runs : ExamineOrphan(r)
    BY <2>2 DEF ListOrphans, ExamineOrphan, rowVars, RowSettles
  <2> QED
    BY <1>3, <2>1, <2>2 DEF BootStep
<1>4. ASSUME PruneRuns PROVE \A x \in Runs : RowSettles(x)
  BY <1>4, PrunedFacts DEF PruneRuns, RowSettles, IInv, TypeOK
<1>5. ASSUME EditFlow \/ UNCHANGED vars PROVE \A x \in Runs : RowSettles(x)
  BY <1>5 DEF EditFlow, vars, rowVars, RowSettles
<1>6. \A x \in Runs : RowSettles(x)
  BY <1>2, <1>3, <1>4, <1>5
<1> QED
  BY <1>1, <1>6, RowsOnly

LEMMA NextMaps ==
    ASSUME IInv, [Next]_vars
    PROVE  Contract!Next
<1>1. \A x \in Runs : RunStep(x)
  BY BodyMaps, StartMaps, ResumeMaps, CancelMaps, CrashMaps, OthersMap
    DEF Next, Rest
<1>2. DOMAIN row' = Runs
  BY NextIInv DEF IInv, TypeOK
<1>3. DOMAIN executors' = Runs /\ DOMAIN finished' = Runs
  BY NextIInv DEF executors, IInv, TypeOK
<1> QED
  BY <1>1, <1>2, <1>3 DEF RunStep, Contract!Next

(* Flow runs follow the lifecycle: a settled run stays as it was settled,  *)
(* a paused one is taken up by one call.                                   *)
THEOREM LifecycleImplemented == Spec => LifecycleHolds
<1>1. Init => Contract!Init
  <2> SUFFICES ASSUME Init PROVE Contract!Init
    OBVIOUS
  <2>1. \A a \in Calls : at[a] \notin Owning
    BY DEF Init, Owning
  <2> QED
    BY <2>1 DEF Init, Contract!Init, executors, Executes
<1>2. IInv /\ [Next]_vars => [Contract!Next]_(Contract!vars)
  BY NextMaps
<1> QED
  BY <1>1, <1>2, Invariance, PTL DEF Spec, LifecycleHolds, Contract!Spec
-------------------------------------------------------------------------------
(* A row that says running is executed or left to the sweep at boot.       *)

(* Only a crash leaves a running row without a call.  From then on nobody  *)
(* registers for it or gets past the test of its status, and the sweep     *)
(* either has not listed the rows yet or still has this one in hand.       *)
Lost(r) == row[r] = "running" /\ Unexecuted(r)
Harmless == {"idle", "loaded", "done"}
Unclaimed(r) ==
    /\ registry[r] = NULL
    /\ \A c \in Resumes : of[c] = r => at[c] \in Harmless
Awaited(r) == ~boot.listed \/ r \in boot.left \/ boot.orphan = r
Attended ==
    \A r \in Runs :
        /\ born[r] <= restarts
        /\ Lost(r) => born[r] < restarts /\ Unclaimed(r) /\ Awaited(r)

(* What a step owes a run it does not crash under. *)
Tended(x) ==
    Lost(x)' => /\ Lost(x) /\ (Unclaimed(x) => Unclaimed(x)')
                /\ (Awaited(x) => Awaited(x)')

LEMMA TendedKeeps ==
    ASSUME Attended, born' = born, restarts' = restarts,
           \A x \in Runs : Tended(x)
    PROVE  Attended'
    BY DEF Attended, Tended

LEMMA StillLost ==
    ASSUME SameExecutors, NEW x \in Runs,
           row'[x] = "running" => row[x] = "running", Lost(x)'
    PROVE  Lost(x)
    BY DEF SameExecutors, Lost, Unexecuted, Executes

(* A call that is past its checks of a run acts; nobody else moves.        *)
LEMMA OthersClaim ==
    ASSUME IInv, NEW a \in Calls, at[a] \notin Harmless, of' = of,
           \A b \in Calls \ {a} : at'[b] = at[b],
           \A x \in Runs : registry'[x] \in {registry[x], NULL}
    PROVE  \A x \in Runs : Unclaimed(x) => Unclaimed(x)'
<1> SUFFICES ASSUME NEW x \in Runs, Unclaimed(x) PROVE Unclaimed(x)'
  OBVIOUS
<1>1. registry'[x] = NULL
  BY DEF Unclaimed
<1>2. ASSUME NEW c \in Resumes, of'[c] = x PROVE at'[c] \in Harmless
  BY <1>2, CallsFacts DEF Unclaimed
<1> QED
  BY <1>1, <1>2 DEF Unclaimed

LEMMA StartAttends ==
    ASSUME ~StoreFaults, IInv, Attended, NEW r \in Runs, StartStep(r)
    PROVE  Attended'
<1>1. CASE Start(r)
  <2>1. /\ UNCHANGED <<row, of, boot, born, restarts>>
        /\ at' = [at EXCEPT ![r] = "registered"]
        /\ registry' = [registry EXCEPT ![r] = r]
        /\ at[r] = "idle" /\ row[r] = "none"
    BY <1>1 DEF Start, Register, rowVars, IInv, Starts
  <2>2. SameExecutors
    BY <2>1, CallsFacts DEF SameExecutors, Owning, IInv, TypeOK
  <2>3. ASSUME NEW x \in Runs PROVE Tended(x)
    BY <2>1, <2>2, <2>3, CallsFacts, StillLost
      DEF Tended, Lost, Unclaimed, Awaited, IInv, TypeOK
  <2> QED
    BY <2>1, <2>3, TendedKeeps
<1>2. CASE FailEarly(r)
  <2>1. /\ UNCHANGED <<row, of, registry, boot, born, restarts>>
        /\ at' = [at EXCEPT ![r] = "settling"] /\ at[r] = "started"
    BY <1>2 DEF FailEarly, Settling, Elsewhere, rowVars, liveVars
  <2>2. SameExecutors
    BY <2>1, CallsFacts DEF SameExecutors, Owning, IInv, TypeOK
  <2>3. ASSUME NEW x \in Runs PROVE Tended(x)
    BY <2>1, <2>2, <2>3, CallsFacts, StillLost
      DEF Tended, Unclaimed, Awaited, IInv, TypeOK
  <2> QED
    BY <2>1, <2>3, TendedKeeps
<1>3. ASSUME NEW b \in BOOLEAN, InsertRow(r, b) PROVE Attended'
  <2>1. /\ UNCHANGED <<of, registry, boot, restarts>> /\ b
        /\ at' = [at EXCEPT ![r] = "started"] /\ of[r] = r /\ r \in Calls
        /\ born' = [born EXCEPT ![r] = restarts]
    BY <1>3, CallsFacts
      DEF InsertRow, Become, liveVars, IInv, Starts
  <2>2. \A x \in Runs \ {r} : row'[x] = "running" => row[x] = "running"
    <3> DEFINE inserted == [row EXCEPT ![r] = "running"]
    <3>1. inserted \in [Runs -> Live \cup Terminal \cup {"none", "pruned"}]
      BY DEF IInv, TypeOK, Live
    <3>2. row' = Pruned(inserted, started') \/ row' = inserted
      BY <1>3, <2>1 DEF InsertRow
    <3>3. \A x \in Runs \ {r} : inserted[x] = row[x]
      BY DEF IInv, TypeOK
    <3> HIDE DEF inserted
    <3> QED
      BY <3>1, <3>2, <3>3, PrunedFacts
  <2>3. Executes(r, r)'
    BY <2>1 DEF Executes, Owning, IInv, TypeOK
  <2>4. \A x \in Runs \ {r} : born'[x] = born[x] /\ (Unexecuted(x)' => Unexecuted(x))
    BY <2>1 DEF Unexecuted, Executes, IInv, TypeOK
  <2>5. \A x \in Runs \ {r} : Unclaimed(x) => Unclaimed(x)'
    BY <2>1, CallsFacts DEF Unclaimed, IInv, TypeOK
  <2>6. restarts' = restarts /\ restarts \in Nat /\ born'[r] = restarts
    BY <2>1, BoundsAssumption DEF IInv, TypeOK
  <2>7. ASSUME NEW x \in Runs
        PROVE  /\ born'[x] <= restarts'
               /\ Lost(x)' => /\ born'[x] < restarts'
                              /\ Unclaimed(x)' /\ Awaited(x)'
    <3>1. CASE x = r
      BY <2>1, <2>3, <2>6, <3>1 DEF Lost, Unexecuted
    <3>2. CASE x # r
      BY <2>1, <2>2, <2>4, <2>5, <2>6, <3>2 DEF Attended, Lost, Awaited
    <3> QED
      BY <3>1, <3>2
  <2> QED
    BY <2>7 DEF Attended
<1> QED
  BY <1>1, <1>2, <1>3 DEF StartStep

LEMMA BodyAttends ==
    ASSUME ~StoreFaults, IInv, Attended, NEW a \in Calls, BodyStep(a)
    PROVE  Attended'
<1>1. /\ at[a] \notin Harmless /\ of' = of
      /\ \A b \in Calls \ {a} : at'[b] = at[b]
      /\ UNCHANGED <<boot, born, restarts>>
  <2>1. CASE BeginEngine(a) \/ EnginePauses(a) \/ EngineEnds(a)
    BY <2>1 DEF BeginEngine, EnginePauses, EngineEnds, Settling, Elsewhere,
      rowVars, Harmless, IInv, TypeOK
  <2>2. CASE SeeCancel(a) \/ DropFuture(a) \/ DropCancelled(a) \/ Leave(a)
    BY <2>2 DEF SeeCancel, DropFuture, DropCancelled, Leave, Settling, End,
      Elsewhere, rowVars, Harmless, IInv, TypeOK
  <2>3. ASSUME NEW b \in BOOLEAN, WriteEnd(a, b)
        PROVE  /\ at[a] \notin Harmless /\ of' = of
               /\ \A c \in Calls \ {a} : at'[c] = at[c]
               /\ UNCHANGED <<boot, born, restarts>>
    BY <2>3 DEF WriteEnd, FinishRow, SettleRow, Become, Harmless, IInv, TypeOK
  <2> QED
    BY <2>1, <2>2, <2>3 DEF BodyStep
<1>2. \A x \in Runs : registry'[x] \in {registry[x], NULL}
  BY DEF BodyStep, BeginEngine, EnginePauses, EngineEnds, SeeCancel, DropFuture,
    DropCancelled, Leave, WriteEnd, Deregister, Elsewhere, liveVars, IInv,
    TypeOK
<1>3. \A x \in Runs : Lost(x)' => Lost(x)
  <2>1. CASE \E status \in Ends : at[a] \in Owning
               /\ Settling(a, status) /\ row' = row
    <3>1. SameExecutors
      BY <2>1 DEF SameExecutors, Settling, Owning, IInv, TypeOK
    <3> QED
      BY <2>1, <3>1, StillLost
  <2>2. CASE BeginEngine(a)
    <3>1. SameExecutors /\ row' = row
      BY <2>2 DEF SameExecutors, BeginEngine, Settling, Elsewhere, rowVars,
        Owning, IInv, TypeOK
    <3> QED
      BY <3>1, StillLost
  <2>3. CASE DropCancelled(a) \/ Leave(a)
    <3>1. SameExecutors /\ row' = row
      BY <2>3 DEF SameExecutors, DropCancelled, Leave, End, rowVars, Owning,
        IInv, TypeOK
    <3> QED
      BY <3>1, StillLost
  <2>4. CASE EnginePauses(a) \/ EngineEnds(a) \/ SeeCancel(a) \/ DropFuture(a)
    <3>1. {"failed", "completed", "cancelled", "interrupted",
           "pending_approval"} \subseteq Ends
      BY DEF Ends, Terminal
    <3> QED
      BY <2>1, <2>4, <3>1 DEF EnginePauses, EngineEnds, SeeCancel, DropFuture,
        Elsewhere, rowVars, Owning
  <2>5. ASSUME NEW b \in BOOLEAN, WriteEnd(a, b)
        PROVE  \A x \in Runs : Lost(x)' => Lost(x)
    <3>1. /\ of[a] \in Runs /\ at[a] = "settling" /\ ends[a] \in Ends
          /\ at' = [at EXCEPT ![a] = "leaving"] /\ of' = of
      BY <2>5, Target DEF IInv, WriteEnd, Become, Endings, TypeOK
    <3>2. /\ row'[of[a]] # "running"
          /\ \A x \in Runs \ {of[a]} : row'[x] = row[x]
      BY <2>5, <3>1 DEF WriteEnd, SettleRow, FinishRow, IInv, TypeOK, Ends,
        Terminal, Live
    <3>3. \A x \in Runs \ {of[a]}, b1 \in Calls :
            Executes(b1, x)' <=> Executes(b1, x)
      BY <3>1 DEF Executes, Owning, IInv, TypeOK
    <3> QED
      BY <3>2, <3>3 DEF Lost, Unexecuted
  <2> QED
    BY <2>2, <2>3, <2>4, <2>5 DEF BodyStep
<1>4. \A x \in Runs : Unclaimed(x) => Unclaimed(x)'
  BY <1>1, <1>2, OthersClaim
<1>5. \A x \in Runs : Tended(x)
  BY <1>1, <1>3, <1>4 DEF Tended, Awaited
<1> QED
  BY <1>1, <1>5, TendedKeeps
LEMMA ResumeAttends ==
    ASSUME ~StoreFaults, IInv, Attended, NEW c \in Resumes, ResumeStep(c)
    PROVE  Attended'
<1>0. c \in Calls /\ c \notin Runs
  BY CallsFacts
<1>1. ASSUME NEW r \in Runs, LoadFlow(c, r) PROVE Attended'
  <2>1. /\ UNCHANGED <<row, registry, boot, born, restarts>>
        /\ at' = [at EXCEPT ![c] = "loaded"] /\ at[c] = "idle"
        /\ of' = [of EXCEPT ![c] = r]
    BY <1>1 DEF LoadFlow, Elsewhere, rowVars, liveVars
  <2>2. SameExecutors
    BY <1>0, <2>1 DEF SameExecutors, Owning, IInv, TypeOK
  <2>3. ASSUME NEW x \in Runs, Unclaimed(x) PROVE Unclaimed(x)'
    BY <1>0, <2>1, <2>3 DEF Unclaimed, Harmless, Calls, IInv, TypeOK
  <2> QED
    BY <2>1, <2>2, <2>3, StillLost, TendedKeeps DEF Tended, Awaited
<1>2. CASE CheckRow(c)
  <2>1. /\ UNCHANGED <<row, registry, boot, born, restarts, of>>
        /\ at[c] = "loaded"
        /\ \/ at' = [at EXCEPT ![c] = "done"]
           \/ /\ row[of[c]] = "pending_approval"
              /\ at' = [at EXCEPT ![c] = "checked"]
           \/ /\ row[of[c]] = "pending_approval"
              /\ at' = [at EXCEPT ![c] = "refusing"]
    BY <1>2 DEF CheckRow, End, Become, Elsewhere, rowVars, liveVars
  <2>2. SameExecutors
    BY <1>0, <2>1 DEF SameExecutors, Owning, IInv, TypeOK
  <2>3. ASSUME NEW x \in Runs, Unclaimed(x), row[x] = "running"
        PROVE  Unclaimed(x)'
    BY <1>0, <2>1, <2>3 DEF Unclaimed, Harmless, Calls, IInv, TypeOK
  <2> QED
    BY <2>1, <2>2, <2>3, StillLost, TendedKeeps DEF Tended, Awaited, Lost
<1>3. CASE at[c] \notin Harmless
  <2>1. /\ of' = of /\ \A b \in Calls \ {c} : at'[b] = at[b]
        /\ UNCHANGED <<boot, born, restarts>>
    <3>1. CASE DropRefused(c) \/ GiveUp(c) \/ RegisterResume(c)
      BY <3>1 DEF DropRefused, GiveUp, RegisterResume, End, Become, Elsewhere,
        rowVars, IInv, TypeOK
    <3>2. ASSUME NEW b \in BOOLEAN,
                 RefuseStale(c, b) \/ RefuseIncompatible(c, b) \/ Claim(c, b)
          PROVE  /\ of' = of /\ \A x \in Calls \ {c} : at'[x] = at[x]
                 /\ UNCHANGED <<boot, born, restarts>>
      BY <3>2 DEF RefuseStale, RefuseIncompatible, Claim, SettleRow, FinishRow,
        End, Become, IInv, TypeOK
    <3> QED
      BY <1>3, <3>1, <3>2 DEF ResumeStep, LoadFlow, CheckRow, Harmless
  <2>2. \A x \in Runs : Unclaimed(x) => x # of[c]
    BY <1>3 DEF Unclaimed
  <2>3. \A x \in Runs \ {of[c]} : registry'[x] = registry[x]
    BY <1>3 DEF ResumeStep, LoadFlow, CheckRow, Harmless, DropRefused, GiveUp,
      RegisterResume, RefuseStale, RefuseIncompatible, Claim, Register,
      Elsewhere, liveVars, IInv, TypeOK
  <2>4. \A x \in Runs : Unclaimed(x) => Unclaimed(x)'
    BY <2>1, <2>2, <2>3, CallsFacts DEF Unclaimed
  <2>5. \A x \in Runs : Lost(x)' => Lost(x)
    <3>1. CASE DropRefused(c) \/ GiveUp(c) \/ RegisterResume(c)
      <4>1. SameExecutors /\ row' = row
        BY <1>0, <3>1 DEF SameExecutors, DropRefused, GiveUp, RegisterResume,
          End, Become, Elsewhere, rowVars, Owning, IInv, TypeOK
      <4> QED
        BY <4>1, StillLost
    <3>2. ASSUME NEW b \in BOOLEAN,
                 RefuseStale(c, b) \/ RefuseIncompatible(c, b)
          PROVE  \A x \in Runs : Lost(x)' => Lost(x)
      <4>1. SameExecutors
        BY <1>0, <3>2 DEF SameExecutors, RefuseStale, RefuseIncompatible, End,
          Become, Owning, IInv, TypeOK
      <4>2. \A x \in Runs : row'[x] = "running" => row[x] = "running"
        BY <3>2 DEF RefuseStale, RefuseIncompatible, SettleRow, FinishRow,
          IInv, TypeOK
      <4> QED
        BY <4>1, <4>2, StillLost
    <3>3. ASSUME NEW b \in BOOLEAN, Claim(c, b)
          PROVE  \A x \in Runs : Lost(x)' => Lost(x)
      <4>1. CASE b
        <5>1. /\ at' = [at EXCEPT ![c] = "started"] /\ of' = of
              /\ \A x \in Runs \ {of[c]} : row'[x] = row[x]
          BY <3>3, <4>1 DEF Claim, Become, IInv, TypeOK
        <5>2. ~Unexecuted(of[c])'
          BY <1>0, <5>1 DEF Unexecuted, Executes, Owning, IInv, TypeOK
        <5>3. \A x \in Runs : Unexecuted(x)' => Unexecuted(x)
          BY <3>3, <5>1 DEF Unexecuted, Executes, Owning, IInv, TypeOK, Claim
        <5> QED
          BY <5>1, <5>2, <5>3 DEF Lost
      <4>2. CASE ~b
        <5>1. SameExecutors /\ row' = row
          BY <1>0, <3>3, <4>2 DEF SameExecutors, Claim, Become, Owning, IInv,
            TypeOK
        <5> QED
          BY <5>1, StillLost
      <4> QED
        BY <4>1, <4>2
    <3> QED
      BY <1>3, <3>1, <3>2, <3>3 DEF ResumeStep, LoadFlow, CheckRow, Harmless
  <2> QED
    BY <2>1, <2>4, <2>5, TendedKeeps DEF Tended, Awaited
<1>4. CASE at[c] \in Harmless
  BY <1>1, <1>2, <1>4 DEF ResumeStep, Harmless, DropRefused, GiveUp,
    RegisterResume, RefuseStale, RefuseIncompatible, Claim
<1> QED
  BY <1>3, <1>4

(* Nothing but rows, and never to running.                                 *)
LEMMA RowsAttend ==
    ASSUME Attended, SameExecutors, registry' = registry, boot' = boot,
           born' = born, restarts' = restarts, at' = at, of' = of,
           \A x \in Runs : row'[x] = "running" => row[x] = "running"
    PROVE  Attended'
<1>1. \A x \in Runs : Tended(x)
  BY StillLost DEF Tended, Unclaimed, Awaited
<1> QED
  BY <1>1, TendedKeeps

LEMMA OthersAttend ==
    ASSUME IInv, Attended,
           \/ \E k \in Cancels : CancelStep(k)
           \/ \E r \in Runs : SweepStep(r)
           \/ PruneRuns \/ EditFlow \/ UNCHANGED vars
    PROVE  Attended'
<1>1. UNCHANGED <<at, of, registry, boot, born, restarts>>
  BY DEF CancelStep, ReadStatus, Signal, SettleCancel, DropByCancel,
    CancelUnchanged, SettleRow, FinishRow, SweepStep, Expire, Announce,
    DropSwept, AbandonSweep, PruneRuns, EditFlow, vars, rowVars, liveVars,
    callVars
<1>2. \A x \in Runs : row'[x] = "running" => row[x] = "running"
  <2>1. ASSUME NEW k \in Cancels, CancelStep(k)
        PROVE  \A x \in Runs : row'[x] = "running" => row[x] = "running"
    BY <2>1 DEF CancelStep, ReadStatus, Signal, SettleCancel, DropByCancel,
      SettleRow, FinishRow, rowVars, IInv, TypeOK
  <2>2. ASSUME NEW r \in Runs, SweepStep(r)
        PROVE  \A x \in Runs : row'[x] = "running" => row[x] = "running"
    BY <2>2 DEF SweepStep, Expire, Announce, DropSwept, AbandonSweep, rowVars,
      IInv, TypeOK
  <2>3. CASE PruneRuns
    BY <2>3, PrunedFacts DEF PruneRuns, IInv, TypeOK
  <2>4. CASE EditFlow \/ UNCHANGED vars
    BY <2>4 DEF EditFlow, vars, rowVars
  <2> QED
    BY <2>1, <2>2, <2>3, <2>4
<1>3. SameExecutors
  BY <1>1 DEF SameExecutors
<1> QED
  BY <1>1, <1>2, <1>3, RowsAttend

(* The sweep at boot lists a lost run, finds it in no registry, and        *)
(* settles it.                                                             *)
LEMMA BootAttends ==
    ASSUME ~StoreFaults, IInv, Attended, BootStep
    PROVE  Attended'
<1>1. UNCHANGED <<at, of, registry, born, restarts>>
  BY DEF BootStep, ListOrphans, ExamineOrphan, MarkInterrupted, BootUnchanged,
    rowVars, liveVars, callVars
<1>2. \A x \in Runs : row'[x] = "running" => row[x] = "running"
  BY DEF BootStep, ListOrphans, ExamineOrphan, MarkInterrupted, rowVars, IInv,
    TypeOK
<1>3. \A x \in Runs : Lost(x)' => Lost(x)
  BY <1>1, <1>2, StillLost DEF SameExecutors
<1>4. ASSUME NEW x \in Runs, Lost(x)' PROVE Awaited(x)'
  <2>1. /\ row[x] = "running" /\ born[x] < restarts
        /\ registry[x] = NULL /\ Awaited(x)
    BY <1>3, <1>4 DEF Attended, Lost, Unclaimed
  <2>2. CASE ListOrphans
    BY <2>1, <2>2 DEF ListOrphans, Orphans, Awaited, IInv, TypeOK
  <2>3. ASSUME NEW r \in Runs, ExamineOrphan(r) PROVE Awaited(x)'
    BY <2>1, <2>3, CallsFacts DEF ExamineOrphan, Awaited, IInv, TypeOK
  <2>4. ASSUME NEW b \in BOOLEAN, MarkInterrupted(b) PROVE Awaited(x)'
    <3>1. boot.orphan # x
      <4>1. boot.orphan = x => row'[x] # "running"
        BY <2>1, <2>4 DEF MarkInterrupted, IInv, TypeOK
      <4> QED
        BY <1>4, <4>1 DEF Lost
    <3> QED
      BY <2>1, <2>4, <3>1 DEF MarkInterrupted, Awaited, IInv, TypeOK
  <2> QED
    BY <2>2, <2>3, <2>4 DEF BootStep
<1>5. \A x \in Runs : Unclaimed(x) => Unclaimed(x)'
  BY <1>1 DEF Unclaimed
<1> QED
  BY <1>1, <1>3, <1>4, <1>5, TendedKeeps DEF Tended

LEMMA CrashAttends ==
    ASSUME IInv, Attended, Crash
    PROVE  Attended'
<1>1. \A x \in Runs : born'[x] <= restarts /\ born'[x] \in Nat
  BY BoundsAssumption DEF Attended, Crash, rowVars, IInv, TypeOK
<1>2. restarts' = restarts + 1 /\ restarts \in Nat
  BY BoundsAssumption DEF Crash, IInv, TypeOK
<1>3. \A x \in Runs : Unclaimed(x)' /\ Awaited(x)'
  BY CallsFacts DEF Crash, Unclaimed, Awaited, Harmless, Unlisted
<1> QED
  BY <1>1, <1>2, <1>3 DEF Attended

LEMMA NextAttends ==
    ASSUME ~StoreFaults, IInv, Attended, [Next]_vars
    PROVE  Attended'
    BY StartAttends, BodyAttends, ResumeAttends, OthersAttend, BootAttends,
      CrashAttends DEF Next, Rest

(* With a store that works no run is left running for nobody, however runs,*)
(* resumes, cancels, sweeps and crashes interleave: the sweep at boot never*)
(* passes over one, although it runs beside new starts and resumes.        *)
THEOREM RunsAttended == ASSUME ~StoreFaults PROVE Spec => []RunningIsAttended
<1>1. Init => Attended
  <2> SUFFICES ASSUME Init PROVE Attended
    OBVIOUS
  <2> QED
    BY DEF Init, Attended, Lost
<1>2. IInv /\ Attended /\ [Next]_vars => Attended'
  BY NextAttends
<1>3. Attended => RunningIsAttended
  BY DEF Attended, Lost, Unexecuted, Awaited, RunningIsAttended
<1> QED
  BY <1>1, <1>2, <1>3, Invariance, PTL DEF Spec
===============================================================================
