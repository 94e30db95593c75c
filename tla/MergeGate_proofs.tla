--------------------------- MODULE MergeGate_proofs ---------------------------
(***************************************************************************)
(* Proofs about MergeGate for every set of tasks, every dependency graph   *)
(* and any number of overlapping handlers, conflicts and merge errors.     *)
(*                                                                         *)
(* The argument for the gate: work that is recorded as completed is on the *)
(* integration branch, or something still says that it is not: its handler *)
(* or its coordinator's is in the middle of its steps, pending_merges has  *)
(* the task, or the coordinator has not ended well.  A handler that is     *)
(* alone sees all of these but the first, and the first is itself; among   *)
(* several, it is the window that the gate misses.                         *)
(*                                                                         *)
(* And for what is never forgotten: a dependent that waits has somebody    *)
(* still to look at it, a ready task is in the newlyReady of a handler     *)
(* with a slot for it, and an active graph has work to do or a handler     *)
(* that has yet to read the tasks, or has read that they all ended.        *)
(***************************************************************************)
EXTENDS MergeGate, FiniteSetTheorems, TLAPS

LEMMA CoordinatorsAreApart ==
    /\ Tasks \subseteq Ids
    /\ \A t \in Tasks : Coordinator(t) \in Ids /\ Coordinator(t) \notin Tasks
    /\ \A t, u \in Tasks : Coordinator(t) = Coordinator(u) => t = u
    /\ \A i \in Ids : i \in Tasks \/ \E t \in Tasks : i = Coordinator(t)
  <1>1. \A t, u \in Tasks : Coordinator(t) = Coordinator(u) => t = u
    BY DEF Coordinator
  <1>. QED
    BY <1>1, IdsAssumption DEF Ids

LEMMA IdsAreFinite == IsFiniteSet(Ids)
  <1>1. IsFiniteSet({Coordinator(t) : t \in Tasks})
    <2> DEFINE C == {Coordinator(t) : t \in Tasks}
               f == [t \in Tasks |-> Coordinator(t)]
    <2>1. f \in Surjection(Tasks, C)
      BY DEF Surjection
    <2>. QED
      BY <2>1, IdsAssumption, FS_Surjection
  <1>. QED
    BY <1>1, IdsAssumption, FS_Union DEF Ids

-----------------------------------------------------------------------------
(* The inductive invariant *)

\* Until the handler of t has added it there is no coordinator of t.
BeforeCoordinator ==
    {"idle", "record", "announce", "merge", "merged", "conflicted", "coordinate"}

\* Where a handler is says what has been done, however handlers overlap.
Places ==
    /\ \A i \in Ids : pc[i] # "idle" => status[i] \in {"completed", "failed"}
    /\ \A t \in Tasks :
          /\ status[t] \notin {"absent", "failed"}
          /\ status[t] = "completed" => t \in completed \/ pc[t] = "record"
          /\ pc[t] \in BeforeCoordinator => status[Coordinator(t)] = "absent"
          /\ pc[t] = "merge" => t \in pendingMerges
          /\ pc[t] = "merged" => t \in integrated
          /\ pc[Coordinator(t)] = "resolved" => t \in integrated

\* Something says that the work of t is not on the integration branch yet.
Held(t) ==
    \/ pc[t] \in {"announce", "merge", "conflicted", "coordinate"}
    \/ t \in pendingMerges
    \/ status[Coordinator(t)] \in {"ready", "running", "failed"}
    \/ pc[Coordinator(t)] \in {"record", "resolve", "unresolved"}

\* A handler that has found every task ended, or has promoted the graph.
Ending ==
    \/ graph # "active"
    \/ \E i \in Ids : \/ pc[i] = "promote"
                      \/ pc[i] \in {"dispatch", "check"} /\ cached[i].terminal

\* One handler runs at a time.
OneAtATime == \A i, k \in InFlight : i = k

\* A handler that ends the graph is right about its tasks.
EndsRightly ==
    /\ Ending => /\ Terminal(status)
                 /\ \A i \in InFlight : pc[i] \in {"dispatch", "check", "promote"}
    /\ \A i \in Ids : pc[i] = "promote" => pendingMerges = {}

\* What is readied has its dependencies' work in place, what is completed its own.
InPlace ==
    /\ \A t \in Tasks : status[t] \in {"ready", "running"} => Deps[t] \subseteq integrated
    /\ \A t \in completed : t \in integrated \/ Held(t)

AloneInv == limit = 1 => OneAtATime /\ EndsRightly /\ InPlace

\* What the gate stands on, however handlers overlap: a conflicted task is pending until
\* its handler goes on to the coordinator, completed work is in place or held while the
\* graph is active, and no task is left to start once a handler is ending the graph.
GateInv ==
    /\ \A t \in Tasks : pc[t] = "conflicted" => t \in pendingMerges
    /\ graph = "active" => \A t \in completed : t \in integrated \/ Held(t)
    /\ Ending => \A t \in Tasks : status[t] = "completed"

\* Without a maxConcurrency a Job is made when a task leaves ready, and a ready task is
\* in one newlyReady at most.
JobsInv ==
    maxConcurrency = 0 =>
      /\ \A i \in Ids : /\ jobs[i] <= 1
                        /\ status[i] \in {"absent", "pending", "ready"} => jobs[i] = 0
      /\ \A i, k \in Ids : \A t \in newlyReady[i] :
            status[t] = "ready" /\ (t \in newlyReady[k] => i = k)

\* The handler that has claimed the resolution is the one that promotes.
PromotionInv ==
    /\ Len(promoted) <= 1
    /\ ~resolution => Len(promoted) = 0 /\ \A i \in Ids : pc[i] # "promote"
    /\ \A i, k \in Ids : pc[i] = "promote" => Len(promoted) = 0 /\ (pc[k] = "promote" => i = k)

MInv ==
    TypeOK /\ Places /\ AloneInv /\ JobsInv /\ PromotionInv /\ PromotesEverythingAlone

-----------------------------------------------------------------------------
(* Types *)

LEMMA SlotsType ==
    ASSUME TypeOK
    PROVE  FreeSlots \in Nat
  <1> DEFINE R == {i \in Ids : status[i] = "running"}
  <1>1. Cardinality(R) \in Nat
    BY IdsAreFinite, FS_Subset, FS_CardinalityType
  <1>2. Cardinality(Ids) \in Nat
    BY IdsAreFinite, FS_CardinalityType
  <1>3. maxConcurrency \in Nat
    BY GateAssumption DEF TypeOK
  <1>. QED
    BY <1>1, <1>2, <1>3 DEF FreeSlots

LEMMA ScannedType ==
    /\ \A i \in Ids : Scanned(i) \in SUBSET Tasks
    /\ \A t \in Tasks : Dependents(t) \in SUBSET Tasks
  BY DEF Scanned, Dependents

LEMMA CompletionTypes ==
    ASSUME NEW t \in Tasks, TypeOK, CompletionStep(t)
    PROVE  TypeOK'
  <1> USE CoordinatorsAreApart DEF Steps, At, Goto, redisVars, gitVars, settings
  <1>1. ASSUME NEW i \in Ids, Record(i) PROVE TypeOK'
    BY <1>1 DEF Record, TypeOK
  <1>2. CASE Announce(t)
    BY <1>2 DEF Announce, TypeOK
  <1>3. CASE MergeBranch(t)
    <2>1. todo' \in [Ids -> SUBSET Tasks]
      <3>1. todo' = todo \/ todo' = [todo EXCEPT ![t] = Dependents(t)]
        BY <1>3 DEF MergeBranch, TypeOK
      <3>2. Dependents(t) \in SUBSET Tasks /\ todo \in [Ids -> SUBSET Tasks]
        BY ScannedType DEF TypeOK
      <3>. QED
        BY <3>1, <3>2
    <2>2. conflictBase' \in [Tasks -> SUBSET Tasks] /\ conflicts' \in Nat
      <3>1. /\ conflictBase' = conflictBase \/ conflictBase' = [conflictBase EXCEPT ![t] = integrated]
            /\ conflicts' = conflicts \/ conflicts' = conflicts + 1
        BY <1>3 DEF MergeBranch, TypeOK
      <3>2. /\ integrated \in SUBSET Tasks
            /\ conflictBase \in [Tasks -> SUBSET Tasks]
            /\ conflicts \in Nat
        BY DEF TypeOK
      <3>. QED
        BY <3>1, <3>2
    <2>3. integrated' \subseteq Tasks /\ pc' \in [Ids -> Steps]
      <3>1. /\ integrated' = integrated \/ integrated' = integrated \cup {t}
            /\ \E step \in Steps : pc' = [pc EXCEPT ![t] = step]
        BY <1>3 DEF MergeBranch
      <3>2. integrated \subseteq Tasks /\ pc \in [Ids -> Steps]
        BY DEF TypeOK
      <3>. QED
        BY <3>1, <3>2
    <2>4. UNCHANGED <<graph, status, completed, pendingMerges, locks, resolution, promoted, jobs,
                      limit, maxConcurrency, newlyReady, cached>>
      BY <1>3 DEF MergeBranch
    <2>. QED
      BY <2>1, <2>2, <2>3, <2>4 DEF TypeOK
  <1>4. CASE ClearPending(t)
    <2>1. todo' \in [Ids -> SUBSET Tasks]
      <3>1. todo' = todo \/ todo' = [todo EXCEPT ![t] = Dependents(t)]
        BY <1>4 DEF ClearPending, TypeOK
      <3>2. Dependents(t) \in SUBSET Tasks /\ todo \in [Ids -> SUBSET Tasks]
        BY ScannedType DEF TypeOK
      <3>. QED
        BY <3>1, <3>2
    <2>2. pc' \in [Ids -> Steps]
      BY <1>4 DEF ClearPending, TypeOK
    <2>3. /\ pendingMerges' \subseteq pendingMerges
          /\ UNCHANGED <<graph, status, completed, locks, resolution, integrated, conflictBase,
                         conflicts, promoted, jobs, limit, maxConcurrency, newlyReady, cached>>
      BY <1>4 DEF ClearPending
    <2>. QED
      BY <2>1, <2>2, <2>3 DEF TypeOK
  <1>5. CASE AddCoordinator(t)
    <2>1. status' \in [Ids -> {"absent", "pending", "ready", "running", "completed", "failed"}]
      BY <1>5 DEF AddCoordinator, TypeOK
    <2>2. jobs' \in [Ids -> Nat]
      BY <1>5 DEF AddCoordinator, TypeOK
    <2>3. todo' \in [Ids -> SUBSET Tasks]
      BY <1>5, ScannedType DEF AddCoordinator, TypeOK
    <2>. QED
      BY <1>5, <2>1, <2>2, <2>3 DEF AddCoordinator, TypeOK
  <1>6. CASE ResolveConflict(t)
    BY <1>6 DEF ResolveConflict, TypeOK
  <1>7. CASE AfterResolution(t)
    <2>1. todo' \in [Ids -> SUBSET Tasks]
      <3> DEFINE c == Coordinator(t)
      <3>1. todo' = todo \/ todo' = [todo EXCEPT ![c] = Scanned(c)]
        BY <1>7 DEF AfterResolution, TypeOK
      <3>2. Scanned(c) \in SUBSET Tasks /\ todo \in [Ids -> SUBSET Tasks]
        BY ScannedType DEF TypeOK
      <3>. QED
        BY <3>1, <3>2
    <2>2. pc' \in [Ids -> Steps] /\ pendingMerges' \subseteq Tasks
      BY <1>7 DEF AfterResolution, TypeOK
    <2>. QED
      BY <1>7, <2>1, <2>2 DEF AfterResolution, TypeOK
  <1>. QED
    BY <1>1, <1>2, <1>3, <1>4, <1>5, <1>6, <1>7 DEF CompletionStep

LEMMA DispatchTypes ==
    ASSUME NEW id \in Ids, TypeOK, DispatchStep(id)
    PROVE  TypeOK'
  <1> USE CoordinatorsAreApart DEF Steps, At, Goto, redisVars, gitVars, settings
  <1>1. CASE Snapshot(id)
    <2>1. FreeSlots \in Nat /\ Terminal(status) \in BOOLEAN
      BY SlotsType DEF Terminal, TypeOK
    <2>2. cached' \in [Ids -> [terminal : BOOLEAN, slots : Nat]]
      BY <1>1, <2>1 DEF Snapshot, TypeOK
    <2>3. newlyReady' \in [Ids -> SUBSET Ids]
      BY <1>1 DEF Snapshot, TypeOK
    <2>. QED
      BY <1>1, <2>2, <2>3 DEF Snapshot, TypeOK
  <1>2. CASE EndDispatch(id)
    BY <1>2 DEF EndDispatch, TypeOK
  <1>3. CASE Check(id)
    BY <1>3 DEF Check, TypeOK
  <1>4. CASE Promote(id)
    <2>1. promoted' \in Seq(SUBSET Tasks)
      <3>1. promoted \in Seq(SUBSET Tasks) /\ integrated \in SUBSET Tasks
        BY DEF TypeOK
      <3>2. Append(promoted, integrated) \in Seq(SUBSET Tasks)
        BY <3>1
      <3>. QED
        BY <1>4, <3>1, <3>2 DEF Promote, TypeOK
    <2>. QED
      BY <1>4, <2>1 DEF Promote, TypeOK
  <1>5. ASSUME NEW d \in Tasks, ReadyDependent(id, d) \/ PassOver(id, d) PROVE TypeOK'
    <2>1. todo' = [todo EXCEPT ![id] = todo[id] \ {d}]
      BY <1>5 DEF ReadyDependent, PassOver, TypeOK
    <2>2. newlyReady' = newlyReady \/ newlyReady' = [newlyReady EXCEPT ![id] = newlyReady[id] \cup {d}]
      BY <1>5 DEF ReadyDependent, PassOver, TypeOK
    <2>3. todo \in [Ids -> SUBSET Tasks] /\ newlyReady \in [Ids -> SUBSET Ids]
      BY DEF TypeOK
    <2>4. todo' \in [Ids -> SUBSET Tasks]
      BY <2>1, <2>3
    <2>5. newlyReady' \in [Ids -> SUBSET Ids]
      BY <2>2, <2>3
    <2>6. status' \in [Ids -> {"absent", "pending", "ready", "running", "completed", "failed"}]
      <3>1. status' = status \/ status' = [status EXCEPT ![d] = "ready"]
        BY <1>5 DEF ReadyDependent, PassOver
      <3>. QED
        BY <3>1 DEF TypeOK
    <2>7. locks' \subseteq Tasks
      BY <1>5 DEF ReadyDependent, PassOver, TypeOK
    <2>. QED
      BY <1>5, <2>4, <2>5, <2>6, <2>7 DEF ReadyDependent, PassOver, TypeOK
  <1>6. ASSUME NEW t \in Ids, Dispatch(id, t) PROVE TypeOK'
    <2>1. cached' \in [Ids -> [terminal : BOOLEAN, slots : Nat]]
      <3>1. cached[id].slots \in Nat /\ cached[id].slots > 0
        BY <1>6 DEF Dispatch, TypeOK
      <3>2. cached[id].slots - 1 \in Nat
        BY <3>1
      <3>. QED
        BY <1>6, <3>2 DEF Dispatch, TypeOK
    <2>. QED
      BY <1>6, <2>1 DEF Dispatch, TypeOK
  <1>. QED
    BY <1>1, <1>2, <1>3, <1>4, <1>5, <1>6 DEF DispatchStep

LEMMA StepTypes == TypeOK /\ [Next]_vars => TypeOK'
  <1> SUFFICES ASSUME TypeOK, [Next]_vars PROVE TypeOK'
    OBVIOUS
  <1>1. ASSUME NEW t \in Tasks, CoordinatorFails(t) PROVE TypeOK'
    BY <1>1, CoordinatorsAreApart DEF CoordinatorFails, TypeOK, Steps, At, Goto, gitVars, settings
  <1>2. ASSUME NEW i \in Ids, WorkerCompletes(i) PROVE TypeOK'
    BY <1>2 DEF WorkerCompletes, TypeOK, Steps, At, Goto, gitVars, settings
  <1>3. CASE UNCHANGED vars
    BY <1>3 DEF vars, redisVars, gitVars, settings, handlerVars, TypeOK
  <1>. QED
    BY <1>1, <1>2, <1>3, CompletionTypes, DispatchTypes DEF Next

-----------------------------------------------------------------------------
(* Places *)

LEMMA InitInv == Init => MInv
  <1> SUFFICES ASSUME Init PROVE MInv
    OBVIOUS
  <1>1. TypeOK
    <2>1. promoted \in Seq(SUBSET Tasks)
      BY DEF Init
    <2>2. /\ pc \in [Ids -> Steps] /\ todo \in [Ids -> SUBSET Tasks]
          /\ newlyReady \in [Ids -> SUBSET Ids]
          /\ cached \in [Ids -> [terminal : BOOLEAN, slots : Nat]]
      BY DEF Init, Steps
    <2>3. /\ status \in [Ids -> {"absent", "pending", "ready", "running", "completed", "failed"}]
          /\ jobs \in [Ids -> Nat]
      BY DEF Init
    <2>. QED
      BY <2>1, <2>2, <2>3 DEF Init, TypeOK
  <1>2. Places
    BY CoordinatorsAreApart DEF Init, Places
  <1>3. AloneInv
    <2>1. InFlight = {} /\ ~Ending /\ completed = {} /\ \A i \in Ids : pc[i] = "idle"
      BY DEF Init, InFlight, Ending
    <2>2. \A t \in Tasks : status[t] \in {"ready", "running"} => Deps[t] = {}
      BY CoordinatorsAreApart DEF Init, Roots
    <2>. QED
      BY <2>1, <2>2 DEF AloneInv, OneAtATime, EndsRightly, InPlace
  <1>4. JobsInv /\ PromotionInv /\ PromotesEverythingAlone
    <2>1. promoted = <<>> /\ Len(promoted) = 0 /\ \A i \in Ids : pc[i] # "promote"
      BY DEF Init
    <2>2. PromotesEverythingAlone
      BY <2>1 DEF PromotesEverythingAlone, PromotesEverything
    <2>3. \A i \in Ids : /\ jobs[i] <= 1 /\ newlyReady[i] = {}
                         /\ status[i] \in {"absent", "pending", "ready"} => jobs[i] = 0
      <3>1. PICK started \in SUBSET Roots :
                /\ status = [i \in Ids |-> IF i \notin Tasks THEN "absent"
                                           ELSE IF i \in started THEN "running"
                                           ELSE IF i \in Roots THEN "ready" ELSE "pending"]
                /\ jobs = [i \in Ids |-> IF i \in started THEN 1 ELSE 0]
        BY DEF Init
      <3>2. newlyReady = [i \in Ids |-> {}]
        BY DEF Init
      <3>. QED
        BY <3>1, <3>2 DEF Roots
    <2>. QED
      BY <2>1, <2>2, <2>3 DEF JobsInv, PromotionInv
  <1>. QED
    BY <1>1, <1>2, <1>3, <1>4 DEF MInv

LEMMA PlacesKept == MInv /\ [Next]_vars => Places'
  <1> SUFFICES ASSUME TypeOK, Places, [Next]_vars PROVE Places'
    BY DEF MInv
  <1> USE CoordinatorsAreApart DEF TypeOK, Places, At, Goto, BeforeCoordinator
  <1>1. ASSUME NEW i \in Ids, WorkerCompletes(i) PROVE Places'
    BY <1>1 DEF WorkerCompletes, gitVars
  <1>2. ASSUME NEW i \in Ids, Record(i) PROVE Places'
    BY <1>2 DEF Record, gitVars
  <1>3. ASSUME NEW t \in Tasks, Announce(t) PROVE Places'
    BY <1>3 DEF Announce, gitVars
  <1>4. ASSUME NEW t \in Tasks, MergeBranch(t) PROVE Places'
    BY <1>4 DEF MergeBranch, redisVars
  <1>5. ASSUME NEW t \in Tasks, ClearPending(t) PROVE Places'
    BY <1>5 DEF ClearPending, gitVars
  <1>6. ASSUME NEW t \in Tasks, AddCoordinator(t) PROVE Places'
    <2>1. PICK s \in {"ready", "running"} :
              status' = status \/ status' = [status EXCEPT ![Coordinator(t)] = s]
      BY <1>6 DEF AddCoordinator
    <2>2. status[Coordinator(t)] = "absent" /\ pc[Coordinator(t)] = "idle"
      BY <1>6 DEF AddCoordinator
    <2>3. /\ pc' = [pc EXCEPT ![t] = "scan"] /\ Coordinator(t) \in Ids
          /\ UNCHANGED <<completed, pendingMerges, integrated>>
      BY <1>6 DEF AddCoordinator, gitVars
    <2>4. status[t] \in {"completed", "failed"}
      BY <1>6 DEF AddCoordinator
    <2>5. \A i \in Ids : pc'[i] # "idle" => status'[i] \in {"completed", "failed"}
      BY <2>1, <2>2, <2>3, <2>4
    <2>6. ASSUME NEW u \in Tasks
          PROVE  /\ status'[u] = status[u]
                 /\ u # t => /\ pc'[u] = pc[u]
                             /\ status'[Coordinator(u)] = status[Coordinator(u)]
                 /\ pc'[Coordinator(u)] = pc[Coordinator(u)]
      BY <2>1, <2>3
    <2>7. pc'[t] = "scan"
      BY <2>3
    <2>8. ASSUME NEW u \in Tasks
          PROVE  /\ status'[u] \notin {"absent", "failed"}
                 /\ status'[u] = "completed" => u \in completed' \/ pc'[u] = "record"
                 /\ pc'[u] \in BeforeCoordinator => status'[Coordinator(u)] = "absent"
                 /\ pc'[u] = "merge" => u \in pendingMerges'
                 /\ pc'[u] = "merged" => u \in integrated'
                 /\ pc'[Coordinator(u)] = "resolved" => u \in integrated'
      <3>1. CASE u = t
        BY <1>6, <2>3, <2>6, <2>7, <3>1 DEF AddCoordinator
      <3>2. CASE u # t
        BY <2>3, <2>6, <3>2
      <3>. QED
        BY <3>1, <3>2
    <2>. QED
      BY <2>5, <2>8
  <1>7. ASSUME NEW t \in Tasks, ResolveConflict(t) PROVE Places'
    BY <1>7 DEF ResolveConflict, redisVars
  <1>8. ASSUME NEW t \in Tasks, AfterResolution(t) PROVE Places'
    BY <1>8 DEF AfterResolution, gitVars
  <1>9. ASSUME NEW t \in Tasks, CoordinatorFails(t) PROVE Places'
    BY <1>9 DEF CoordinatorFails, gitVars
  <1>10. ASSUME NEW i \in Ids, NEW d \in Tasks, ReadyDependent(i, d) PROVE Places'
    BY <1>10 DEF ReadyDependent, gitVars
  <1>11. ASSUME NEW i \in Ids, NEW d \in Tasks, PassOver(i, d) PROVE Places'
    BY <1>11 DEF PassOver, redisVars, gitVars
  <1>12. ASSUME NEW i \in Ids, Snapshot(i) PROVE Places'
    BY <1>12 DEF Snapshot, redisVars, gitVars
  <1>13. ASSUME NEW i \in Ids, NEW t \in Ids, Dispatch(i, t) PROVE Places'
    BY <1>13 DEF Dispatch, gitVars
  <1>14. ASSUME NEW i \in Ids, EndDispatch(i) PROVE Places'
    BY <1>14 DEF EndDispatch, redisVars, gitVars
  <1>15. ASSUME NEW i \in Ids, Check(i) PROVE Places'
    BY <1>15 DEF Check, gitVars
  <1>16. ASSUME NEW i \in Ids, Promote(i) PROVE Places'
    BY <1>16 DEF Promote
  <1>17. CASE UNCHANGED vars
    BY <1>17 DEF vars, redisVars, gitVars, handlerVars
  <1>. QED
    BY <1>1, <1>2, <1>3, <1>4, <1>5, <1>6, <1>7, <1>8, <1>9, <1>10, <1>11, <1>12, <1>13,
       <1>14, <1>15, <1>16, <1>17 DEF Next, CompletionStep, DispatchStep

-----------------------------------------------------------------------------
(* Nothing is done twice *)

LEMMA JobsKept == MInv /\ [Next]_vars => JobsInv'
  <1> SUFFICES ASSUME TypeOK, Places, JobsInv, [Next]_vars PROVE JobsInv'
    BY DEF MInv
  <1> USE CoordinatorsAreApart DEF TypeOK, JobsInv, At, Goto
  <1>1. ASSUME NEW i \in Ids, WorkerCompletes(i) PROVE JobsInv'
    BY <1>1 DEF WorkerCompletes, redisVars, gitVars, settings
  <1>2. ASSUME NEW i \in Ids, Record(i) PROVE JobsInv'
    BY <1>2 DEF Record, redisVars, gitVars, settings
  <1>3. ASSUME NEW t \in Tasks, Announce(t) PROVE JobsInv'
    BY <1>3 DEF Announce, redisVars, gitVars, settings
  <1>4. ASSUME NEW t \in Tasks, MergeBranch(t) PROVE JobsInv'
    BY <1>4 DEF MergeBranch, redisVars, gitVars, settings
  <1>5. ASSUME NEW t \in Tasks, ClearPending(t) PROVE JobsInv'
    BY <1>5 DEF ClearPending, redisVars, gitVars, settings
  <1>6. ASSUME NEW t \in Tasks, AddCoordinator(t) PROVE JobsInv'
    <2> DEFINE c == Coordinator(t)
    <2>1. status[c] = "absent" /\ c \in Ids
      BY <1>6 DEF AddCoordinator, Places, BeforeCoordinator
    <2>2. UNCHANGED <<newlyReady, maxConcurrency>>
      BY <1>6 DEF AddCoordinator, settings
    <2>3. \/ UNCHANGED <<status, jobs>>
          \/ /\ status' = [status EXCEPT ![c] = "running"]
             /\ jobs' = [jobs EXCEPT ![c] = @ + 1]
          \/ /\ status' = [status EXCEPT ![c] = "ready"]
             /\ jobs' = jobs
      BY <1>6 DEF AddCoordinator
    <2>. HIDE DEF c
    <2>. QED
      BY <2>1, <2>2, <2>3
  <1>7. ASSUME NEW t \in Tasks, ResolveConflict(t) PROVE JobsInv'
    BY <1>7 DEF ResolveConflict, redisVars, gitVars, settings
  <1>8. ASSUME NEW t \in Tasks, AfterResolution(t) PROVE JobsInv'
    BY <1>8 DEF AfterResolution, redisVars, gitVars, settings
  <1>9. ASSUME NEW t \in Tasks, CoordinatorFails(t) PROVE JobsInv'
    BY <1>9 DEF CoordinatorFails, redisVars, gitVars, settings
  <1>10. ASSUME NEW i \in Ids, NEW d \in Tasks, ReadyDependent(i, d) PROVE JobsInv'
    BY <1>10 DEF ReadyDependent, redisVars, gitVars, settings
  <1>11. ASSUME NEW i \in Ids, NEW d \in Tasks, PassOver(i, d) PROVE JobsInv'
    BY <1>11 DEF PassOver, redisVars, gitVars, settings
  <1>12. ASSUME NEW i \in Ids, Snapshot(i) PROVE JobsInv'
    BY <1>12 DEF Snapshot, redisVars, gitVars, settings
  <1>13. ASSUME NEW i \in Ids, NEW t \in Ids, Dispatch(i, t) PROVE JobsInv'
    BY <1>13 DEF Dispatch, redisVars, gitVars, settings
  <1>14. ASSUME NEW i \in Ids, EndDispatch(i) PROVE JobsInv'
    BY <1>14 DEF EndDispatch, redisVars, gitVars, settings
  <1>15. ASSUME NEW i \in Ids, Check(i) PROVE JobsInv'
    BY <1>15 DEF Check, redisVars, gitVars, settings
  <1>16. ASSUME NEW i \in Ids, Promote(i) PROVE JobsInv'
    BY <1>16 DEF Promote, redisVars, gitVars, settings
  <1>17. CASE UNCHANGED vars
    BY <1>17 DEF vars, redisVars, gitVars, settings, handlerVars
  <1>. QED
    BY <1>1, <1>2, <1>3, <1>4, <1>5, <1>6, <1>7, <1>8, <1>9, <1>10, <1>11, <1>12, <1>13,
       <1>14, <1>15, <1>16, <1>17, CoordinatorsAreApart DEF Next, CompletionStep, DispatchStep

LEMMA PromotionKept == MInv /\ [Next]_vars => PromotionInv'
  <1> SUFFICES ASSUME TypeOK, PromotionInv, [Next]_vars PROVE PromotionInv'
    BY DEF MInv
  <1> USE CoordinatorsAreApart DEF TypeOK, PromotionInv, At, Goto
  <1>1. ASSUME NEW i \in Ids, WorkerCompletes(i) PROVE PromotionInv'
    BY <1>1 DEF WorkerCompletes, redisVars, gitVars, settings
  <1>2. ASSUME NEW i \in Ids, Record(i) PROVE PromotionInv'
    BY <1>2 DEF Record, redisVars, gitVars, settings
  <1>3. ASSUME NEW t \in Tasks, Announce(t) PROVE PromotionInv'
    BY <1>3 DEF Announce, redisVars, gitVars, settings
  <1>4. ASSUME NEW t \in Tasks, MergeBranch(t) PROVE PromotionInv'
    <2>1. UNCHANGED <<promoted, resolution>>
      BY <1>4 DEF MergeBranch, redisVars, gitVars
    <2>2. \A k \in Ids : pc'[k] = "promote" => pc[k] = "promote"
      BY <1>4 DEF MergeBranch
    <2>. QED
      BY <2>1, <2>2
  <1>5. ASSUME NEW t \in Tasks, ClearPending(t) PROVE PromotionInv'
    <2>1. UNCHANGED <<promoted, resolution>>
      BY <1>5 DEF ClearPending, redisVars, gitVars
    <2>2. \A k \in Ids : pc'[k] = "promote" => pc[k] = "promote"
      BY <1>5 DEF ClearPending
    <2>. QED
      BY <2>1, <2>2
  <1>6. ASSUME NEW t \in Tasks, AddCoordinator(t) PROVE PromotionInv'
    BY <1>6 DEF AddCoordinator, redisVars, gitVars, settings
  <1>7. ASSUME NEW t \in Tasks, ResolveConflict(t) PROVE PromotionInv'
    <2>1. UNCHANGED <<promoted, resolution>>
      BY <1>7 DEF ResolveConflict, redisVars, gitVars
    <2>2. \A k \in Ids : pc'[k] = "promote" => pc[k] = "promote"
      BY <1>7 DEF ResolveConflict
    <2>. QED
      BY <2>1, <2>2
  <1>8. ASSUME NEW t \in Tasks, AfterResolution(t) PROVE PromotionInv'
    BY <1>8 DEF AfterResolution, redisVars, gitVars, settings
  <1>9. ASSUME NEW t \in Tasks, CoordinatorFails(t) PROVE PromotionInv'
    BY <1>9 DEF CoordinatorFails, redisVars, gitVars, settings
  <1>10. ASSUME NEW i \in Ids, NEW d \in Tasks, ReadyDependent(i, d) PROVE PromotionInv'
    BY <1>10 DEF ReadyDependent, redisVars, gitVars, settings
  <1>11. ASSUME NEW i \in Ids, NEW d \in Tasks, PassOver(i, d) PROVE PromotionInv'
    BY <1>11 DEF PassOver, redisVars, gitVars, settings
  <1>12. ASSUME NEW i \in Ids, Snapshot(i) PROVE PromotionInv'
    BY <1>12 DEF Snapshot, redisVars, gitVars, settings
  <1>13. ASSUME NEW i \in Ids, NEW t \in Ids, Dispatch(i, t) PROVE PromotionInv'
    BY <1>13 DEF Dispatch, redisVars, gitVars, settings
  <1>14. ASSUME NEW i \in Ids, EndDispatch(i) PROVE PromotionInv'
    <2>1. UNCHANGED <<promoted, resolution>>
      BY <1>14 DEF EndDispatch, redisVars, gitVars
    <2>2. \A k \in Ids : pc'[k] = "promote" => pc[k] = "promote"
      BY <1>14 DEF EndDispatch
    <2>. QED
      BY <2>1, <2>2
  <1>15. ASSUME NEW i \in Ids, Check(i) PROVE PromotionInv'
    BY <1>15 DEF Check, redisVars, gitVars, settings
  <1>16. ASSUME NEW i \in Ids, Promote(i) PROVE PromotionInv'
    BY <1>16 DEF Promote, redisVars, gitVars, settings
  <1>17. CASE UNCHANGED vars
    BY <1>17 DEF vars, redisVars, gitVars, settings, handlerVars
  <1>. QED
    BY <1>1, <1>2, <1>3, <1>4, <1>5, <1>6, <1>7, <1>8, <1>9, <1>10, <1>11, <1>12, <1>13,
       <1>14, <1>15, <1>16, <1>17, CoordinatorsAreApart DEF Next, CompletionStep, DispatchStep

-----------------------------------------------------------------------------
(* Handlers that run alone *)

\* With a limit of one a worker's end is only handled when no handler runs.
LEMMA NobodyElseRuns ==
    ASSUME limit = 1, Cardinality(InFlight) < limit
    PROVE  InFlight = {}
  <1>1. IsFiniteSet(InFlight)
    BY IdsAreFinite, FS_Subset DEF InFlight
  <1>2. Cardinality(InFlight) = 0
    BY <1>1, FS_CardinalityType
  <1>. QED
    BY <1>1, <1>2, FS_EmptySet

LEMMA StaysAlone ==
    ASSUME TypeOK, limit = 1, OneAtATime, [Next]_vars
    PROVE  OneAtATime'
  <1> USE CoordinatorsAreApart DEF TypeOK, OneAtATime, InFlight, At, Goto
  <1>1. ASSUME NEW i \in Ids, WorkerCompletes(i) PROVE OneAtATime'
    BY <1>1, NobodyElseRuns DEF WorkerCompletes, redisVars, gitVars, settings
  <1>2. ASSUME NEW i \in Ids, Record(i) PROVE OneAtATime'
    BY <1>2 DEF Record, redisVars, gitVars, settings
  <1>3. ASSUME NEW t \in Tasks, Announce(t) PROVE OneAtATime'
    BY <1>3 DEF Announce, redisVars, gitVars, settings
  <1>4. ASSUME NEW t \in Tasks, MergeBranch(t) PROVE OneAtATime'
    <2>1. InFlight' \subseteq InFlight
      BY <1>4 DEF MergeBranch
    <2>. QED
      BY <2>1
  <1>5. ASSUME NEW t \in Tasks, ClearPending(t) PROVE OneAtATime'
    <2>1. InFlight' \subseteq InFlight
      BY <1>5 DEF ClearPending
    <2>. QED
      BY <2>1
  <1>6. ASSUME NEW t \in Tasks, AddCoordinator(t) PROVE OneAtATime'
    BY <1>6 DEF AddCoordinator, redisVars, gitVars, settings
  <1>7. ASSUME NEW t \in Tasks, ResolveConflict(t) PROVE OneAtATime'
    <2>1. InFlight' \subseteq InFlight
      BY <1>7 DEF ResolveConflict
    <2>. QED
      BY <2>1
  <1>8. ASSUME NEW t \in Tasks, AfterResolution(t) PROVE OneAtATime'
    BY <1>8 DEF AfterResolution, redisVars, gitVars, settings
  <1>9. ASSUME NEW t \in Tasks, CoordinatorFails(t) PROVE OneAtATime'
    BY <1>9, NobodyElseRuns DEF CoordinatorFails, redisVars, gitVars, settings
  <1>10. ASSUME NEW i \in Ids, NEW d \in Tasks, ReadyDependent(i, d) PROVE OneAtATime'
    BY <1>10 DEF ReadyDependent, redisVars, gitVars, settings
  <1>11. ASSUME NEW i \in Ids, NEW d \in Tasks, PassOver(i, d) PROVE OneAtATime'
    BY <1>11 DEF PassOver, redisVars, gitVars, settings
  <1>12. ASSUME NEW i \in Ids, Snapshot(i) PROVE OneAtATime'
    BY <1>12 DEF Snapshot, redisVars, gitVars, settings
  <1>13. ASSUME NEW i \in Ids, NEW t \in Ids, Dispatch(i, t) PROVE OneAtATime'
    BY <1>13 DEF Dispatch, redisVars, gitVars, settings
  <1>14. ASSUME NEW i \in Ids, EndDispatch(i) PROVE OneAtATime'
    BY <1>14 DEF EndDispatch, redisVars, gitVars, settings
  <1>15. ASSUME NEW i \in Ids, Check(i) PROVE OneAtATime'
    BY <1>15 DEF Check, redisVars, gitVars, settings
  <1>16. ASSUME NEW i \in Ids, Promote(i) PROVE OneAtATime'
    BY <1>16 DEF Promote, redisVars, gitVars, settings
  <1>17. CASE UNCHANGED vars
    BY <1>17 DEF vars, redisVars, gitVars, settings, handlerVars
  <1>. QED
    BY <1>1, <1>2, <1>3, <1>4, <1>5, <1>6, <1>7, <1>8, <1>9, <1>10, <1>11, <1>12, <1>13,
       <1>14, <1>15, <1>16, <1>17, CoordinatorsAreApart DEF Next, CompletionStep, DispatchStep

\* A handler in the middle of its steps, alone, does not end the graph.
LEMMA MiddleStep ==
    ASSUME TypeOK, OneAtATime, EndsRightly, NEW i \in InFlight, NEW s \in Steps,
           pc[i] \notin {"dispatch", "check", "promote"},
           s \notin {"dispatch", "check", "promote"},
           graph' = graph, pc' = [pc EXCEPT ![i] = s]
    PROVE  EndsRightly'
  <1>1. ~Ending /\ i \in Ids /\ pc \in [Ids -> Steps]
    BY DEF EndsRightly, InFlight, TypeOK
  <1>2. \A k \in Ids : pc'[k] \notin {"dispatch", "check", "promote"}
    BY <1>1 DEF OneAtATime, InFlight
  <1>3. ~Ending'
    BY <1>1, <1>2 DEF Ending
  <1>. QED
    BY <1>2, <1>3 DEF EndsRightly

LEMMA KeepsEndingRightly ==
    ASSUME TypeOK, Places, limit = 1, OneAtATime, EndsRightly, [Next]_vars
    PROVE  EndsRightly'
  <1> USE CoordinatorsAreApart
      DEF TypeOK, OneAtATime, EndsRightly, Ending, Terminal, InFlight, At, Goto
  <1>1. ASSUME NEW i \in Ids, WorkerCompletes(i) PROVE EndsRightly'
    BY <1>1, NobodyElseRuns DEF WorkerCompletes, redisVars, gitVars, settings
  <1>2. ASSUME NEW i \in Ids, Record(i) PROVE EndsRightly'
    BY <1>2 DEF Record, redisVars, gitVars, settings
  <1>3. ASSUME NEW t \in Tasks, Announce(t) PROVE EndsRightly'
    <2>1. PICK s \in Steps : /\ s \notin {"dispatch", "check", "promote"}
                             /\ pc' = [pc EXCEPT ![t] = s]
      BY <1>3 DEF Announce, Steps
    <2>2. /\ graph' = graph /\ t \in InFlight
          /\ pc[t] \notin {"dispatch", "check", "promote"}
      BY <1>3 DEF Announce, redisVars
    <2>. QED
      BY <2>1, <2>2, MiddleStep
  <1>4. ASSUME NEW t \in Tasks, MergeBranch(t) PROVE EndsRightly'
    <2>1. PICK s \in Steps : /\ s \notin {"dispatch", "check", "promote"}
                             /\ pc' = [pc EXCEPT ![t] = s]
      BY <1>4 DEF MergeBranch, Steps
    <2>2. /\ graph' = graph /\ t \in InFlight
          /\ pc[t] \notin {"dispatch", "check", "promote"}
      BY <1>4 DEF MergeBranch, redisVars
    <2>. QED
      BY <2>1, <2>2, MiddleStep
  <1>5. ASSUME NEW t \in Tasks, ClearPending(t) PROVE EndsRightly'
    <2>1. PICK s \in Steps : /\ s \notin {"dispatch", "check", "promote"}
                             /\ pc' = [pc EXCEPT ![t] = s]
      BY <1>5 DEF ClearPending, Steps
    <2>2. /\ graph' = graph /\ t \in InFlight
          /\ pc[t] \notin {"dispatch", "check", "promote"}
      BY <1>5 DEF ClearPending, redisVars
    <2>. QED
      BY <2>1, <2>2, MiddleStep
  <1>6. ASSUME NEW t \in Tasks, AddCoordinator(t) PROVE EndsRightly'
    BY <1>6 DEF AddCoordinator, redisVars, gitVars, settings
  <1>7. ASSUME NEW t \in Tasks, ResolveConflict(t) PROVE EndsRightly'
    <2>1. PICK s \in Steps : /\ s \notin {"dispatch", "check", "promote"}
                             /\ pc' = [pc EXCEPT ![Coordinator(t)] = s]
      BY <1>7 DEF ResolveConflict, Steps
    <2>2. /\ graph' = graph /\ Coordinator(t) \in InFlight
          /\ pc[Coordinator(t)] \notin {"dispatch", "check", "promote"}
      BY <1>7 DEF ResolveConflict, redisVars
    <2>. QED
      BY <2>1, <2>2, MiddleStep
  <1>8. ASSUME NEW t \in Tasks, AfterResolution(t) PROVE EndsRightly'
    BY <1>8 DEF AfterResolution, redisVars, gitVars, settings
  <1>9. ASSUME NEW t \in Tasks, CoordinatorFails(t) PROVE EndsRightly'
    BY <1>9, NobodyElseRuns DEF CoordinatorFails, redisVars, gitVars, settings
  <1>10. ASSUME NEW i \in Ids, NEW d \in Tasks, ReadyDependent(i, d) PROVE EndsRightly'
    BY <1>10 DEF ReadyDependent, redisVars, gitVars, settings
  <1>11. ASSUME NEW i \in Ids, NEW d \in Tasks, PassOver(i, d) PROVE EndsRightly'
    BY <1>11 DEF PassOver, redisVars, gitVars, settings
  <1>12. ASSUME NEW i \in Ids, Snapshot(i) PROVE EndsRightly'
    <2>1. /\ ~Ending /\ UNCHANGED <<graph, status, pendingMerges>>
          /\ pc' = [pc EXCEPT ![i] = "dispatch"] /\ \A k \in InFlight : k = i
      BY <1>12 DEF Snapshot, redisVars
    <2>2. cached'[i].terminal = Terminal(status)
      BY <1>12 DEF Snapshot
    <2>3. \A k \in Ids : pc'[k] \in {"dispatch", "check", "promote"} => k = i
      <3> SUFFICES ASSUME NEW k \in Ids, k # i PROVE pc'[k] \in {"idle", "done"}
        OBVIOUS
      <3>1. pc'[k] = pc[k] /\ k \notin InFlight
        BY <2>1
      <3>. QED
        BY <3>1
    <2>4. pc'[i] = "dispatch" /\ \A k \in InFlight' : k = i
      BY <2>1
    <2>5. Ending' => Terminal(status')
      BY <2>1, <2>2, <2>3
    <2>. QED
      BY <2>3, <2>4, <2>5
  <1>13. ASSUME NEW i \in Ids, NEW t \in Ids, Dispatch(i, t) PROVE EndsRightly'
    BY <1>13 DEF Dispatch, redisVars, gitVars, settings
  <1>14. ASSUME NEW i \in Ids, EndDispatch(i) PROVE EndsRightly'
    <2>1. PICK s \in {"check", "done"} : pc' = [pc EXCEPT ![i] = s]
      BY <1>14 DEF EndDispatch
    <2>2. UNCHANGED <<graph, status, pendingMerges, cached>> /\ pc[i] = "dispatch"
      BY <1>14 DEF EndDispatch, redisVars
    <2>3. Ending' => Ending
      BY <2>1, <2>2
    <2>4. /\ \A k \in InFlight' : k \in InFlight /\ (k = i => pc'[k] = "check")
                                 /\ (k # i => pc'[k] = pc[k])
          /\ \A k \in Ids : pc'[k] = "promote" => pc[k] = "promote"
      BY <2>1, <2>2
    <2>. QED
      BY <2>2, <2>3, <2>4
  <1>15. ASSUME NEW i \in Ids, Check(i) PROVE EndsRightly'
    BY <1>15 DEF Check, redisVars, gitVars, settings
  <1>16. ASSUME NEW i \in Ids, Promote(i) PROVE EndsRightly'
    BY <1>16 DEF Promote, redisVars, gitVars, settings
  <1>17. CASE UNCHANGED vars
    BY <1>17 DEF vars, redisVars, gitVars, settings, handlerVars
  <1>. QED
    BY <1>1, <1>2, <1>3, <1>4, <1>5, <1>6, <1>7, <1>8, <1>9, <1>10, <1>11, <1>12, <1>13,
       <1>14, <1>15, <1>16, <1>17, CoordinatorsAreApart DEF Next, CompletionStep, DispatchStep

\* Completed work stays in place or held, as long as a coordinator is added when asked for.
LEMMA StaysHeld ==
    ASSUME TypeOK, Places, \A t \in completed : t \in integrated \/ Held(t), [Next]_vars,
           \A u \in Tasks : AddCoordinator(u) => graph = "active"
    PROVE  \A t \in completed' : t \in integrated' \/ Held(t)'
  <1> DEFINE Goal == \A t \in completed' : t \in integrated' \/ Held(t)'
  <1> USE CoordinatorsAreApart DEF TypeOK, Places, Held, At, Goto
  <1>1. ASSUME NEW i \in Ids, WorkerCompletes(i) PROVE Goal
    BY <1>1 DEF WorkerCompletes, redisVars, gitVars, settings
  <1>2. ASSUME NEW i \in Ids, Record(i) PROVE Goal
    BY <1>2 DEF Record, redisVars, gitVars, settings
  <1>3. ASSUME NEW t \in Tasks, Announce(t) PROVE Goal
    BY <1>3 DEF Announce, redisVars, gitVars, settings
  <1>4. ASSUME NEW t \in Tasks,
               MergeBranch(t) \/ ClearPending(t) \/ AddCoordinator(t) \/ ResolveConflict(t)
        PROVE Goal
    <2>1. /\ completed' = completed
          /\ integrated \subseteq integrated'
      BY <1>4 DEF MergeBranch, ClearPending, AddCoordinator, ResolveConflict, redisVars, gitVars
    <2>2. ASSUME NEW u \in Tasks, Held(u), u \notin integrated', u # t PROVE Held(u)'
      <3>1. /\ pc'[u] = pc[u] /\ pc'[Coordinator(u)] = pc[Coordinator(u)]
            /\ status'[Coordinator(u)] = status[Coordinator(u)]
            /\ u \in pendingMerges => u \in pendingMerges'
        <4>1. CASE MergeBranch(t)
          BY <2>2, <4>1 DEF MergeBranch, redisVars
        <4>2. CASE ClearPending(t)
          BY <2>2, <4>2 DEF ClearPending, redisVars
        <4>3. CASE AddCoordinator(t)
          BY <2>2, <4>3 DEF AddCoordinator, redisVars
        <4>4. CASE ResolveConflict(t)
          BY <2>2, <4>4 DEF ResolveConflict, redisVars
        <4>. QED
          BY <1>4, <4>1, <4>2, <4>3, <4>4
      <3>. QED
        BY <2>2, <3>1
    <2>3. ASSUME t \notin integrated' PROVE Held(t)'
      <3>1. CASE MergeBranch(t)
        BY <2>3, <3>1 DEF MergeBranch, redisVars
      <3>2. CASE ClearPending(t)
        BY <2>3, <3>2 DEF ClearPending, redisVars, gitVars
      <3>3. CASE AddCoordinator(t)
        <4>1. graph = "active"
          BY <3>3
        <4>. QED
          BY <2>3, <3>3, <4>1 DEF AddCoordinator, redisVars
      <3>4. CASE ResolveConflict(t)
        BY <2>3, <3>4 DEF ResolveConflict, redisVars
      <3>. QED
        BY <1>4, <3>1, <3>2, <3>3, <3>4
    <2>4. ASSUME NEW u \in completed' PROVE u \in integrated' \/ Held(u)'
      <3>1. u \in Tasks /\ (u \in integrated \/ Held(u))
        BY <2>1, <2>4
      <3>. QED
        BY <2>1, <2>2, <2>3, <3>1
    <2>. QED
      BY <2>4
  <1>8. ASSUME NEW t \in Tasks, AfterResolution(t) PROVE Goal
    BY <1>8 DEF AfterResolution, redisVars, gitVars, settings
  <1>9. ASSUME NEW t \in Tasks, CoordinatorFails(t) PROVE Goal
    BY <1>9 DEF CoordinatorFails, redisVars, gitVars, settings
  <1>10. ASSUME NEW i \in Ids, NEW d \in Tasks, ReadyDependent(i, d) PROVE Goal
    BY <1>10 DEF ReadyDependent, redisVars, gitVars, settings
  <1>11. ASSUME NEW i \in Ids, NEW d \in Tasks, PassOver(i, d) PROVE Goal
    BY <1>11 DEF PassOver, redisVars, gitVars, settings
  <1>12. ASSUME NEW i \in Ids, Snapshot(i) PROVE Goal
    BY <1>12 DEF Snapshot, redisVars, gitVars, settings
  <1>13. ASSUME NEW i \in Ids, NEW t \in Ids, Dispatch(i, t) PROVE Goal
    BY <1>13 DEF Dispatch, redisVars, gitVars, settings
  <1>14. ASSUME NEW i \in Ids, EndDispatch(i) \/ Check(i) \/ Promote(i) PROVE Goal
    <2>1. UNCHANGED <<status, completed, pendingMerges, integrated>>
      BY <1>14 DEF EndDispatch, Check, Promote, redisVars, gitVars
    <2>2. /\ pc[i] \in {"dispatch", "check", "promote"}
          /\ \A k \in Ids : k # i => pc'[k] = pc[k]
      BY <1>14 DEF EndDispatch, Check, Promote
    <2>3. \A t \in Tasks : Held(t) => Held(t)'
      BY <2>1, <2>2
    <2>. QED
      BY <2>1, <2>3
  <1>17. CASE UNCHANGED vars
    BY <1>17 DEF vars, redisVars, gitVars, settings, handlerVars
  <1>. QED
    BY <1>1, <1>2, <1>3, <1>4, <1>8, <1>9, <1>10, <1>11, <1>12, <1>13,
       <1>14, <1>17, CoordinatorsAreApart DEF Next, CompletionStep, DispatchStep

\* The gate lets a dependent through only when its dependencies' work is in place: of
\* what could say otherwise, MayStart reads pending_merges and the coordinators'
\* statuses, and a handler in the middle of its steps would not be alone.
LEMMA GateReadsRight ==
    ASSUME TypeOK, Places, OneAtATime, InPlace,
           NEW i \in Ids, NEW d \in Tasks, pc[i] = "scan", MayStart(d)
    PROVE  Deps[d] \subseteq integrated
  <1> SUFFICES ASSUME NEW t \in Deps[d] PROVE t \in integrated
    OBVIOUS
  <1>1. t \in completed /\ t \in Tasks /\ Coordinator(t) \in Ids /\ t \in Ids
    BY GateAssumption, CoordinatorsAreApart DEF MayStart
  <1>2. t \notin pendingMerges /\ status[Coordinator(t)] \in {"absent", "completed"}
    BY DEF MayStart
  <1>3. \A k \in Ids : k # i => pc[k] \in {"idle", "done"}
    BY DEF OneAtATime, InFlight
  <1>4. ~Held(t)
    BY <1>1, <1>2, <1>3 DEF Held
  <1>. QED
    BY <1>1, <1>4 DEF InPlace

LEMMA StaysInPlace ==
    ASSUME TypeOK, Places, limit = 1, OneAtATime, EndsRightly, InPlace, [Next]_vars
    PROVE  InPlace'
  <1>1. \A t \in completed' : t \in integrated' \/ Held(t)'
    <2>1. ASSUME NEW u \in Tasks, AddCoordinator(u) PROVE graph = "active"
      BY <2>1, CoordinatorsAreApart DEF AddCoordinator, EndsRightly, Ending, InFlight, At
    <2>. QED
      BY <2>1, StaysHeld DEF InPlace
  <1>2. integrated \subseteq integrated'
    BY DEF Next, CompletionStep, DispatchStep, vars, gitVars, WorkerCompletes, Record,
       Announce, MergeBranch, ClearPending, AddCoordinator, ResolveConflict, AfterResolution,
       CoordinatorFails, ReadyDependent, PassOver, Snapshot, Dispatch, EndDispatch, Check,
       Promote
  <1>3. ASSUME NEW d \in Tasks, status'[d] \in {"ready", "running"}
        PROVE  \/ status[d] \in {"ready", "running"}
               \/ \E i \in Ids : pc[i] = "scan" /\ MayStart(d)
    <2> USE CoordinatorsAreApart DEF TypeOK, At
    <2>1. ASSUME NEW u \in Tasks, AddCoordinator(u) PROVE status'[d] = status[d]
      BY <2>1 DEF AddCoordinator
    <2>2. ASSUME NEW i \in Ids, NEW u \in Tasks, ReadyDependent(i, u)
          PROVE  status'[d] = status[d] \/ (pc[i] = "scan" /\ MayStart(d))
      BY <2>2 DEF ReadyDependent
    <2>3. ASSUME ~\E u \in Tasks : AddCoordinator(u),
                 ~\E i \in Ids, u \in Tasks : ReadyDependent(i, u)
          PROVE  status[d] \in {"ready", "running"}
      BY <1>3, <2>3 DEF Next, CompletionStep, DispatchStep, vars, redisVars, WorkerCompletes,
         Record, Announce, MergeBranch, ClearPending, ResolveConflict, AfterResolution,
         CoordinatorFails, PassOver, Snapshot, Dispatch, EndDispatch, Check, Promote
    <2>. QED
      BY <1>3, <2>1, <2>2, <2>3
  <1>. QED
    BY <1>1, <1>2, <1>3, GateReadsRight DEF InPlace

LEMMA AloneKept == MInv /\ [Next]_vars => AloneInv'
  <1>1. ASSUME [Next]_vars PROVE limit' = limit
    BY <1>1 DEF Next, CompletionStep, DispatchStep, vars, settings, WorkerCompletes, Record,
       Announce, MergeBranch, ClearPending, AddCoordinator, ResolveConflict, AfterResolution,
       CoordinatorFails, ReadyDependent, PassOver, Snapshot, Dispatch, EndDispatch, Check,
       Promote
  <1>. QED
    BY <1>1, StaysAlone, KeepsEndingRightly, StaysInPlace DEF MInv, AloneInv

\* The handler that promotes has seen every task ended and no merge pending: nothing
\* is left that could hold a task's work back but a failed coordinator.
LEMMA PromotionIsWhole ==
    ASSUME MInv, limit = 1, NEW i \in Ids, pc[i] = "promote",
           \A t \in Tasks : status[Coordinator(t)] # "failed"
    PROVE  Tasks \subseteq integrated
  <1> SUFFICES ASSUME NEW t \in Tasks PROVE t \in integrated
    OBVIOUS
  <1>1. Terminal(status) /\ pendingMerges = {}
    BY DEF MInv, AloneInv, EndsRightly, Ending
  <1>2. \A k \in Ids : pc[k] \in {"idle", "done", "promote"}
    BY DEF MInv, AloneInv, OneAtATime, InFlight
  <1>3. t \in completed
    BY <1>1, <1>2, CoordinatorsAreApart DEF MInv, Places, Terminal
  <1>4. ~Held(t)
    BY <1>1, <1>2, CoordinatorsAreApart DEF Held, Terminal
  <1>. QED
    BY <1>3, <1>4 DEF MInv, AloneInv, InPlace

\* A coordinator that has failed stays failed.
LEMMA FailureStays ==
    ASSUME MInv, [Next]_vars, NEW t \in Tasks, status[Coordinator(t)] = "failed"
    PROVE  status'[Coordinator(t)] = "failed"
  <1> DEFINE c == Coordinator(t)
  <1>1. c \in Ids /\ \A u \in Tasks : u # c /\ (Coordinator(u) = c => u = t)
    BY CoordinatorsAreApart
  <1>2. status \in [Ids -> {"absent", "pending", "ready", "running", "completed", "failed"}]
    BY DEF MInv, TypeOK
  <1>3. ASSUME NEW u \in Tasks, AddCoordinator(u) PROVE status'[c] = status[c]
    <2>1. status[Coordinator(u)] = "absent"
      BY <1>3 DEF MInv, Places, BeforeCoordinator, AddCoordinator, At
    <2>2. Coordinator(u) # c
      BY <2>1
    <2>. QED
      BY <1>1, <1>2, <1>3, <2>2 DEF AddCoordinator
  <1>4. ASSUME ~\E u \in Tasks : AddCoordinator(u)
        PROVE  status'[c] = status[c]
    BY <1>1, <1>2, <1>4 DEF Next, CompletionStep, DispatchStep, vars, redisVars, WorkerCompletes,
       Record, Announce, MergeBranch, ClearPending, ResolveConflict, AfterResolution,
       CoordinatorFails, ReadyDependent, PassOver, Snapshot, Dispatch, EndDispatch, Check,
       Promote
  <1>. QED
    BY <1>3, <1>4

LEMMA WholeKept == MInv /\ [Next]_vars => PromotesEverythingAlone'
  <1> SUFFICES ASSUME MInv, [Next]_vars, limit' = 1,
                      \A t \in Tasks : status'[Coordinator(t)] # "failed"
               PROVE  PromotesEverything'
    BY DEF PromotesEverythingAlone
  <1>1. \A t \in Tasks : status[Coordinator(t)] # "failed"
    BY FailureStays
  <1>2. limit = 1
    BY DEF Next, CompletionStep, DispatchStep, vars, settings, WorkerCompletes, Record,
       Announce, MergeBranch, ClearPending, AddCoordinator, ResolveConflict, AfterResolution,
       CoordinatorFails, ReadyDependent, PassOver, Snapshot, Dispatch, EndDispatch, Check,
       Promote
  <1>3. PromotesEverything /\ promoted \in Seq(SUBSET Tasks)
    BY <1>1, <1>2 DEF MInv, PromotesEverythingAlone, TypeOK
  <1>4. ASSUME NEW i \in Ids, Promote(i) PROVE PromotesEverything'
    <2>1. Tasks \subseteq integrated
      BY <1>1, <1>2, <1>4, PromotionIsWhole DEF Promote, At
    <2>2. promoted' = promoted \/ promoted' = Append(promoted, integrated)
      BY <1>4 DEF Promote
    <2>3. integrated \in SUBSET Tasks
      BY DEF MInv, TypeOK
    <2>. QED
      BY <1>3, <2>1, <2>2, <2>3 DEF PromotesEverything
  <1>5. ASSUME ~\E i \in Ids : Promote(i) PROVE promoted' = promoted
    BY <1>5 DEF Next, CompletionStep, DispatchStep, vars, gitVars, WorkerCompletes, Record,
       Announce, MergeBranch, ClearPending, AddCoordinator, ResolveConflict, AfterResolution,
       CoordinatorFails, ReadyDependent, PassOver, Snapshot, Dispatch, EndDispatch, Check
  <1>. QED
    BY <1>3, <1>4, <1>5 DEF PromotesEverything

-----------------------------------------------------------------------------
(* What the gate misses when handlers overlap *)

\* A graph that has ended does not become active again, and tasks that have completed stay.
LEMMA EndsStay ==
    ASSUME TypeOK, Places, [Next]_vars
    PROVE  /\ graph' = "active" => graph = "active"
           /\ \A t \in Tasks : status[t] = "completed" => status'[t] = "completed"
  <1> USE CoordinatorsAreApart DEF TypeOK, Places, At, Goto, BeforeCoordinator
  <1>1. graph' = "active" => graph = "active"
    BY DEF Next, CompletionStep, DispatchStep, vars, redisVars, WorkerCompletes, Record,
       Announce, MergeBranch, ClearPending, AddCoordinator, ResolveConflict, AfterResolution,
       CoordinatorFails, ReadyDependent, PassOver, Snapshot, Dispatch, EndDispatch, Check,
       Promote
  <1>2. ASSUME NEW t \in Tasks, status[t] = "completed"
        PROVE  status'[t] = "completed"
    <2>1. ASSUME NEW u \in Tasks, AddCoordinator(u) PROVE status'[t] = "completed"
      BY <1>2, <2>1 DEF AddCoordinator
    <2>2. ASSUME ~\E u \in Tasks : AddCoordinator(u) PROVE status'[t] = "completed"
      BY <1>2, <2>2 DEF Next, CompletionStep, DispatchStep, vars, redisVars, WorkerCompletes,
         Record, Announce, MergeBranch, ClearPending, ResolveConflict, AfterResolution,
         CoordinatorFails, ReadyDependent, PassOver, Snapshot, Dispatch, EndDispatch, Check,
         Promote
    <2>. QED
      BY <2>1, <2>2
  <1>. QED
    BY <1>1, <1>2

\* Only a reading of the tasks that finds them all ended begins to end the graph.
LEMMA EndingBegins ==
    ASSUME TypeOK, Places, [Next]_vars, ~Ending, Ending'
    PROVE  \A t \in Tasks : status[t] = "completed"
  <1> USE CoordinatorsAreApart DEF TypeOK, Ending, At, Goto
  <1>1. ASSUME NEW i \in Ids, Snapshot(i) PROVE \A t \in Tasks : status[t] = "completed"
    <2>1. /\ graph' = graph /\ pc' = [pc EXCEPT ![i] = "dispatch"]
          /\ \A k \in Ids : k # i => cached'[k] = cached[k]
          /\ cached'[i].terminal = Terminal(status)
      BY <1>1 DEF Snapshot, redisVars
    <2>2. Terminal(status)
      BY <2>1
    <2>. QED
      BY <2>2 DEF Terminal, Places
  <1>2. ASSUME NEW i \in Ids, NEW t \in Ids, Dispatch(i, t) PROVE FALSE
    <2>1. /\ graph' = graph /\ pc' = pc
          /\ \A k \in Ids : cached'[k].terminal = cached[k].terminal
      BY <1>2 DEF Dispatch
    <2>. QED
      BY <2>1
  <1>3. ASSUME NEW i \in Ids, Promote(i) PROVE FALSE
    BY <1>3 DEF Promote
  <1>4. ASSUME graph' = graph, cached' = cached,
               \A k \in Ids : \/ pc'[k] = pc[k]
                              \/ pc'[k] \notin {"dispatch", "check", "promote"}
                              \/ pc[k] = "dispatch" /\ pc'[k] = "check"
                              \/ pc[k] = "check" /\ cached[k].terminal
        PROVE  FALSE
    BY <1>4
  <1>5. ASSUME NEW t \in Tasks, CompletionStep(t) \/ CoordinatorFails(t) PROVE FALSE
    <2>1. /\ graph' = graph /\ cached' = cached
          /\ \E i \in Ids : \E s \in Steps \ {"dispatch", "check", "promote"} :
                pc' = [pc EXCEPT ![i] = s]
      BY <1>5 DEF CompletionStep, CoordinatorFails, Record, Announce, MergeBranch, ClearPending,
         AddCoordinator, ResolveConflict, AfterResolution, redisVars, gitVars, Steps
    <2>. QED
      BY <1>4, <2>1
  <1>6. ASSUME NEW i \in Ids, WorkerCompletes(i) \/ EndDispatch(i) \/ Check(i) PROVE FALSE
    <2>1. /\ graph' = graph /\ cached' = cached
          /\ \A k \in Ids : k # i => pc'[k] = pc[k]
      BY <1>6 DEF WorkerCompletes, EndDispatch, Check, redisVars
    <2>2. \/ pc'[i] \notin {"dispatch", "check", "promote"}
          \/ pc[i] = "dispatch" /\ pc'[i] = "check"
          \/ pc[i] = "check" /\ cached[i].terminal
      BY <1>6 DEF WorkerCompletes, EndDispatch, Check
    <2>. QED
      BY <1>4, <2>1, <2>2
  <1>7. ASSUME NEW i \in Ids, NEW d \in Tasks, ReadyDependent(i, d) \/ PassOver(i, d)
        PROVE  FALSE
    BY <1>4, <1>7 DEF ReadyDependent, PassOver, redisVars
  <1>8. CASE UNCHANGED vars
    BY <1>4, <1>8 DEF vars, redisVars, handlerVars
  <1>. QED
    BY <1>1, <1>2, <1>3, <1>5, <1>6, <1>7, <1>8 DEF Next, DispatchStep

\* A conflicted task is pending until its handler takes it out.
LEMMA ConflictedStays ==
    ASSUME TypeOK, Places, \A t \in Tasks : pc[t] = "conflicted" => t \in pendingMerges,
           [Next]_vars, NEW t \in Tasks, pc'[t] = "conflicted"
    PROVE  t \in pendingMerges'
  <1> USE CoordinatorsAreApart DEF TypeOK, Places, At, Goto, BeforeCoordinator
  <1>1. \/ pc[t] = "conflicted" \/ pc[t] = "merge"
    <2>1. ASSUME pc[t] # "conflicted", ~\E u \in Tasks : MergeBranch(u) PROVE FALSE
      BY <2>1 DEF Next, CompletionStep, DispatchStep, vars, handlerVars, WorkerCompletes,
         Record, Announce, ClearPending, AddCoordinator, ResolveConflict, AfterResolution,
         CoordinatorFails, ReadyDependent, PassOver, Snapshot, Dispatch, EndDispatch, Check,
         Promote
    <2>2. ASSUME pc[t] # "conflicted", NEW u \in Tasks, MergeBranch(u) PROVE pc[t] = "merge"
      BY <2>2 DEF MergeBranch
    <2>. QED
      BY <2>1, <2>2
  <1>2. t \in pendingMerges
    BY <1>1
  <1>3. ASSUME NEW u \in Tasks, ClearPending(u) PROVE t \in pendingMerges'
    BY <1>1, <1>2, <1>3 DEF ClearPending
  <1>4. ASSUME NEW u \in Tasks, AfterResolution(u) PROVE t \in pendingMerges'
    BY <1>1, <1>2, <1>4 DEF AfterResolution
  <1>5. ASSUME ~\E u \in Tasks : ClearPending(u) \/ AfterResolution(u)
        PROVE  t \in pendingMerges'
    BY <1>2, <1>5 DEF Next, CompletionStep, DispatchStep, vars, redisVars, WorkerCompletes,
       Record, Announce, MergeBranch, AddCoordinator, ResolveConflict,
       CoordinatorFails, ReadyDependent, PassOver, Snapshot, Dispatch, EndDispatch, Check,
       Promote
  <1>. QED
    BY <1>3, <1>4, <1>5

LEMMA GateKept ==
    ASSUME TypeOK, Places, GateInv, [Next]_vars
    PROVE  GateInv'
  <1>1. \A t \in Tasks : pc'[t] = "conflicted" => t \in pendingMerges'
    BY ConflictedStays DEF GateInv
  <1>2. graph' = "active" => \A t \in completed' : t \in integrated' \/ Held(t)'
    BY StaysHeld, EndsStay DEF GateInv
  <1>3. Ending' => \A t \in Tasks : status'[t] = "completed"
    BY EndsStay, EndingBegins DEF GateInv
  <1>. QED
    BY <1>1, <1>2, <1>3 DEF GateInv

\* What the gate lets through is in place or in its window.
LEMMA GateReads ==
    ASSUME TypeOK, Places, GateInv, graph = "active", NEW d \in Tasks, MayStart(d)
    PROVE  \A t \in Deps[d] : t \in integrated \/ InWindow(t)
  <1> SUFFICES ASSUME NEW t \in Deps[d], t \notin integrated PROVE InWindow(t)
    OBVIOUS
  <1>1. t \in Tasks /\ t \in completed /\ t \notin pendingMerges
        /\ status[Coordinator(t)] \in {"absent", "completed"}
    BY GateAssumption DEF MayStart
  <1>2. Held(t)
    BY <1>1 DEF GateInv
  <1>. QED
    BY <1>1, <1>2 DEF Held, InWindow, Places, GateInv

LEMMA StepMissesOnlyWindows ==
    ASSUME TypeOK, Places, GateInv, [Next]_vars
    PROVE  MissesOnlyWindows
  <1> USE CoordinatorsAreApart DEF At
  <1>1. ASSUME NEW d \in Tasks, status[d] = "pending", status'[d] # "pending"
        PROVE  \A t \in Deps[d] : t \in integrated \/ InWindow(t)
    <2>1. \E i \in Ids, u \in Tasks : ReadyDependent(i, u) /\ MayStart(d)
      <3>1. ASSUME NEW u \in Tasks, AddCoordinator(u) PROVE FALSE
        BY <1>1, <3>1 DEF AddCoordinator, TypeOK
      <3>2. ASSUME NEW i \in Ids, NEW u \in Tasks, ReadyDependent(i, u) PROVE MayStart(d)
        BY <1>1, <3>2 DEF ReadyDependent, TypeOK
      <3>3. ASSUME ~\E u \in Tasks : AddCoordinator(u),
                   ~\E i \in Ids, u \in Tasks : ReadyDependent(i, u)
            PROVE  FALSE
        BY <1>1, <3>3 DEF Next, CompletionStep, DispatchStep, vars, redisVars, WorkerCompletes,
           Record, Announce, MergeBranch, ClearPending, ResolveConflict, AfterResolution,
           CoordinatorFails, PassOver, Snapshot, Dispatch, EndDispatch, Check, Promote, TypeOK
      <3>. QED
        BY <3>1, <3>2, <3>3
    <2>2. graph = "active"
      BY <1>1 DEF GateInv, Ending
    <2>. QED
      BY <2>1, <2>2, GateReads
  <1>2. ASSUME ~resolution, resolution', NEW t \in Tasks,
               t \notin integrated, ~InWindow(t), pc[t] # "record"
        PROVE  status[Coordinator(t)] \in {"ready", "running", "failed"}
    <2>1. \E i \in Ids : Check(i)
      BY <1>2 DEF Next, CompletionStep, DispatchStep, vars, redisVars, WorkerCompletes, Record,
         Announce, MergeBranch, ClearPending, AddCoordinator, ResolveConflict, AfterResolution,
         CoordinatorFails, ReadyDependent, PassOver, Snapshot, Dispatch, EndDispatch, Promote
    <2>2. graph = "active" /\ pendingMerges = {} /\ Ending
      BY <1>2, <2>1 DEF Check, Ending
    <2>3. t \in completed
      BY <1>2, <2>2 DEF GateInv, Places
    <2>4. Held(t)
      BY <1>2, <2>2, <2>3 DEF GateInv
    <2>. QED
      BY <1>2, <2>2, <2>4 DEF Held, InWindow, Places, GateInv
  <1>. QED
    BY <1>1, <1>2 DEF MissesOnlyWindows

-----------------------------------------------------------------------------
LEMMA StepInv == MInv /\ [Next]_vars => MInv'
  BY StepTypes, PlacesKept, AloneKept, JobsKept, PromotionKept, WholeKept DEF MInv

LEMMA Invariance == Spec => []MInv
  BY InitInv, StepInv, PTL DEF Spec

\* For every graph, whatever merges conflict or fail and whatever coordinators do: while
\* completions are handled one at a time, a task runs only from an integration branch
\* that holds the work of each of its dependencies.
THEOREM GateAlwaysHoldsAlone == Spec => []GateHoldsAlone
  <1>1. MInv => GateHoldsAlone
    BY DEF MInv, AloneInv, InPlace, GateHoldsAlone, StartsOnIntegrated
  <1>. QED
    BY <1>1, Invariance, PTL

\* And what it promotes holds the work of every task, unless a coordinator has failed.
THEOREM AlwaysPromotesEverythingAlone == Spec => []PromotesEverythingAlone
  <1>1. MInv => PromotesEverythingAlone
    BY DEF MInv
  <1>. QED
    BY <1>1, Invariance, PTL

\* However many handlers overlap, a graph is promoted once and, without a
\* maxConcurrency, a task gets one Job.
THEOREM NothingIsDoneTwice == Spec => []NothingTwice
  <1>1. MInv => NothingTwice
    BY DEF MInv, JobsInv, PromotionInv, NothingTwice, DispatchedOnce, PromotedOnce
  <1>. QED
    BY <1>1, Invariance, PTL

\* For every graph, limit, conflict and merge error, and however many handlers overlap:
\* what the gate misses is in one of the windows InWindow names.
THEOREM GateAlwaysMissesOnlyWindows == Spec => GateMissesOnlyWindows
  <1>1. Init => GateInv
    BY CoordinatorsAreApart DEF Init, GateInv, Ending
  <1>2. MInv /\ GateInv /\ [Next]_vars => GateInv'
    BY GateKept DEF MInv
  <1>3. MInv /\ GateInv /\ [Next]_vars => [MissesOnlyWindows]_vars
    BY StepMissesOnlyWindows DEF MInv
  <1>. QED
    BY <1>1, <1>2, <1>3, Invariance, PTL DEF Spec, GateMissesOnlyWindows

-----------------------------------------------------------------------------
(* And nothing is forgotten *)

\* A handler that has yet to read whether every task has ended.
BeforeReading ==
    {"record", "announce", "merge", "merged", "conflicted", "coordinate",
     "resolve", "resolved", "unresolved", "scan", "snapshot"}

\* Somebody will look whether d may start after the work of t: its handler, or, when its
\* merge has conflicted, the handler of its coordinator.
StillToLook(t, d) ==
    \/ status[t] # "completed"
    \/ pc[t] \in BeforeCoordinator
    \/ pc[t] = "scan" /\ d \in todo[t]
    \/ t \in pendingMerges
    \/ status[Coordinator(t)] \in {"ready", "running", "failed"}
    \/ pc[Coordinator(t)] \in {"record", "resolve", "resolved", "unresolved"}
    \/ pc[Coordinator(t)] = "scan" /\ d \in todo[Coordinator(t)]

\* What has ended has a handler, which takes its merge to pending_merges.
HandledInv ==
    /\ \A i \in Ids : pc[i] = "idle" => status[i] \notin {"completed", "failed"}
    /\ \A t \in pendingMerges : pc[t] # "idle"
    /\ \A t \in Tasks : status[Coordinator(t)] # "pending"

\* A waiting dependent has somebody still to look at it, and its lock is free.
WaitInv ==
    \A d \in Tasks : status[d] = "pending" =>
        d \notin locks /\ \E t \in Deps[d] : StillToLook(t, d)

\* Without a maxConcurrency, a ready task is about to be dispatched.
ReadyInv ==
    maxConcurrency = 0 =>
        /\ \A i \in Ids : status[i] = "ready" =>
              \E k \in Ids : i \in newlyReady[k] /\ pc[k] \in {"scan", "dispatch"}
        /\ \A k \in Ids : pc[k] = "dispatch" => Cardinality(newlyReady[k]) <= cached[k].slots

\* One handler at a time has only ready tasks in its newlyReady, so that none of its
\* dispatches throws.
QueueInv ==
    limit = 1 => \A k \in Ids : \A t \in newlyReady[k] :
                    status[t] = "ready" /\ pc[k] \in {"scan", "dispatch"}

\* And a ready task that found no slot waits for a running one to end, whose handler picks
\* it up: or an operator is needed for a coordinator.
ServedInv ==
    limit = 1 /\ maxConcurrency # 0 =>
        \/ \A i \in Ids : status[i] # "ready"
        \/ \E i \in Ids : \/ status[i] = "running"
                          \/ pc[i] \in BeforeReading \ {"snapshot"}
                          \/ /\ pc[i] = "dispatch" /\ cached[i].slots > 0
                             /\ \A r \in Ids : status[r] = "ready" => r \in newlyReady[i]
        \/ \E t \in Tasks : status[Coordinator(t)] = "failed"

\* Somebody is to end an active graph: work to do, a merge pending, a handler that has
\* yet to read the tasks or has read that they ended.
EndInv ==
    /\ resolution /\ graph = "active" => \E i \in Ids : pc[i] = "promote"
    /\ Tasks # {} /\ (maxConcurrency = 0 \/ limit = 1) /\ graph = "active" =>
          \/ pendingMerges # {}
          \/ \E i \in Ids : \/ status[i] \notin {"absent", "completed", "failed"}
                            \/ pc[i] \in BeforeReading \cup {"promote"}
                            \/ pc[i] \in {"dispatch", "check"} /\ cached[i].terminal

LEMMA HandledKept ==
    ASSUME TypeOK, Places, HandledInv, [Next]_vars
    PROVE  HandledInv'
  <1> USE CoordinatorsAreApart DEF TypeOK, Places, HandledInv, At, Goto, BeforeCoordinator
  <1>1. ASSUME NEW i \in Ids, WorkerCompletes(i) PROVE HandledInv'
    BY <1>1 DEF WorkerCompletes, redisVars, gitVars, settings
  <1>2. ASSUME NEW i \in Ids, Record(i) PROVE HandledInv'
    BY <1>2 DEF Record, redisVars, gitVars, settings
  <1>3. ASSUME NEW t \in Tasks, Announce(t) PROVE HandledInv'
    BY <1>3 DEF Announce, redisVars, gitVars, settings
  <1>4. ASSUME NEW t \in Tasks, MergeBranch(t) PROVE HandledInv'
    BY <1>4 DEF MergeBranch, redisVars, gitVars, settings
  <1>5. ASSUME NEW t \in Tasks, ClearPending(t) PROVE HandledInv'
    BY <1>5 DEF ClearPending, redisVars, gitVars, settings
  <1>6. ASSUME NEW t \in Tasks, AddCoordinator(t) PROVE HandledInv'
    BY <1>6 DEF AddCoordinator, redisVars, gitVars, settings
  <1>7. ASSUME NEW t \in Tasks, ResolveConflict(t) PROVE HandledInv'
    BY <1>7 DEF ResolveConflict, redisVars, gitVars, settings
  <1>8. ASSUME NEW t \in Tasks, AfterResolution(t) PROVE HandledInv'
    BY <1>8 DEF AfterResolution, redisVars, gitVars, settings
  <1>9. ASSUME NEW t \in Tasks, CoordinatorFails(t) PROVE HandledInv'
    BY <1>9 DEF CoordinatorFails, redisVars, gitVars, settings
  <1>10. ASSUME NEW i \in Ids, NEW d \in Tasks, ReadyDependent(i, d) PROVE HandledInv'
    BY <1>10 DEF ReadyDependent, redisVars, gitVars, settings
  <1>11. ASSUME NEW i \in Ids, NEW d \in Tasks, PassOver(i, d) PROVE HandledInv'
    BY <1>11 DEF PassOver, redisVars, gitVars, settings
  <1>12. ASSUME NEW i \in Ids, Snapshot(i) PROVE HandledInv'
    BY <1>12 DEF Snapshot, redisVars, gitVars, settings
  <1>13. ASSUME NEW i \in Ids, NEW t \in Ids, Dispatch(i, t) PROVE HandledInv'
    BY <1>13 DEF Dispatch, redisVars, gitVars, settings
  <1>14. ASSUME NEW i \in Ids, EndDispatch(i) PROVE HandledInv'
    BY <1>14 DEF EndDispatch, redisVars, gitVars, settings
  <1>15. ASSUME NEW i \in Ids, Check(i) PROVE HandledInv'
    BY <1>15 DEF Check, redisVars, gitVars, settings
  <1>16. ASSUME NEW i \in Ids, Promote(i) PROVE HandledInv'
    BY <1>16 DEF Promote, redisVars, gitVars, settings
  <1>17. CASE UNCHANGED vars
    BY <1>17 DEF vars, redisVars, gitVars, settings, handlerVars
  <1>. QED
    BY <1>1, <1>2, <1>3, <1>4, <1>5, <1>6, <1>7, <1>8, <1>9, <1>10, <1>11, <1>12, <1>13, <1>14,
       <1>15, <1>16, <1>17
       DEF Next, CompletionStep, DispatchStep

LEMMA ScannedBoth ==
    ASSUME NEW d \in Tasks, NEW t \in Deps[d]
    PROVE  t \in Tasks /\ d \in Dependents(t) /\ d \in Scanned(Coordinator(t))
  <1>1. t \in Tasks
    BY GateAssumption
  <1>. QED
    BY <1>1, CoordinatorsAreApart DEF Dependents, Scanned

LEMMA LookKept ==
    ASSUME TypeOK, Places, HandledInv, [Next]_vars,
           NEW x \in Tasks, NEW d \in Tasks, x \in Deps[d], StillToLook(x, d),
           status'[d] = "pending", \A i \in Ids : ~PassOver(i, d)
    PROVE  StillToLook(x, d)'
  <1>a. /\ d \in Dependents(x) /\ d \in Scanned(Coordinator(x))
        /\ Coordinator(x) \in Ids /\ Coordinator(x) \notin Tasks /\ x \in Ids
        /\ Tasks \subseteq Ids
        /\ \A u \in Tasks : Coordinator(u) \in Ids /\ (Coordinator(u) = Coordinator(x) => u = x)
    BY ScannedBoth, CoordinatorsAreApart
  <1>b. /\ pc \in [Ids -> Steps] /\ todo \in [Ids -> SUBSET Tasks]
        /\ status \in [Ids -> {"absent", "pending", "ready", "running", "completed", "failed"}]
    BY DEF TypeOK
  <1> USE <1>a, <1>b DEF StillToLook, At, Goto, BeforeCoordinator
  <1>1. ASSUME NEW i \in Ids, WorkerCompletes(i) PROVE StillToLook(x, d)'
    BY <1>1 DEF WorkerCompletes, redisVars, gitVars, settings
  <1>2. ASSUME NEW i \in Ids, Record(i) PROVE StillToLook(x, d)'
    BY <1>2 DEF Record, redisVars, gitVars, settings
  <1>3. ASSUME NEW t \in Tasks, Announce(t) PROVE StillToLook(x, d)'
    BY <1>3 DEF Announce, redisVars, gitVars, settings
  <1>4. ASSUME NEW t \in Tasks, MergeBranch(t) PROVE StillToLook(x, d)'
    BY <1>4 DEF MergeBranch, redisVars, gitVars, settings
  <1>5. ASSUME NEW t \in Tasks, ClearPending(t) PROVE StillToLook(x, d)'
    BY <1>5 DEF ClearPending, redisVars, gitVars, settings
  <1>6. ASSUME NEW t \in Tasks, AddCoordinator(t) PROVE StillToLook(x, d)'
    BY <1>6 DEF AddCoordinator, redisVars, gitVars, settings
  <1>7. ASSUME NEW t \in Tasks, ResolveConflict(t) PROVE StillToLook(x, d)'
    BY <1>7 DEF ResolveConflict, redisVars, gitVars, settings
  <1>8. ASSUME NEW t \in Tasks, AfterResolution(t) PROVE StillToLook(x, d)'
    BY <1>8 DEF AfterResolution, redisVars, gitVars, settings
  <1>9. ASSUME NEW t \in Tasks, CoordinatorFails(t) PROVE StillToLook(x, d)'
    BY <1>9 DEF CoordinatorFails, redisVars, gitVars, settings
  <1>10. ASSUME NEW i \in Ids, NEW u \in Tasks, ReadyDependent(i, u) PROVE StillToLook(x, d)'
    <2>1. d # u
      BY <1>10 DEF ReadyDependent
    <2>2. UNCHANGED <<completed, pendingMerges, pc>>
      BY <1>10 DEF ReadyDependent
    <2>3. /\ \A k \in Ids : d \in todo[k] => d \in todo'[k]
          /\ \A k \in Ids : k # u => status'[k] = status[k]
          /\ status'[u] = "ready"
      BY <1>10, <2>1 DEF ReadyDependent
    <2>. QED
      BY <2>2, <2>3
  <1>11. ASSUME NEW i \in Ids, NEW u \in Tasks, PassOver(i, u) PROVE StillToLook(x, d)'
    BY <1>11 DEF PassOver, redisVars, gitVars, settings
  <1>12. ASSUME NEW i \in Ids, Snapshot(i) PROVE StillToLook(x, d)'
    BY <1>12 DEF Snapshot, redisVars, gitVars, settings
  <1>13. ASSUME NEW i \in Ids, NEW t \in Ids, Dispatch(i, t) PROVE StillToLook(x, d)'
    BY <1>13 DEF Dispatch, redisVars, gitVars, settings
  <1>14. ASSUME NEW i \in Ids, EndDispatch(i) PROVE StillToLook(x, d)'
    BY <1>14 DEF EndDispatch, redisVars, gitVars, settings
  <1>15. ASSUME NEW i \in Ids, Check(i) PROVE StillToLook(x, d)'
    BY <1>15 DEF Check, redisVars, gitVars, settings
  <1>16. ASSUME NEW i \in Ids, Promote(i) PROVE StillToLook(x, d)'
    BY <1>16 DEF Promote, redisVars, gitVars, settings
  <1>17. CASE UNCHANGED vars
    BY <1>17 DEF vars, redisVars, gitVars, settings, handlerVars
  <1> HIDE DEF StillToLook, At, Goto, BeforeCoordinator
  <1>. QED
    BY <1>1, <1>2, <1>3, <1>4, <1>5, <1>6, <1>7, <1>8, <1>9, <1>10, <1>11, <1>12, <1>13, <1>14,
       <1>15, <1>16, <1>17
       DEF Next, CompletionStep, DispatchStep

\* A handler passes a dependent over only for something that is still to happen.
LEMMA PassedOver ==
    ASSUME TypeOK, Places, HandledInv, WaitInv, NEW i \in Ids, NEW d \in Tasks, PassOver(i, d),
           status[d] = "pending"
    PROVE  \E t \in Deps[d] : StillToLook(t, d)'
  <1>1. ~MayStart(d)
    BY DEF PassOver, WaitInv
  <1>2. PICK t \in Deps[d] : \/ t \notin completed \/ t \in pendingMerges
                              \/ status[Coordinator(t)] \notin {"absent", "completed"}
    BY <1>1 DEF MayStart
  <1>3. /\ t \in Tasks /\ Coordinator(t) \in Ids /\ t \in Ids
        /\ status[Coordinator(t)] \in {"absent", "ready", "running", "completed", "failed"}
    BY ScannedBoth, CoordinatorsAreApart DEF TypeOK, HandledInv
  <1>4. \/ status[t] # "completed" \/ pc[t] = "record" \/ t \in pendingMerges
        \/ status[Coordinator(t)] \in {"ready", "running", "failed"}
    BY <1>2, <1>3 DEF Places
  <1>5. UNCHANGED <<pc, pendingMerges, status>>
    BY DEF PassOver, redisVars
  <1>. QED
    BY <1>4, <1>5 DEF StillToLook, BeforeCoordinator

LEMMA WaitKept ==
    ASSUME TypeOK, Places, HandledInv, WaitInv, [Next]_vars
    PROVE  WaitInv'
  <1> SUFFICES ASSUME NEW d \in Tasks, status'[d] = "pending"
               PROVE  d \notin locks' /\ \E t \in Deps[d] : StillToLook(t, d)'
    BY DEF WaitInv
  <1>1. status[d] = "pending" /\ (d \in locks' => d \in locks)
    <2> USE CoordinatorsAreApart DEF TypeOK
    <2>1. ASSUME NEW u \in Tasks, AddCoordinator(u) PROVE status[d] = "pending" /\ locks' = locks
      BY <2>1 DEF AddCoordinator
    <2>2. ASSUME NEW i \in Ids, NEW u \in Tasks, ReadyDependent(i, u)
          PROVE  status[d] = "pending" /\ (d \in locks' => d \in locks)
      BY <2>2 DEF ReadyDependent
    <2>3. ASSUME ~\E u \in Tasks : AddCoordinator(u),
                 ~\E i \in Ids, u \in Tasks : ReadyDependent(i, u)
          PROVE  status[d] = "pending" /\ locks' = locks
      BY <2>3 DEF Next, CompletionStep, DispatchStep, vars, redisVars, WorkerCompletes,
         Record, Announce, MergeBranch, ClearPending, ResolveConflict, AfterResolution,
         CoordinatorFails, PassOver, Snapshot, Dispatch, EndDispatch, Check, Promote
    <2>. QED
      BY <2>1, <2>2, <2>3
  <1>2. d \notin locks /\ \E t \in Deps[d] : t \in Tasks /\ StillToLook(t, d)
    BY <1>1, ScannedBoth DEF WaitInv
  <1>3. CASE \E i \in Ids : PassOver(i, d)
    BY <1>1, <1>2, <1>3, PassedOver
  <1>4. CASE \A i \in Ids : ~PassOver(i, d)
    BY <1>1, <1>2, <1>4, LookKept
  <1>. QED
    BY <1>3, <1>4

\* Without a maxConcurrency there is a slot for every id.
LEMMA SlotsForAll ==
    ASSUME TypeOK, maxConcurrency = 0
    PROVE  /\ FreeSlots = Cardinality(Ids) /\ IsFiniteSet(Ids) /\ Cardinality(Ids) \in Nat
           /\ \A t \in Ids : FreeSlots > 0
           /\ \A S \in SUBSET Ids : IsFiniteSet(S) /\ Cardinality(S) \in Nat
                                   /\ Cardinality(S) <= Cardinality(Ids)
  <1>1. FreeSlots = Cardinality(Ids)
    BY DEF FreeSlots
  <1>2. IsFiniteSet(Ids) /\ Cardinality(Ids) \in Nat
    BY IdsAreFinite, FS_CardinalityType
  <1>3. \A S \in SUBSET Ids : IsFiniteSet(S) /\ Cardinality(S) \in Nat
                              /\ Cardinality(S) <= Cardinality(Ids)
    BY <1>2, FS_Subset, FS_CardinalityType
  <1>4. ASSUME NEW t \in Ids PROVE Cardinality(Ids) > 0
    BY <1>2, <1>4, FS_EmptySet
  <1>. QED
    BY <1>1, <1>2, <1>3, <1>4

\* With one, no slot is free only while a task runs.
LEMMA NoSlotMeansRunning ==
    ASSUME TypeOK, maxConcurrency # 0, ~(FreeSlots > 0)
    PROVE  \E k \in Ids : status[k] = "running"
  <1> DEFINE R == {k \in Ids : status[k] = "running"}
  <1>1. IsFiniteSet(R) /\ Cardinality(R) \in Nat
    BY IdsAreFinite, FS_Subset, FS_CardinalityType
  <1>2. maxConcurrency \in Nat /\ maxConcurrency > 0
    BY GateAssumption DEF TypeOK
  <1>3. FreeSlots = IF Cardinality(R) >= maxConcurrency THEN 0 ELSE maxConcurrency - Cardinality(R)
    BY DEF FreeSlots
  <1> HIDE DEF R
  <1>4. Cardinality(R) > 0
    BY <1>1, <1>2, <1>3
  <1>5. R # {}
    BY <1>4, FS_EmptySet
  <1>. QED
    BY <1>5 DEF R

LEMMA ReadyKept ==
    ASSUME TypeOK, Places, JobsInv, ReadyInv, [Next]_vars
    PROVE  ReadyInv'
  <1> DEFINE Soon == \A i \in Ids : status[i] = "ready" =>
                        \E k \in Ids : i \in newlyReady[k] /\ pc[k] \in {"scan", "dispatch"}
             Room == \A k \in Ids :
                        pc[k] = "dispatch" => Cardinality(newlyReady[k]) <= cached[k].slots
  <1>0. maxConcurrency' = maxConcurrency
    BY DEF Next, CompletionStep, DispatchStep, vars, settings, WorkerCompletes, Record,
       Announce, MergeBranch, ClearPending, AddCoordinator, ResolveConflict, AfterResolution,
       CoordinatorFails, ReadyDependent, PassOver, Snapshot, Dispatch, EndDispatch, Check,
       Promote
  <1> SUFFICES ASSUME maxConcurrency = 0 PROVE Soon' /\ Room'
    BY <1>0 DEF ReadyInv
  <1>a. Soon /\ Room
    BY DEF ReadyInv
  <1>b. /\ Tasks \subseteq Ids
        /\ \A u \in Tasks : Coordinator(u) \in Ids /\ Coordinator(u) \notin Tasks
        /\ pc \in [Ids -> Steps] /\ newlyReady \in [Ids -> SUBSET Ids]
        /\ status \in [Ids -> {"absent", "pending", "ready", "running", "completed", "failed"}]
        /\ cached \in [Ids -> [terminal : BOOLEAN, slots : Nat]]
    BY CoordinatorsAreApart DEF TypeOK
  \* Most steps move one handler outside its scan and dispatch, and ready nothing.
  <1>c. ASSUME UNCHANGED <<newlyReady, cached>>,
               \A i \in Ids : status'[i] = "ready" => status[i] = "ready",
               \A k \in Ids : \/ pc'[k] = pc[k]
                              \/ pc[k] \notin {"scan", "dispatch"} /\ pc'[k] # "dispatch"
        PROVE  Soon' /\ Room'
    BY <1>a, <1>c
  <1> HIDE DEF Soon, Room
  <1>1. ASSUME NEW i \in Ids, WorkerCompletes(i) \/ Record(i) \/ Check(i) \/ Promote(i)
        PROVE  Soon' /\ Room'
    <2>1. /\ UNCHANGED <<newlyReady, cached>>
          /\ \A k \in Ids : status'[k] = "ready" => status[k] = "ready"
      BY <1>1, <1>b DEF WorkerCompletes, Record, Check, Promote, redisVars
    <2>2. \A k \in Ids : \/ pc'[k] = pc[k]
                         \/ pc[k] \notin {"scan", "dispatch"} /\ pc'[k] # "dispatch"
      BY <1>1, <1>b DEF WorkerCompletes, Record, Check, Promote, At, Goto
    <2>. QED
      BY <1>c, <2>1, <2>2
  <1>2. ASSUME NEW t \in Tasks,
               \/ Announce(t) \/ MergeBranch(t) \/ ClearPending(t) \/ ResolveConflict(t)
               \/ AfterResolution(t) \/ CoordinatorFails(t)
        PROVE  Soon' /\ Room'
    <2>1. /\ UNCHANGED <<newlyReady, cached>>
          /\ \A k \in Ids : status'[k] = "ready" => status[k] = "ready"
      BY <1>2, <1>b DEF Announce, MergeBranch, ClearPending, ResolveConflict, AfterResolution,
         CoordinatorFails, redisVars
    <2>2. \A k \in Ids : \/ pc'[k] = pc[k]
                         \/ pc[k] \notin {"scan", "dispatch"} /\ pc'[k] # "dispatch"
      BY <1>2, <1>b DEF Announce, MergeBranch, ClearPending, ResolveConflict, AfterResolution,
         CoordinatorFails, At, Goto
    <2>. QED
      BY <1>c, <2>1, <2>2
  <1>3. ASSUME NEW t \in Tasks, AddCoordinator(t) PROVE Soon' /\ Room'
    <2>1. FreeSlots > 0
      BY <1>b, SlotsForAll
    <2>2. /\ UNCHANGED <<newlyReady, cached>>
          /\ \A k \in Ids : status'[k] = "ready" => status[k] = "ready"
      BY <1>3, <1>b, <2>1 DEF AddCoordinator
    <2>3. \A k \in Ids : \/ pc'[k] = pc[k]
                         \/ pc[k] \notin {"scan", "dispatch"} /\ pc'[k] # "dispatch"
      BY <1>3, <1>b DEF AddCoordinator, At, Goto
    <2>. QED
      BY <1>c, <2>2, <2>3
  <1>4. ASSUME NEW i \in Ids, NEW d \in Tasks, ReadyDependent(i, d) PROVE Soon' /\ Room'
    <2>1. /\ pc' = pc /\ cached' = cached /\ pc[i] = "scan"
          /\ status' = [status EXCEPT ![d] = "ready"]
          /\ newlyReady' = [newlyReady EXCEPT ![i] = @ \cup {d}]
      BY <1>4 DEF ReadyDependent, At
    <2>2. \A k \in Ids : /\ newlyReady[k] \subseteq newlyReady'[k]
                         /\ k # i => newlyReady'[k] = newlyReady[k]
      BY <1>b, <2>1
    <2>3. d \in newlyReady'[i]
      BY <1>b, <2>1
    <2>4. Soon'
      BY <1>a, <1>b, <2>1, <2>2, <2>3 DEF Soon
    <2>5. Room'
      BY <1>a, <2>1, <2>2 DEF Room
    <2>. QED
      BY <2>4, <2>5
  <1>5. ASSUME NEW i \in Ids, NEW d \in Tasks, PassOver(i, d) PROVE Soon' /\ Room'
    BY <1>c, <1>5 DEF PassOver, redisVars
  <1>6. ASSUME NEW i \in Ids, Snapshot(i) PROVE Soon' /\ Room'
    <2>1. /\ status' = status /\ pc' = [pc EXCEPT ![i] = "dispatch"]
          /\ pc[i] \in {"scan", "snapshot"}
          /\ cached' = [cached EXCEPT ![i] = [terminal |-> Terminal(status), slots |-> FreeSlots]]
      BY <1>6 DEF Snapshot, At, Goto, redisVars
    <2>2. newlyReady' = [newlyReady EXCEPT ![i] = @ \cup {}]
      BY <1>6 DEF Snapshot
    <2>3. newlyReady' = newlyReady
      BY <1>b, <2>2
    <2>4. Soon'
      BY <1>a, <1>b, <2>1, <2>3 DEF Soon
    <2>5. Cardinality(newlyReady[i]) <= cached'[i].slots
      <3>1. cached'[i].slots = FreeSlots
        BY <1>b, <2>1
      <3>. QED
        BY <1>b, <3>1, SlotsForAll
    <2>6. Room'
      BY <1>a, <1>b, <2>1, <2>3, <2>5 DEF Room
    <2>. QED
      BY <2>4, <2>6
  <1>7. ASSUME NEW i \in Ids, NEW t \in Ids, Dispatch(i, t) PROVE Soon' /\ Room'
    <2>1. /\ pc' = pc /\ pc[i] = "dispatch" /\ t \in newlyReady[i]
          /\ status' = [status EXCEPT ![t] = "running"]
          /\ newlyReady' = [newlyReady EXCEPT ![i] = @ \ {t}]
          /\ cached' = [cached EXCEPT ![i] = [terminal |-> @.terminal, slots |-> @.slots - 1]]
      BY <1>7 DEF Dispatch, At
    <2>2. Soon'
      BY <1>a, <1>b, <2>1 DEF Soon
    <2>3. Cardinality(newlyReady[i] \ {t}) <= cached[i].slots - 1
      <3>1. Cardinality(newlyReady[i] \ {t}) = Cardinality(newlyReady[i]) - 1
        BY <1>b, <2>1, SlotsForAll, FS_RemoveElement
      <3>2. Cardinality(newlyReady[i]) \in Nat /\ cached[i].slots \in Nat
        BY <1>b, SlotsForAll
      <3>3. Cardinality(newlyReady[i]) <= cached[i].slots
        BY <1>a, <2>1 DEF Room
      <3>. QED
        BY <3>1, <3>2, <3>3
    <2>4. /\ newlyReady'[i] = newlyReady[i] \ {t} /\ cached'[i].slots = cached[i].slots - 1
          /\ \A k \in Ids : k # i => newlyReady'[k] = newlyReady[k] /\ cached'[k] = cached[k]
      BY <1>b, <2>1
    <2>5. Room'
      BY <1>a, <2>1, <2>3, <2>4 DEF Room
    <2>. QED
      BY <2>2, <2>5
  <1>8. ASSUME NEW i \in Ids, EndDispatch(i) PROVE Soon' /\ Room'
    <2>1. /\ status' = status /\ cached' = cached /\ pc[i] = "dispatch"
          /\ newlyReady' = [newlyReady EXCEPT ![i] = {}]
          /\ \A k \in Ids : k # i => pc'[k] = pc[k]
          /\ pc'[i] \in {"check", "done"}
      BY <1>8, <1>b DEF EndDispatch, redisVars, At, Goto
    <2>2. \A u \in newlyReady[i] : status[u] = "ready"
      BY DEF JobsInv
    <2>3. newlyReady[i] = {}
      <3>1. newlyReady[i] = {} \/ cached[i].slots = 0
        BY <1>8, <2>2 DEF EndDispatch
      <3>2. Cardinality(newlyReady[i]) <= cached[i].slots
        BY <1>a, <2>1 DEF Room
      <3>3. IsFiniteSet(newlyReady[i]) /\ Cardinality(newlyReady[i]) \in Nat
        BY <1>b, SlotsForAll
      <3>4. cached[i].slots = 0 => Cardinality(newlyReady[i]) = 0
        BY <3>2, <3>3
      <3>. QED
        BY <3>1, <3>3, <3>4, FS_EmptySet
    <2>4. newlyReady' = newlyReady
      BY <1>b, <2>1, <2>3
    <2>5. Soon'
      BY <1>a, <2>1, <2>3, <2>4 DEF Soon
    <2>6. Room'
      BY <1>a, <2>1, <2>4 DEF Room
    <2>. QED
      BY <2>5, <2>6
  <1>9. CASE UNCHANGED vars
    BY <1>c, <1>9 DEF vars, redisVars, handlerVars
  <1>. QED
    BY <1>1, <1>2, <1>3, <1>4, <1>5, <1>6, <1>7, <1>8, <1>9, <1>b
       DEF Next, CompletionStep, DispatchStep

LEMMA QueueKept ==
    ASSUME TypeOK, Places, AloneInv, QueueInv, [Next]_vars
    PROVE  QueueInv'
  <1> DEFINE Busy(k) == pc[k] \in {"scan", "dispatch"}
  <1>a. /\ Tasks \subseteq Ids
        /\ \A u \in Tasks : Coordinator(u) \in Ids
        /\ pc \in [Ids -> Steps] /\ newlyReady \in [Ids -> SUBSET Ids]
        /\ status \in [Ids -> {"absent", "pending", "ready", "running", "completed", "failed"}]
    BY CoordinatorsAreApart DEF TypeOK
  <1>0. limit' = limit
    BY DEF Next, CompletionStep, DispatchStep, vars, settings, WorkerCompletes, Record,
       Announce, MergeBranch, ClearPending, AddCoordinator, ResolveConflict, AfterResolution,
       CoordinatorFails, ReadyDependent, PassOver, Snapshot, Dispatch, EndDispatch, Check,
       Promote
  <1> SUFFICES ASSUME limit = 1
               PROVE  \A k \in Ids : \A t \in newlyReady'[k] : status'[t] = "ready" /\ Busy(k)'
    BY <1>0 DEF QueueInv
  <1>b. \A k \in Ids : \A t \in newlyReady[k] : status[t] = "ready" /\ Busy(k) /\ t \in Ids
    BY <1>a DEF QueueInv
  \* Until the scan a handler readies nothing and leaves the ready tasks ready.
  <1>1. ASSUME \/ \E i \in Ids : WorkerCompletes(i)
               \/ \E t \in Tasks : CompletionStep(t) \/ CoordinatorFails(t)
        PROVE  \A k \in Ids : \A t \in newlyReady'[k] : status'[t] = "ready" /\ Busy(k)'
    <2>1. newlyReady' = newlyReady
      BY <1>1 DEF CompletionStep, WorkerCompletes, Record, Announce, MergeBranch, ClearPending,
         AddCoordinator, ResolveConflict, AfterResolution, CoordinatorFails, redisVars
    <2>2. \A k \in Ids : Busy(k) => Busy(k)'
      BY <1>a, <1>1
         DEF CompletionStep, WorkerCompletes, Record, Announce, MergeBranch, ClearPending,
             AddCoordinator, ResolveConflict, AfterResolution, CoordinatorFails, At, Goto
    <2>3. \A k \in Ids : status[k] = "ready" => status'[k] = "ready"
      <3>1. ASSUME NEW t \in Tasks, AddCoordinator(t)
            PROVE  \A k \in Ids : status[k] = "ready" => status'[k] = "ready"
        BY <1>a, <3>1 DEF AddCoordinator, At, Places, BeforeCoordinator
      <3>. QED
        BY <1>a, <1>1, <3>1
           DEF CompletionStep, WorkerCompletes, Record, Announce, MergeBranch, ClearPending,
               ResolveConflict, AfterResolution, CoordinatorFails, redisVars
    <2>. QED
      BY <1>b, <2>1, <2>2, <2>3
  <1>2. ASSUME NEW i \in Ids, NEW d \in Tasks, ReadyDependent(i, d) \/ PassOver(i, d)
        PROVE  \A k \in Ids : \A t \in newlyReady'[k] : status'[t] = "ready" /\ Busy(k)'
    BY <1>a, <1>b, <1>2 DEF ReadyDependent, PassOver, redisVars, At
  <1>3. ASSUME NEW i \in Ids, Snapshot(i)
        PROVE  \A k \in Ids : \A t \in newlyReady'[k] : status'[t] = "ready" /\ Busy(k)'
    BY <1>a, <1>b, <1>3 DEF Snapshot, redisVars, At, Goto
  <1>4. ASSUME NEW i \in Ids, NEW t \in Ids, Dispatch(i, t)
        PROVE  \A k \in Ids : \A u \in newlyReady'[k] : status'[u] = "ready" /\ Busy(k)'
    <2>1. pc[i] = "dispatch" /\ pc' = pc
      BY <1>4 DEF Dispatch, At
    \* The others have returned, and left nothing to dispatch.
    <2>2. \A k \in Ids : k # i => newlyReady[k] = {}
      <3>1. \A k \in Ids : Busy(k) => k \in InFlight
        BY DEF InFlight
      <3>. QED
        BY <1>b, <2>1, <3>1 DEF AloneInv, OneAtATime
    <2>3. /\ \A k \in Ids : k # i => newlyReady'[k] = newlyReady[k]
          /\ newlyReady'[i] = newlyReady[i] \ {t}
          /\ \A u \in Ids : u # t => status'[u] = status[u]
      BY <1>a, <1>4 DEF Dispatch
    <2>. QED
      BY <1>b, <2>1, <2>2, <2>3
  <1>5. ASSUME NEW i \in Ids, EndDispatch(i)
        PROVE  \A k \in Ids : \A t \in newlyReady'[k] : status'[t] = "ready" /\ Busy(k)'
    BY <1>a, <1>b, <1>5 DEF EndDispatch, redisVars, Goto
  <1>6. ASSUME NEW i \in Ids, Check(i) \/ Promote(i)
        PROVE  \A k \in Ids : \A t \in newlyReady'[k] : status'[t] = "ready" /\ Busy(k)'
    BY <1>a, <1>b, <1>6 DEF Check, Promote, At, Goto
  <1>7. CASE UNCHANGED vars
    BY <1>b, <1>7 DEF vars, redisVars, handlerVars
  <1>. QED
    BY <1>1, <1>2, <1>3, <1>4, <1>5, <1>6, <1>7 DEF Next, DispatchStep

LEMMA ServedKept ==
    ASSUME TypeOK, QueueInv, ServedInv, [Next]_vars
    PROVE  ServedInv'
  <1> DEFINE None == \A i \in Ids : status[i] # "ready"
             Serves(i) == \/ status[i] = "running"
                          \/ pc[i] \in BeforeReading \ {"snapshot"}
                          \/ /\ pc[i] = "dispatch" /\ cached[i].slots > 0
                             /\ \A r \in Ids : status[r] = "ready" => r \in newlyReady[i]
             Failed == \E t \in Tasks : status[Coordinator(t)] = "failed"
             Served == None \/ (\E i \in Ids : Serves(i)) \/ Failed
  <1>a. /\ Tasks \subseteq Ids
        /\ \A u \in Tasks : Coordinator(u) \in Ids
        /\ pc \in [Ids -> Steps] /\ newlyReady \in [Ids -> SUBSET Ids]
        /\ cached \in [Ids -> [terminal : BOOLEAN, slots : Nat]]
        /\ status \in [Ids -> {"absent", "pending", "ready", "running", "completed", "failed"}]
    BY CoordinatorsAreApart DEF TypeOK
  <1>0. UNCHANGED settings
    BY DEF Next, CompletionStep, DispatchStep, vars, WorkerCompletes, Record,
       Announce, MergeBranch, ClearPending, AddCoordinator, ResolveConflict, AfterResolution,
       CoordinatorFails, ReadyDependent, PassOver, Snapshot, Dispatch, EndDispatch, Check,
       Promote
  <1> SUFFICES ASSUME limit = 1, maxConcurrency # 0 PROVE Served'
    BY <1>0 DEF ServedInv, settings
  <1>b. Served
    BY DEF ServedInv
  <1>c. \A k \in Ids : \A t \in newlyReady[k] : status[t] = "ready"
    BY DEF QueueInv
  \* A handler that has yet to read, or a task that runs, serves.
  <1>d. ASSUME NEW i \in Ids, pc'[i] \in BeforeReading \ {"snapshot"} \/ status'[i] = "running"
        PROVE  Served'
    BY <1>d
  <1>1. ASSUME NEW i \in Ids, WorkerCompletes(i) \/ Record(i) PROVE Served'
    <2>1. pc'[i] \in BeforeReading \ {"snapshot"}
      BY <1>a, <1>1 DEF WorkerCompletes, Record, Goto, BeforeReading
    <2>. QED
      BY <1>d, <2>1
  <1>2. ASSUME NEW t \in Tasks,
               \/ Announce(t) \/ MergeBranch(t) \/ ClearPending(t) \/ AddCoordinator(t)
        PROVE  Served'
    <2>1. pc'[t] \in BeforeReading \ {"snapshot"} /\ t \in Ids
      BY <1>a, <1>2
         DEF Announce, MergeBranch, ClearPending, AddCoordinator, Goto, BeforeReading
    <2>. QED
      BY <1>d, <2>1
  <1>3. ASSUME NEW t \in Tasks, ResolveConflict(t) \/ AfterResolution(t) PROVE Served'
    <2>1. pc'[Coordinator(t)] \in BeforeReading \ {"snapshot"} /\ Coordinator(t) \in Ids
      BY <1>a, <1>3 DEF ResolveConflict, AfterResolution, Goto, BeforeReading
    <2>. QED
      BY <1>d, <2>1
  <1>4. ASSUME NEW t \in Tasks, CoordinatorFails(t) PROVE Served'
    BY <1>a, <1>4 DEF CoordinatorFails
  <1>5. ASSUME NEW i \in Ids, NEW d \in Tasks, ReadyDependent(i, d) \/ PassOver(i, d)
        PROVE  Served'
    <2>1. pc'[i] \in BeforeReading \ {"snapshot"}
      BY <1>5 DEF ReadyDependent, PassOver, At, BeforeReading
    <2>. QED
      BY <1>d, <2>1
  <1>6. ASSUME NEW i \in Ids, Snapshot(i) PROVE Served'
    <2>1. /\ status' = status /\ pc'[i] = "dispatch" /\ cached'[i].slots = FreeSlots
          /\ \A k \in Ids : k # i => /\ pc'[k] = pc[k] /\ cached'[k] = cached[k]
                                     /\ newlyReady'[k] = newlyReady[k]
      BY <1>a, <1>6 DEF Snapshot, redisVars, Goto
    <2>2. CASE At(i, "snapshot")
      <3>1. \A k \in Ids : Serves(k) => Serves(k)'
        BY <2>1, <2>2 DEF At, BeforeReading
      <3>. QED
        BY <1>b, <2>1, <3>1
    <2>3. CASE At(i, "scan") /\ FreeSlots > 0
      <3>1. \A r \in Ids : status[r] = "ready" => r \in newlyReady'[i]
        BY <1>a, <1>6, <2>3 DEF Snapshot
      <3>. QED
        BY <2>1, <2>3, <3>1
    <2>4. CASE At(i, "scan") /\ ~(FreeSlots > 0)
      <3>1. \E k \in Ids : status[k] = "running"
        BY <2>4, NoSlotMeansRunning
      <3>. QED
        BY <1>d, <2>1, <3>1
    <2>. QED
      BY <1>6, <2>2, <2>3, <2>4 DEF Snapshot
  <1>7. ASSUME NEW i \in Ids, NEW t \in Ids, Dispatch(i, t) PROVE Served'
    <2>1. status'[t] = "running"
      BY <1>a, <1>7 DEF Dispatch
    <2>. QED
      BY <1>d, <2>1
  <1>8. ASSUME NEW i \in Ids, EndDispatch(i) PROVE Served'
    <2>1. \A t \in newlyReady[i] : status[t] \notin {"completed", "failed"}
      BY <1>c
    <2>2. /\ UNCHANGED <<status, cached>> /\ pc[i] = "dispatch"
          /\ newlyReady[i] = {} \/ cached[i].slots = 0
          /\ \A k \in Ids : k # i => pc'[k] = pc[k] /\ newlyReady'[k] = newlyReady[k]
      BY <1>a, <1>8, <2>1 DEF EndDispatch, redisVars, At, Goto
    <2>3. \A k \in Ids : k # i /\ Serves(k) => Serves(k)'
      BY <2>2
    <2>4. CASE Serves(i) /\ status[i] # "running"
      <3>1. None
        BY <1>a, <2>2, <2>4 DEF BeforeReading
      <3>. QED
        BY <2>2, <3>1
    <2>5. CASE status[i] = "running"
      BY <1>d, <2>2, <2>5
    <2>. QED
      BY <1>b, <2>2, <2>3, <2>4, <2>5
  <1>9. ASSUME NEW i \in Ids, Check(i) \/ Promote(i) PROVE Served'
    <2>1. /\ UNCHANGED <<status, cached, newlyReady>> /\ pc[i] \in {"check", "promote"}
          /\ \A k \in Ids : k # i => pc'[k] = pc[k]
      BY <1>a, <1>9 DEF Check, Promote, At, Goto
    <2>2. \A k \in Ids : Serves(k) => Serves(k)'
      BY <2>1 DEF BeforeReading
    <2>. QED
      BY <1>b, <2>1, <2>2
  <1>10. CASE UNCHANGED vars
    <2>1. UNCHANGED <<status, pc, cached, newlyReady>>
      BY <1>10 DEF vars, redisVars, handlerVars
    <2>. QED
      BY <1>b, <2>1
  <1> HIDE DEF Served
  <1>. QED
    BY <1>a, <1>1, <1>2, <1>3, <1>4, <1>5, <1>6, <1>7, <1>8, <1>9, <1>10
       DEF Next, CompletionStep, DispatchStep

LEMMA EndKept ==
    ASSUME TypeOK, Places, JobsInv, QueueInv, PromotionInv, EndInv, [Next]_vars
    PROVE  EndInv'
  <1> DEFINE Claimed == \E i \in Ids : pc[i] = "promote"
             ToEnd(i) == \/ status[i] \notin {"absent", "completed", "failed"}
                         \/ pc[i] \in BeforeReading \cup {"promote"}
                         \/ pc[i] \in {"dispatch", "check"} /\ cached[i].terminal
  <1>0. UNCHANGED settings /\ (graph' = "active" => graph = "active")
    BY EndsStay DEF Next, CompletionStep, DispatchStep, vars, settings, WorkerCompletes, Record,
       Announce, MergeBranch, ClearPending, AddCoordinator, ResolveConflict, AfterResolution,
       CoordinatorFails, ReadyDependent, PassOver, Snapshot, Dispatch, EndDispatch, Check,
       Promote
  <1>a. /\ Tasks \subseteq Ids
        /\ \A u \in Tasks : Coordinator(u) \in Ids /\ Coordinator(u) \notin Tasks
        /\ pc \in [Ids -> Steps]
        /\ status \in [Ids -> {"absent", "pending", "ready", "running", "completed", "failed"}]
        /\ cached \in [Ids -> [terminal : BOOLEAN, slots : Nat]]
    BY CoordinatorsAreApart DEF TypeOK
  <1>1. resolution' /\ graph' = "active" => Claimed'
    <2> SUFFICES ASSUME resolution', graph' = "active" PROVE Claimed'
      OBVIOUS
    <2>1. CASE \E i \in Ids : Check(i)
      <3>1. PICK i \in Ids : Check(i)
        BY <2>1
      <3>2. CASE resolution
        <4>1. PICK k \in Ids : pc[k] = "promote"
          BY <1>0, <3>2 DEF EndInv
        <4>2. pc'[k] = "promote"
          BY <1>a, <3>1, <4>1 DEF Check, At, Goto
        <4>. QED
          BY <4>2
      <3>3. CASE ~resolution
        BY <1>a, <3>1, <3>3 DEF Check, At, Goto
      <3>. QED
        BY <3>2, <3>3
    <2>2. CASE ~\E i \in Ids : Check(i)
      <3>1. resolution
        BY <2>2 DEF Next, CompletionStep, DispatchStep, vars, redisVars, WorkerCompletes, Record,
           Announce, MergeBranch, ClearPending, AddCoordinator, ResolveConflict, AfterResolution,
           CoordinatorFails, ReadyDependent, PassOver, Snapshot, Dispatch, EndDispatch, Promote
      <3>2. PICK k \in Ids : pc[k] = "promote"
        BY <1>0, <3>1 DEF EndInv
      <3>3. \A i \in Ids : ~Promote(i)
        BY DEF Promote
      <3>4. pc'[k] = "promote"
        BY <1>a, <2>2, <3>2, <3>3
           DEF Next, CompletionStep, DispatchStep, vars, handlerVars, WorkerCompletes, Record,
               Announce, MergeBranch, ClearPending, AddCoordinator, ResolveConflict,
               AfterResolution, CoordinatorFails, ReadyDependent, PassOver, Snapshot, Dispatch,
               EndDispatch, At, Goto
      <3>. QED
        BY <3>4
    <2>. QED
      BY <2>1, <2>2
  <1>2. ASSUME Tasks # {}, maxConcurrency = 0 \/ limit = 1, graph' = "active"
        PROVE  pendingMerges' # {} \/ \E i \in Ids : ToEnd(i)'
    <2> DEFINE Goal == pendingMerges' # {} \/ \E i \in Ids : ToEnd(i)'
    <2>a. graph = "active" /\ (pendingMerges # {} \/ \E i \in Ids : ToEnd(i))
      BY <1>0, <1>2 DEF EndInv
    \* The step of a handler that has yet to read, and goes on so.
    <2>b. ASSUME NEW i \in Ids, pc'[i] \in BeforeReading PROVE Goal
      BY <2>b
    <2>c. ASSUME NEW i \in Ids, status'[i] \notin {"absent", "completed", "failed"} PROVE Goal
      BY <2>c
    <2>1. ASSUME NEW i \in Ids, WorkerCompletes(i) \/ Record(i) PROVE Goal
      <3>1. pc'[i] \in BeforeReading
        BY <1>a, <2>1 DEF WorkerCompletes, Record, At, Goto, BeforeReading
      <3>. QED
        BY <2>b, <3>1
    <2>2. ASSUME NEW t \in Tasks,
                 \/ Announce(t) \/ MergeBranch(t) \/ ClearPending(t) \/ AddCoordinator(t)
          PROVE  Goal
      <3>1. pc'[t] \in BeforeReading /\ t \in Ids
        BY <1>a, <2>2
           DEF Announce, MergeBranch, ClearPending, AddCoordinator, At, Goto, BeforeReading
      <3>. QED
        BY <2>b, <3>1
    <2>3. ASSUME NEW t \in Tasks,
                 ResolveConflict(t) \/ AfterResolution(t) \/ CoordinatorFails(t)
          PROVE  Goal
      <3>1. pc'[Coordinator(t)] \in BeforeReading /\ Coordinator(t) \in Ids
        BY <1>a, <2>3
           DEF ResolveConflict, AfterResolution, CoordinatorFails, At, Goto, BeforeReading
      <3>. QED
        BY <2>b, <3>1
    <2>4. ASSUME NEW i \in Ids, NEW d \in Tasks, ReadyDependent(i, d) \/ PassOver(i, d) PROVE Goal
      <3>1. pc'[i] \in BeforeReading
        BY <2>4 DEF ReadyDependent, PassOver, At, BeforeReading
      <3>. QED
        BY <2>b, <3>1
    <2>5. ASSUME NEW i \in Ids, NEW t \in Ids, Dispatch(i, t) PROVE Goal
      <3>1. status'[t] = "running"
        BY <1>a, <2>5 DEF Dispatch
      <3>. QED
        BY <2>c, <3>1
    <2>6. ASSUME NEW i \in Ids, Snapshot(i) PROVE Goal
      <3>1. status' = status /\ pc'[i] = "dispatch" /\ cached'[i].terminal = Terminal(status)
        BY <1>a, <2>6 DEF Snapshot, redisVars, Goto
      <3>2. CASE Terminal(status)
        BY <3>1, <3>2
      <3>3. CASE ~Terminal(status)
        <4>1. PICK k \in Ids : status[k] \notin {"absent", "completed", "failed"}
          BY <3>3 DEF Terminal
        <4>. QED
          BY <2>c, <3>1, <4>1
      <3>. QED
        BY <3>2, <3>3
    <2>7. ASSUME NEW i \in Ids, EndDispatch(i) PROVE Goal
      <3>1. \A u \in newlyReady[i] : status[u] = "ready"
        BY <1>2 DEF JobsInv, QueueInv
      <3>2. /\ UNCHANGED <<status, cached, pendingMerges>> /\ pc[i] = "dispatch" /\ pc'[i] = "check"
            /\ \A k \in Ids : k # i => pc'[k] = pc[k]
        BY <1>a, <2>7, <3>1 DEF EndDispatch, redisVars, At, Goto
      <3>3. \A k \in Ids : ToEnd(k) => ToEnd(k)'
        BY <3>2 DEF BeforeReading
      <3>. QED
        BY <2>a, <3>2, <3>3
    <2>8. ASSUME NEW i \in Ids, Check(i) PROVE Goal
      <3>1. /\ UNCHANGED <<status, cached, pendingMerges>> /\ pc[i] = "check"
            /\ \A k \in Ids : k # i => pc'[k] = pc[k]
        BY <1>a, <2>8 DEF Check, At, Goto
      <3>2. CASE pendingMerges # {}
        BY <3>1, <3>2
      <3>3. CASE pendingMerges = {} /\ resolution
        <4>1. PICK k \in Ids : pc[k] = "promote"
          BY <2>a, <3>3 DEF EndInv
        <4>. QED
          BY <3>1, <4>1
      <3>4. CASE pendingMerges = {} /\ ~resolution /\ cached[i].terminal
        <4>1. pc'[i] = "promote"
          BY <1>a, <2>a, <2>8, <3>4 DEF Check, Goto
        <4>. QED
          BY <4>1
      <3>5. CASE pendingMerges = {} /\ ~cached[i].terminal
        <4>1. PICK k \in Ids : ToEnd(k)
          BY <2>a, <3>5
        <4>2. ToEnd(k)'
          BY <3>1, <3>5, <4>1 DEF BeforeReading
        <4>. QED
          BY <4>2
      <3>. QED
        BY <3>2, <3>3, <3>4, <3>5
    <2>9. ASSUME NEW i \in Ids, Promote(i) PROVE FALSE
      BY <1>2, <2>9 DEF Promote
    <2>10. CASE UNCHANGED vars
      BY <2>a, <2>10 DEF vars, redisVars, handlerVars
    <2> HIDE DEF Goal
    <2>. QED
      BY <1>a, <2>1, <2>2, <2>3, <2>4, <2>5, <2>6, <2>7, <2>8, <2>9, <2>10 DEF Next, CompletionStep,
         DispatchStep, Goal
  <1>. QED
    BY <1>0, <1>1, <1>2 DEF EndInv, settings

\* With every handler returned and every worker ended, somebody would still have to look,
\* dispatch or end the graph.
LEMMA QuietIsWedged ==
    ASSUME TypeOK, Places, HandledInv, WaitInv, ReadyInv, ServedInv, EndInv
    PROVE  NothingForgotten
  <1> SUFFICES ASSUME Tasks # {}, maxConcurrency = 0 \/ limit = 1, graph = "active",
                      InFlight = {}, ~Wedged, \A i \in Ids : status[i] # "running"
               PROVE  FALSE
    BY DEF NothingForgotten
  <1> USE CoordinatorsAreApart
  <1>1. \A i \in Ids : pc[i] \in {"idle", "done"}
    BY DEF InFlight
  <1>2. \A i \in Ids : status[i] # "ready"
    <2> SUFFICES ASSUME NEW i \in Ids, status[i] = "ready" PROVE FALSE
      OBVIOUS
    <2>1. CASE maxConcurrency = 0
      <3>1. PICK k \in Ids : pc[k] \in {"scan", "dispatch"}
        BY <2>1 DEF ReadyInv
      <3>. QED
        BY <1>1, <3>1
    <2>2. CASE maxConcurrency # 0
      BY <1>1, <2>2 DEF ServedInv, Wedged, BeforeReading
    <2>. QED
      BY <2>1, <2>2
  <1>3. pendingMerges = {}
    <2>1. \A t \in pendingMerges : t \in Ids /\ t \in Tasks /\ pc[t] # "idle"
      BY DEF HandledInv, TypeOK
    <2>. QED
      BY <1>1, <2>1 DEF Wedged
  <1>4. \A t \in Tasks : status[Coordinator(t)] \in {"absent", "completed"}
    BY <1>2 DEF Wedged, HandledInv, TypeOK
  <1>5. \A t \in Tasks : status[t] \in {"pending", "completed"}
    BY <1>2 DEF Places, TypeOK
  <1>6. \A t \in Tasks : status[t] = "completed"
    <2> DEFINE P == {t \in Tasks : status[t] = "pending"}
    <2>1. ASSUME P # {} PROVE FALSE
      <3>1. PICK d \in P : Deps[d] \cap P = {}
        BY <2>1, DagAssumption
      <3>2. PICK t \in Deps[d] : StillToLook(t, d)
        BY DEF WaitInv
      <3>3. t \in Tasks /\ t \notin P
        BY <3>1, ScannedBoth
      <3>4. status[t] = "completed" /\ pc[t] = "done"
        BY <1>1, <1>5, <3>3 DEF HandledInv
      <3>5. /\ pc[Coordinator(t)] \in {"idle", "done"}
            /\ status[Coordinator(t)] \in {"absent", "completed"}
        BY <1>1, <1>4, <3>3
      <3>. QED
        BY <1>3, <3>2, <3>4, <3>5 DEF StillToLook, BeforeCoordinator
    <2>. QED
      BY <1>5, <2>1
  <1>7. \A i \in Ids : status[i] \in {"absent", "completed"}
    BY <1>4, <1>6
  <1>. QED
    BY <1>1, <1>3, <1>7 DEF EndInv, BeforeReading

\* Every root has been started, and every other task waits for one that has not ended.
LEMMA InitForgetsNothing ==
    ASSUME Init
    PROVE  HandledInv /\ WaitInv /\ ReadyInv /\ QueueInv /\ ServedInv /\ EndInv
  <1>1. PICK started \in SUBSET Roots :
            /\ Cardinality(started) = Started
            /\ status = [i \in Ids |-> IF i \notin Tasks THEN "absent"
                                       ELSE IF i \in started THEN "running"
                                       ELSE IF i \in Roots THEN "ready" ELSE "pending"]
    BY DEF Init
  <1>2. /\ \A i \in Ids : pc[i] = "idle" /\ status[i] \notin {"completed", "failed"}
        /\ \A t \in Tasks : status[Coordinator(t)] = "absent"
    BY <1>1, CoordinatorsAreApart DEF Init
  <1>3. HandledInv
    BY <1>2 DEF HandledInv, Init
  <1>4. WaitInv
    <2> SUFFICES ASSUME NEW d \in Tasks, status[d] = "pending"
                 PROVE  \E t \in Deps[d] : status[t] # "completed"
      BY DEF WaitInv, StillToLook, Init
    <2>1. Deps[d] # {}
      BY <1>1, CoordinatorsAreApart DEF Roots
    <2>2. \A t \in Deps[d] : t \in Ids
      BY ScannedBoth, CoordinatorsAreApart
    <2>. QED
      BY <1>2, <2>1, <2>2
  <1>5. ReadyInv
    <2> SUFFICES ASSUME maxConcurrency = 0 PROVE \A i \in Ids : status[i] # "ready"
      BY <1>2 DEF ReadyInv
    <2>1. IsFiniteSet(Roots)
      BY IdsAssumption, FS_Subset DEF Roots
    <2>2. Cardinality(Roots) = Cardinality(started)
      BY <1>1 DEF Started
    <2>3. started = Roots
      BY <2>1, <2>2, FS_Subset
    <2>. QED
      BY <1>1, <2>3
  <1>6. EndInv
    <2>1. ASSUME NEW t \in Tasks
          PROVE  t \in Ids /\ status[t] \notin {"absent", "completed", "failed"}
      BY <1>1, CoordinatorsAreApart
    <2>. QED
      BY <2>1 DEF EndInv, Init
  <1>7. QueueInv
    BY DEF QueueInv, Init
  <1>8. ServedInv
    <2> SUFFICES ASSUME maxConcurrency # 0, NEW i \in Ids, status[i] = "ready"
                 PROVE  \E k \in Ids : status[k] = "running"
      BY DEF ServedInv
    <2>1. i \in Roots /\ i \notin started /\ Roots \subseteq Tasks
      BY <1>1 DEF Roots
    <2>2. IsFiniteSet(Roots) /\ IsFiniteSet(started)
      BY <2>1, IdsAssumption, FS_Subset
    <2>3. Cardinality(started) # Cardinality(Roots)
      BY <2>1, <2>2, FS_Subset
    <2>4. Cardinality(started) = maxConcurrency
      BY <1>1, <2>3 DEF Started
    <2>5. started # {}
      BY <2>4, FS_EmptySet
    <2>6. PICK k \in started : TRUE
      BY <2>5
    <2>. QED
      BY <1>1, <2>1, <2>6, CoordinatorsAreApart
  <1>. QED
    BY <1>3, <1>4, <1>5, <1>6, <1>7, <1>8

\* For every graph and however many handlers overlap: a graph is promoted once and, without
\* a maxConcurrency, a task gets one Job and nothing is left that nobody is to do.  Handlers
\* that run one after the other leave nothing with a maxConcurrency either.
THEOREM EachThingIsDoneOnce == Spec => []EachThingOnce
  <1> DEFINE Inv == HandledInv /\ WaitInv /\ ReadyInv /\ QueueInv /\ ServedInv /\ EndInv
  <1>1. Init => Inv
    BY InitForgetsNothing
  <1>2. MInv /\ Inv /\ [Next]_vars => Inv'
    BY HandledKept, WaitKept, ReadyKept, QueueKept, ServedKept, EndKept DEF MInv
  <1>3. MInv /\ Inv => EachThingOnce
    BY QuietIsWedged DEF MInv, JobsInv, PromotionInv, NothingTwice, DispatchedOnce, PromotedOnce,
       EachThingOnce
  <1>. QED
    BY <1>1, <1>2, <1>3, Invariance, PTL DEF Spec
===============================================================================
