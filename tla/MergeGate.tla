------------------------------ MODULE MergeGate ------------------------------
(***************************************************************************)
(* Pod-mode completion in src/src/task-graph.ts: every worker pushes a     *)
(* branch, and the handler of its completion merges it into the graph's    *)
(* integration branch before the dependents may start from it.             *)
(*                                                                         *)
(* Handlers run in one Node process and interleave at their awaits: a step *)
(* here is what a handler does between two of them.  The tasks neither     *)
(* fail nor yield (TaskGraph has those); merges, their conflicts and the   *)
(* coordinators that resolve them do everything they can.                  *)
(***************************************************************************)
EXTENDS Naturals, FiniteSets, Sequences

CONSTANTS
    Tasks,             \* the pod-mode tasks of the graph
    Deps,              \* task -> its dependsOn
    ConcurrencyLimits, \* values of the graph's maxConcurrency; 0 stands for unset
    HandlerLimits,     \* how many completions may be handled at the same time
    MaxConflicts,      \* bound: merges that may end in a conflict
    MergesMayError,    \* whether a merge may end in error or transient
    CoordinatorsMayFail

ASSUME GateAssumption ==
    /\ Deps \in [Tasks -> SUBSET Tasks]
    /\ ConcurrencyLimits \subseteq Nat /\ HandlerLimits \subseteq Nat /\ MaxConflicts \in Nat
    /\ MergesMayError \in BOOLEAN /\ CoordinatorsMayFail \in BOOLEAN

\* The task merge-<t> that resolves t's conflict, and every id of the graph.
Coordinator(t) == <<"merge", t>>
Ids == Tasks \cup {Coordinator(t) : t \in Tasks}

\* validateDAG: every set of tasks has one that depends on none of the others.
ASSUME DagAssumption ==
    \A S \in (SUBSET Tasks) \ {{}} : \E t \in S : Deps[t] \cap S = {}

\* A graph is finite, and none of its tasks is itself named merge-<another task>.
ASSUME IdsAssumption ==
    /\ IsFiniteSet(Tasks)
    /\ \A t \in Tasks : Coordinator(t) \notin Tasks

VARIABLES
    maxConcurrency, \* the one of ConcurrencyLimits the graph was declared with
    graph,          \* graph:<g> .status
    status,         \* graph:<g>:tasks:<id> .status
    completed,      \* the set graph:<g>:completed (its tasks)
    pendingMerges,  \* the set graph:<g>:pending_merges
    locks,          \* the keys graph:<g>:lock:<t>
    resolution,     \* whether completionlock:<g>:0 is taken
    integrated,     \* the tasks whose work is on the integration branch
    conflictBase,   \* t -> what the integration branch held when t conflicted
    conflicts,      \* merges that ended in a conflict so far
    promoted,       \* what each push of the integration branch to the base held
    jobs,           \* id -> worker Jobs created for it
    limit,          \* the one of HandlerLimits this behaviour keeps to
    pc,             \* id -> where the handler of its completion is
    todo,           \* id -> the dependents that handler has yet to look at
    newlyReady,     \* id -> its newlyReady
    cached          \* id -> what it reads of its cachedTasks: are all terminal,
                    \* and how many slots of maxConcurrency are free

redisVars == <<graph, status, completed, pendingMerges, locks, resolution>>
gitVars == <<integrated, conflictBase, conflicts, promoted>>
settings == <<limit, maxConcurrency>>
handlerVars == <<pc, todo, newlyReady, cached>>
vars == <<redisVars, gitVars, jobs, settings, handlerVars>>

Steps == {"idle", "record", "announce", "merge", "merged", "conflicted", "coordinate",
          "resolve", "resolved", "unresolved", "scan", "snapshot", "dispatch", "check",
          "promote", "done"}

Dependents(t) == {d \in Tasks : t \in Deps[d]}
Terminal(st) == \A i \in Ids : st[i] \in {"absent", "completed", "failed"}
FreeSlots ==
    LET running == Cardinality({i \in Ids : status[i] = "running"})
    IN  IF maxConcurrency = 0 THEN Cardinality(Ids)
        ELSE IF running >= maxConcurrency THEN 0 ELSE maxConcurrency - running

\* The tasks whose dependents the handler of id scans: a coordinator has none of
\* its own, it scans those of the task it has reintegrated.
Scanned(id) == IF id \in Tasks THEN Dependents(id)
               ELSE UNION {Dependents(t) : t \in {u \in Tasks : id = Coordinator(u)}}

\* declareGraph has dispatched the roots, as many as maxConcurrency lets run.
Roots == {t \in Tasks : Deps[t] = {}}
Started == IF maxConcurrency = 0 \/ Cardinality(Roots) <= maxConcurrency
           THEN Cardinality(Roots) ELSE maxConcurrency

Init ==
    /\ graph = "active"
    /\ limit \in HandlerLimits /\ maxConcurrency \in ConcurrencyLimits
    /\ \E started \in SUBSET Roots :
          /\ Cardinality(started) = Started
          /\ status = [i \in Ids |-> IF i \notin Tasks THEN "absent"
                                     ELSE IF i \in started THEN "running"
                                     ELSE IF i \in Roots THEN "ready" ELSE "pending"]
          /\ jobs = [i \in Ids |-> IF i \in started THEN 1 ELSE 0]
    /\ completed = {} /\ pendingMerges = {} /\ locks = {} /\ resolution = FALSE
    /\ integrated = {} /\ conflictBase = [t \in Tasks |-> {}] /\ conflicts = 0
    /\ promoted = <<>>
    /\ pc = [i \in Ids |-> "idle"]
    /\ todo = [i \in Ids |-> {}] /\ newlyReady = [i \in Ids |-> {}]
    /\ cached = [i \in Ids |-> [terminal |-> FALSE, slots |-> 0]]

InFlight == {i \in Ids : pc[i] \notin {"idle", "done"}}
Goto(id, step) == pc' = [pc EXCEPT ![id] = step]
At(id, step) == pc[id] = step

-----------------------------------------------------------------------------
(* onTaskCompleted: record the completion *)

\* The worker of id exits with success: the status write.
WorkerCompletes(id) ==
    /\ status[id] = "running" /\ At(id, "idle")
    /\ Cardinality(InFlight) < limit
    /\ status' = [status EXCEPT ![id] = "completed"]
    /\ Goto(id, "record")
    /\ UNCHANGED <<graph, completed, pendingMerges, locks, resolution, gitVars, jobs, settings,
                   todo, newlyReady, cached>>

\* sadd completed, a step after the status.
Record(id) ==
    /\ At(id, "record")
    /\ completed' = completed \cup ({id} \cap Tasks)
    /\ Goto(id, IF id \in Tasks THEN "announce" ELSE "resolve")
    /\ UNCHANGED <<graph, status, pendingMerges, locks, resolution, gitVars, jobs, settings, todo,
                   newlyReady, cached>>

-----------------------------------------------------------------------------
(* onTaskCompleted: merge the worker's branch *)

\* sadd pending_merges.
Announce(t) ==
    /\ At(t, "announce")
    /\ pendingMerges' = pendingMerges \cup {t}
    /\ Goto(t, "merge")
    /\ UNCHANGED <<graph, status, completed, locks, resolution, gitVars, jobs, settings, todo,
                   newlyReady, cached>>

\* mergeTaskIntoIntegration: merged, in conflict with what is there, or an error,
\* which leaves t in pending_merges.
MergeBranch(t) ==
    /\ At(t, "merge")
    /\ \/ /\ integrated' = integrated \cup {t}
          /\ Goto(t, "merged")
          /\ UNCHANGED <<conflictBase, conflicts, todo>>
       \/ /\ conflicts < MaxConflicts
          /\ conflicts' = conflicts + 1
          /\ conflictBase' = [conflictBase EXCEPT ![t] = integrated]
          /\ Goto(t, "conflicted")
          /\ UNCHANGED <<integrated, todo>>
       \/ /\ MergesMayError
          /\ Goto(t, "scan")
          /\ todo' = [todo EXCEPT ![t] = Dependents(t)]
          /\ UNCHANGED <<integrated, conflictBase, conflicts>>
    /\ UNCHANGED <<redisVars, promoted, jobs, settings, newlyReady, cached>>

\* srem pending_merges, after a merge and before a coordinator is added.
ClearPending(t) ==
    /\ \/ At(t, "merged") /\ Goto(t, "scan") /\ todo' = [todo EXCEPT ![t] = Dependents(t)]
       \/ At(t, "conflicted") /\ Goto(t, "coordinate") /\ UNCHANGED todo
    /\ pendingMerges' = pendingMerges \ {t}
    /\ UNCHANGED <<graph, status, completed, locks, resolution, gitVars, jobs, settings, newlyReady,
                   cached>>

\* addTask of the coordinator, which starts at once if maxConcurrency allows; the
\* error it throws when the graph is no longer active is swallowed.
AddCoordinator(t) ==
    /\ At(t, "coordinate")
    /\ LET c == Coordinator(t)
           starts == FreeSlots > 0
       IN  IF graph = "active"
           THEN /\ status' = [status EXCEPT ![c] = IF starts THEN "running" ELSE "ready"]
                /\ jobs' = [jobs EXCEPT ![c] = IF starts THEN @ + 1 ELSE @]
           ELSE UNCHANGED <<status, jobs>>
    /\ Goto(t, "scan")
    /\ todo' = [todo EXCEPT ![t] = Dependents(t)]
    /\ UNCHANGED <<graph, completed, pendingMerges, locks, resolution, gitVars, settings,
                   newlyReady, cached>>

-----------------------------------------------------------------------------
(* A coordinator ends *)

\* resolveAfterCoordinator: the resolved branch is adopted only while the
\* integration branch still holds what t conflicted with.
ResolveConflict(t) ==
    LET c == Coordinator(t) IN
    /\ At(c, "resolve")
    /\ \/ /\ integrated = conflictBase[t]
          /\ integrated' = integrated \cup {t}
          /\ Goto(c, "resolved")
       \/ /\ integrated # conflictBase[t] \/ MergesMayError
          /\ Goto(c, "unresolved")
          /\ UNCHANGED integrated
    /\ UNCHANGED <<redisVars, conflictBase, conflicts, promoted, jobs, settings, todo, newlyReady, cached>>

\* Mutant: the original task's dependents are not looked at again.
AfterResolution_NoRescan(t) ==
    LET c == Coordinator(t) IN
    /\ \/ /\ At(c, "resolved")
          /\ pendingMerges' = pendingMerges \ {t}
       \/ /\ At(c, "unresolved")
          /\ pendingMerges' = pendingMerges \cup {t}
    /\ Goto(c, "scan")
    /\ UNCHANGED <<graph, status, completed, locks, resolution, gitVars, jobs, settings, todo,
                   newlyReady, cached>>

\* Resolved, the original task's dependents are scanned; otherwise its slot in
\* pending_merges is taken again.
AfterResolution(t) ==
    LET c == Coordinator(t) IN
    /\ \/ /\ At(c, "resolved")
          /\ pendingMerges' = pendingMerges \ {t}
          /\ todo' = [todo EXCEPT ![c] = Scanned(c)]
       \/ /\ At(c, "unresolved")
          /\ pendingMerges' = pendingMerges \cup {t}
          /\ UNCHANGED todo
    /\ Goto(c, "scan")
    /\ UNCHANGED <<graph, status, completed, locks, resolution, gitVars, jobs, settings, newlyReady,
                   cached>>

\* onTaskFailed of a coordinator: no dependents to cancel, then the completion check.
CoordinatorFails(t) ==
    LET c == Coordinator(t) IN
    /\ CoordinatorsMayFail
    /\ status[c] = "running" /\ At(c, "idle")
    /\ Cardinality(InFlight) < limit
    /\ status' = [status EXCEPT ![c] = "failed"]
    /\ Goto(c, "snapshot")
    /\ UNCHANGED <<graph, completed, pendingMerges, locks, resolution, gitVars, jobs, settings, todo,
                   newlyReady, cached>>

-----------------------------------------------------------------------------
(* onTaskCompleted: ready and dispatch the dependents *)

\* Mutant: the gate before #311, which only asked for completion.
MayStart_Completed(d) == Deps[d] \subseteq completed

\* depsReadyAndMerged
MayStart(d) ==
    /\ Deps[d] \subseteq completed
    /\ \A t \in Deps[d] : /\ t \notin pendingMerges
                          /\ status[Coordinator(t)] \in {"absent", "completed"}

\* Mutant: no dispatch lock.
ReadyDependent_NoLock(id, d) ==
    /\ At(id, "scan") /\ d \in todo[id]
    /\ MayStart(d) /\ status[d] \in {"pending", "ready"}
    /\ status' = [status EXCEPT ![d] = "ready"]
    /\ newlyReady' = [newlyReady EXCEPT ![id] = @ \cup {d}]
    /\ todo' = [todo EXCEPT ![id] = @ \ {d}]
    /\ UNCHANGED <<graph, completed, pendingMerges, locks, resolution, gitVars, jobs, settings, pc,
                   cached>>

\* readyDependentsOf: one dependent passes the gate and its lock is free.
ReadyDependent(id, d) ==
    /\ At(id, "scan") /\ d \in todo[id]
    /\ MayStart(d) /\ status[d] = "pending" /\ d \notin locks
    /\ locks' = locks \cup {d}
    /\ status' = [status EXCEPT ![d] = "ready"]
    /\ newlyReady' = [newlyReady EXCEPT ![id] = @ \cup {d}]
    /\ todo' = [todo EXCEPT ![id] = @ \ {d}]
    /\ UNCHANGED <<graph, completed, pendingMerges, resolution, gitVars, jobs, settings, pc, cached>>

\* It does not, and the handler goes on without it.
PassOver(id, d) ==
    /\ At(id, "scan") /\ d \in todo[id]
    /\ ~(MayStart(d) /\ status[d] = "pending" /\ d \notin locks)
    /\ todo' = [todo EXCEPT ![id] = @ \ {d}]
    /\ UNCHANGED <<redisVars, gitVars, jobs, settings, pc, newlyReady, cached>>

\* cachedTasks = getAllTasks; with a maxConcurrency, the ready tasks of other
\* handlers join newlyReady.
Snapshot(id) ==
    /\ At(id, "snapshot") \/ (At(id, "scan") /\ todo[id] = {})
    /\ cached' = [cached EXCEPT ![id] = [terminal |-> Terminal(status), slots |-> FreeSlots]]
    /\ newlyReady' = [newlyReady EXCEPT ![id] =
          @ \cup {i \in Ids : maxConcurrency # 0 /\ At(id, "scan") /\ status[i] = "ready"}]
    /\ Goto(id, "dispatch")
    /\ UNCHANGED <<redisVars, gitVars, jobs, settings, todo>>

\* dispatchReadyTasks, one task of its loop, in any order: the record goes to
\* running, which is a no-op when it already runs, and a Job is created.
Dispatch(id, t) ==
    /\ At(id, "dispatch") /\ t \in newlyReady[id] /\ cached[id].slots > 0
    /\ status[t] \in {"ready", "running"}
    /\ status' = [status EXCEPT ![t] = "running"]
    /\ jobs' = [jobs EXCEPT ![t] = @ + 1]
    /\ newlyReady' = [newlyReady EXCEPT ![id] = @ \ {t}]
    /\ cached' = [cached EXCEPT ![id] = [terminal |-> @.terminal, slots |-> @.slots - 1]]
    /\ UNCHANGED <<graph, completed, pendingMerges, locks, resolution, gitVars, settings, pc, todo>>

\* The loop is over: to checkGraphCompletion, unless a task has ended meanwhile and
\* the transition throws out of the handler.
EndDispatch(id) ==
    /\ At(id, "dispatch")
    /\ \/ /\ newlyReady[id] = {} \/ cached[id].slots = 0
          /\ Goto(id, "check")
       \/ /\ cached[id].slots > 0
          /\ \E t \in newlyReady[id] : status[t] \in {"completed", "failed"}
          /\ Goto(id, "done")
    /\ newlyReady' = [newlyReady EXCEPT ![id] = {}]
    /\ UNCHANGED <<redisVars, gitVars, jobs, settings, todo, cached>>

-----------------------------------------------------------------------------
(* checkGraphCompletion *)

\* Mutant: merges that are under way do not hold the graph back.
Check_IgnoresPending(id) ==
    /\ At(id, "check")
    /\ IF graph = "active" /\ cached[id].terminal
       THEN Goto(id, "promote") /\ resolution' = TRUE
       ELSE Goto(id, "done") /\ UNCHANGED resolution
    /\ UNCHANGED <<graph, status, completed, pendingMerges, locks, gitVars, jobs, settings, todo,
                   newlyReady, cached>>

\* Mutant: the resolution is not claimed.
Check_NoClaim(id) ==
    /\ At(id, "check")
    /\ IF graph = "active" /\ cached[id].terminal /\ pendingMerges = {}
       THEN Goto(id, "promote") ELSE Goto(id, "done")
    /\ UNCHANGED <<redisVars, gitVars, jobs, settings, todo, newlyReady, cached>>

\* From the cached tasks: all terminal (coordinators may have failed), no merge
\* pending, and nobody else has claimed the resolution.
Check(id) ==
    LET complete == graph = "active" /\ cached[id].terminal /\ pendingMerges = {}
                    /\ ~resolution
    IN  /\ At(id, "check")
        /\ resolution' = (resolution \/ complete)
        /\ Goto(id, IF complete THEN "promote" ELSE "done")
        /\ UNCHANGED <<graph, status, completed, pendingMerges, locks, gitVars, jobs, settings, todo,
                       newlyReady, cached>>

\* promoteIntegration pushes the integration branch to the base, or the graph fails.
Promote(id) ==
    /\ At(id, "promote")
    /\ \/ graph' = "completed" /\ promoted' = Append(promoted, integrated)
       \/ MergesMayError /\ graph' = "failed" /\ UNCHANGED promoted
    /\ Goto(id, "done")
    /\ UNCHANGED <<status, completed, pendingMerges, locks, resolution, integrated,
                   conflictBase, conflicts, jobs, settings, todo, newlyReady, cached>>
-----------------------------------------------------------------------------
CompletionStep(t) ==
    \/ Record(t) \/ Announce(t) \/ MergeBranch(t) \/ ClearPending(t) \/ AddCoordinator(t)
    \/ Record(Coordinator(t)) \/ ResolveConflict(t) \/ AfterResolution(t)

DispatchStep(id) ==
    \/ Snapshot(id) \/ EndDispatch(id) \/ Check(id) \/ Promote(id)
    \/ \E d \in Tasks : ReadyDependent(id, d) \/ PassOver(id, d)
    \/ \E t \in Ids : Dispatch(id, t)

Next ==
    \/ \E t \in Tasks : CompletionStep(t) \/ CoordinatorFails(t)
    \/ \E id \in Ids : WorkerCompletes(id) \/ DispatchStep(id)

Spec == Init /\ [][Next]_vars

\* Workers and coordinators end, and handlers, which are promises, run on.
Fairness ==
    /\ \A t \in Tasks : WF_vars(CompletionStep(t))
    /\ \A id \in Ids : WF_vars(DispatchStep(id)) /\ SF_vars(WorkerCompletes(id))

FairSpec == Spec /\ Fairness

-----------------------------------------------------------------------------
(* Properties *)

TypeOK ==
    /\ graph \in {"active", "completed", "failed"}
    /\ status \in [Ids -> {"absent", "pending", "ready", "running", "completed", "failed"}]
    /\ completed \subseteq Tasks /\ pendingMerges \subseteq Tasks /\ locks \subseteq Tasks
    /\ integrated \subseteq Tasks /\ conflictBase \in [Tasks -> SUBSET Tasks]
    /\ resolution \in BOOLEAN /\ conflicts \in Nat
    /\ limit \in HandlerLimits /\ maxConcurrency \in ConcurrencyLimits
    /\ promoted \in Seq(SUBSET Tasks) /\ jobs \in [Ids -> Nat]
    /\ pc \in [Ids -> Steps]
    /\ todo \in [Ids -> SUBSET Tasks] /\ newlyReady \in [Ids -> SUBSET Ids]
    /\ cached \in [Ids -> [terminal : BOOLEAN, slots : Nat]]

\* What #311 asks for: a task runs only when the work of each of its dependencies is
\* on the integration branch it is cloned from.
StartsOnIntegrated == \A t \in Tasks : status[t] = "running" => Deps[t] \subseteq integrated

\* It holds, through conflicts, failed merges and coordinators, as long as no two
\* completions are handled at the same time.
GateHoldsAlone == limit = 1 => StartsOnIntegrated

\* When the work of a completed task is not on the integration branch and nothing another
\* handler reads says so: before its merge is announced, between the end of its conflict and
\* the coordinator's record, and from the coordinator's completion to its outcome.
InWindow(t) ==
    \/ pc[t] \in {"announce", "coordinate"}
    \/ pc[Coordinator(t)] \in {"record", "resolve", "unresolved"}

\* However handlers overlap, these windows are all the gate misses: a dependent is readied
\* only when each dependency's work is in place or in its window.  And the graph's
\* resolution is claimed only when each task's work is in place, in its window, not yet
\* recorded as completed, or with a coordinator that failed or was added since the
\* handler read the tasks.
MissesOnlyWindows ==
    /\ \A d \in Tasks : status[d] = "pending" /\ status'[d] # "pending" =>
          \A t \in Deps[d] : t \in integrated \/ InWindow(t)
    /\ ~resolution /\ resolution' =>
          \A t \in Tasks : \/ t \in integrated \/ InWindow(t) \/ pc[t] = "record"
                          \/ status[Coordinator(t)] \in {"ready", "running", "failed"}
GateMissesOnlyWindows == [][MissesOnlyWindows]_vars

\* What is promoted to the base holds the work of every task of the graph.
PromotesEverything == \A i \in DOMAIN promoted : Tasks \subseteq promoted[i]

\* It does when completions are handled one at a time and no coordinator fails,
\* whatever merges fail: a merge that has failed holds the graph back.
PromotesEverythingAlone ==
    limit = 1 /\ (\A t \in Tasks : status[Coordinator(t)] # "failed") => PromotesEverything

\* However handlers overlap, one Job is created for a task: the scans of two
\* completed dependencies do not both dispatch it.  (With a maxConcurrency, the
\* pick-up of ready tasks takes no lock and a task readied by one handler is also
\* dispatched by another.)
DispatchedOnce == maxConcurrency = 0 => \A i \in Ids : jobs[i] <= 1

\* However handlers overlap, one of them promotes the graph.
PromotedOnce == Len(promoted) <= 1

\* No race does a thing twice.
NothingTwice == DispatchedOnce /\ PromotedOnce

\* A merge has failed, or its resolution has: the graph waits for an operator.
Wedged ==
    \E t \in Tasks : \/ t \in pendingMerges /\ pc[t] = "done"
                     \/ status[Coordinator(t)] = "failed"

\* No race leaves a thing undone either: when every worker has ended and every handler has
\* returned, the graph has ended or waits for an operator.  Each dependent that the gate
\* held back has been looked at again and the last handler has resolved the graph.
\* (With a maxConcurrency and overlapping handlers, one that throws may leave ready tasks;
\* and a graph of no tasks stays active.)
NothingForgotten ==
    Tasks # {} /\ (maxConcurrency = 0 \/ limit = 1) /\ graph = "active" /\ InFlight = {} =>
        Wedged \/ \E i \in Ids : status[i] = "running"

EachThingOnce == NothingTwice /\ NothingForgotten

\* No dependent and no completion is forgotten between handlers that each see the
\* others' merges pending: unless a merge has failed, the graph is promoted.
GraphDelivers == (graph = "active") ~> (graph # "active" \/ Wedged)
=============================================================================
