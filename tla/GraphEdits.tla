----------------------------- MODULE GraphEdits -----------------------------
(***************************************************************************)
(* Graphs that change while they run: a task is added (add_task), a        *)
(* completed one is rejected and gets a task that reworks it (reject_task),*)
(* a whole graph is merged into another (merge_graphs).  The calls work in *)
(* steps on what is in Redis, and workers' reports come in between.        *)
(*                                                                         *)
(* TaskGraph models what a report does to one graph in full, and MergeGate *)
(* its steps; here a report is one step and a success, and the merges of   *)
(* branches, the lease and the validation are left out.                    *)
(***************************************************************************)
EXTENDS Naturals, FiniteSets

CONSTANTS
    Target, Source, \* two graphs
    Declared,       \* for each its tasks, and what each depends on
    NewTasks,       \* tasks that may be added
    Editors,        \* calls that may overlap
    MaxReworks,     \* reject_task's limit
    MaxEdits        \* bound: calls

EditedGraphs == {Target, Source}

\* A graph is declared with tasks that depend on each other.
ASSUME EditsAssumption ==
    /\ Target # Source /\ {MaxReworks, MaxEdits} \subseteq Nat
    /\ \A g \in EditedGraphs :
          /\ IsFiniteSet(DOMAIN Declared[g]) /\ DOMAIN Declared[g] # {}
          /\ \A t \in DOMAIN Declared[g] : Declared[g][t] \subseteq DOMAIN Declared[g]

\* An id is a name and a number: 0 as declared, the iteration of a rework, Fresh when renamed.
Fresh == 9

VARIABLES
    graphStatus, \* graph -> active, completed, or merged (the source, into the target)
    nodes,       \* graph -> its tasks: id -> status and the ids it depends on
    running,     \* the workers, by the graph and the id they were started for
    rejections,  \* graph -> id -> how many are recorded
    edit,        \* editor -> the call it makes and where that is
    editCount,
    late,   \* history: a call has acted on what was no longer so
    readdressed  \* history: a task has got another id while its worker ran

editVars == <<graphStatus, nodes, running, rejections, edit, editCount, late, readdressed>>

NoEdit == [step |-> "none"]
Node(status, deps) == [status |-> status, deps |-> deps]
Put(tasks, new) ==
    [t \in DOMAIN tasks \cup DOMAIN new |-> IF t \in DOMAIN new THEN new[t] ELSE tasks[t]]

DepsReady(tasks, t) == \A d \in tasks[t].deps : d \in DOMAIN tasks /\ tasks[d].status = "completed"

\* What starting the tasks ts makes of them.
Started(tasks, ts) == Put(tasks, [t \in ts |-> Node("running", tasks[t].deps)])

EditsInit ==
    /\ graphStatus = [g \in EditedGraphs |-> "active"]
    /\ nodes = [g \in EditedGraphs |->
                  [t \in DOMAIN Declared[g] |->
                     Node(IF Declared[g][t] = {} THEN "running" ELSE "pending", Declared[g][t])]]
    /\ running = UNION {{<<g, t>> : t \in {u \in DOMAIN Declared[g] : Declared[g][u] = {}}} :
                           g \in EditedGraphs}
    /\ rejections = [g \in EditedGraphs |->
                       [t \in DOMAIN Declared[Target] \cup DOMAIN Declared[Source] |-> 0]]
    /\ edit = [e \in Editors |-> NoEdit] /\ editCount = 0
    /\ late = FALSE /\ readdressed = FALSE

MergeSteps == {"copy", "bridge", "mark", "dispatch"}

\* A graph that changes while a merge of it is on its way, or that ends while a task is added.
MakesLate(g, ends) ==
    \E e \in Editors :
        \/ edit[e].step \in MergeSteps /\ (g = Source \/ ends)
        \/ edit[e].step \in {"write", "start"} /\ edit[e].of = "add" /\ ends /\ g = edit[e].graph

-----------------------------------------------------------------------------
(* Reports *)

\* Where the report of a worker goes.
AddressOf(w) == IF graphStatus[w[1]] = "merged" THEN <<Target, w[2]>> ELSE w

\* The tasks once t has completed, and those that waited for it alone.
Reported(tasks, t) == Put(tasks, [u \in {t} |-> Node("completed", tasks[t].deps)])
Unblocked(tasks, t) ==
    {u \in DOMAIN tasks : tasks[u].status = "pending" /\ t \in tasks[u].deps /\ DepsReady(tasks, u)}

\* A report for an id that the graph does not know is an error, and lost.
OnTaskCompleted(w) ==
    LET g == AddressOf(w)[1]
        t == AddressOf(w)[2]
        ended == Reported(nodes[g], t)
        next == Unblocked(ended, t)
        after == Started(ended, next)
        ends == \A u \in DOMAIN after : after[u].status = "completed"
    IN  /\ w \in running
        /\ IF t \notin DOMAIN nodes[g] \/ nodes[g][t].status = "completed"
           THEN /\ running' = running \ {w}
                /\ UNCHANGED <<graphStatus, nodes, late>>
           ELSE /\ nodes' = [nodes EXCEPT ![g] = after]
                /\ running' = (running \ {w}) \cup {<<g, u>> : u \in next}
                /\ graphStatus' = IF ends /\ graphStatus[g] = "active"
                                  THEN [graphStatus EXCEPT ![g] = "completed"] ELSE graphStatus
                /\ late' = (late \/ MakesLate(g, ends))
        /\ UNCHANGED <<rejections, edit, editCount, readdressed>>

-----------------------------------------------------------------------------
(* add_task and reject_task *)

GetRejectionCount(g, t) == rejections[g][t]

BeginEdit(e, record) ==
    /\ edit[e].step = "none" /\ editCount < MaxEdits
    /\ editCount' = editCount + 1
    /\ edit' = [edit EXCEPT ![e] = record]

CanAdd(g, t, deps) ==
    graphStatus[g] = "active" /\ t \notin DOMAIN nodes[g] /\ deps \subseteq DOMAIN nodes[g]

AddTask(e) ==
    /\ \E g \in EditedGraphs, t \in NewTasks : \E deps \in SUBSET DOMAIN nodes[g] :
          /\ Cardinality(deps) <= 1 /\ CanAdd(g, t, deps)
          /\ BeginEdit(e, [of |-> "add", step |-> "write", graph |-> g, task |-> t, deps |-> deps])
    /\ UNCHANGED <<graphStatus, nodes, running, rejections, late, readdressed>>

\* The rejection is recorded before the task is added, which may be refused.
RejectTask(e) ==
    /\ \E g \in EditedGraphs : \E t \in DOMAIN rejections[g] :
          /\ t \in DOMAIN nodes[g] /\ nodes[g][t].status = "completed"
          /\ GetRejectionCount(g, t) < MaxReworks
          /\ LET rework == <<t[1], GetRejectionCount(g, t) + 1>>
             IN  BeginEdit(e, IF CanAdd(g, rework, {})
                          THEN [of |-> "add", step |-> "write", graph |-> g, task |-> rework,
                                deps |-> {}]
                          ELSE NoEdit)
          /\ rejections' = [rejections EXCEPT ![g][t] = @ + 1]
    /\ UNCHANGED <<graphStatus, nodes, running, late, readdressed>>

\* The graph and the id are not looked at again.
AddWrite(e) ==
    LET c == edit[e]
    IN  /\ c.step = "write" /\ c.of = "add"
        /\ nodes' = [nodes EXCEPT ![c.graph] =
                        Put(@, [t \in {c.task} |-> Node("pending", c.deps)])]
        /\ edit' = [edit EXCEPT ![e].step = "start"]
        /\ late' = (late \/ MakesLate(c.graph, FALSE) \/ graphStatus[c.graph] # "active"
                         \/ c.task \in DOMAIN nodes[c.graph])
        /\ UNCHANGED <<graphStatus, running, rejections, editCount, readdressed>>

\* Mutant: it starts what was ready when the call began.
AddStart_OfOld(e) ==
    LET c == edit[e]
        now == {t \in {c.task} : c.deps = {}}
    IN  /\ c.step = "start" /\ c.of = "add"
        /\ nodes' = [nodes EXCEPT ![c.graph] = Started(@, now)]
        /\ running' = running \cup {<<c.graph, t>> : t \in now}
        /\ edit' = [edit EXCEPT ![e] = NoEdit]
        /\ UNCHANGED <<graphStatus, rejections, editCount, late, readdressed>>

\* The new task is started if its dependencies have completed by now.
AddStart(e) ==
    LET c == edit[e]
        now == {t \in {c.task} : DepsReady(nodes[c.graph], t)
                                   /\ nodes[c.graph][t].status \in {"pending", "running"}}
    IN  /\ c.step = "start" /\ c.of = "add"
        /\ nodes' = [nodes EXCEPT ![c.graph] = Started(@, now)]
        /\ running' = running \cup {<<c.graph, t>> : t \in now}
        /\ edit' = [edit EXCEPT ![e] = NoEdit]
        /\ UNCHANGED <<graphStatus, rejections, editCount, late, readdressed>>

-----------------------------------------------------------------------------
(* merge_graphs *)

\* The source's tasks as the target will have them: renamed where ids collide.
Renamed == DOMAIN nodes[Source] \cap DOMAIN nodes[Target]
NewId(t) == IF t \in Renamed THEN <<t[1], Fresh>> ELSE t
OldId(t) == CHOOSE u \in DOMAIN nodes[Source] : NewId(u) = t
Copies ==
    [t \in {NewId(u) : u \in DOMAIN nodes[Source]} |->
       Node(nodes[Source][OldId(t)].status, {NewId(d) : d \in nodes[Source][OldId(t)].deps})]

\* A bridge makes one task wait for one of the other graph.
Bridges ==
    LET ours == DOMAIN Copies
        theirs == DOMAIN nodes[Target]
    IN  {{<<t, d>>} : t \in ours, d \in theirs} \cup {{<<t, d>>} : t \in theirs, d \in ours}

\* Both graphs are looked at once.
MergeGraphs(e) ==
    /\ graphStatus[Source] = "active" /\ graphStatus[Target] = "active"
    /\ DOMAIN Copies \cap DOMAIN nodes[Target] = {}
    /\ Cardinality(DOMAIN Copies) = Cardinality(DOMAIN nodes[Source])
    /\ \E bridge \in {{}} \cup Bridges :
          BeginEdit(e, [of |-> "merge", step |-> "copy", copies |-> Copies, bridge |-> bridge])
    /\ readdressed' = (readdressed \/ \E t \in Renamed : nodes[Source][t].status = "running")
    /\ late' = (late \/ \E d \in Editors \ {e} : edit[d].step # "none")
    /\ UNCHANGED <<graphStatus, nodes, running, rejections>>

MergeCopy(e) ==
    /\ edit[e].step = "copy"
    /\ nodes' = [nodes EXCEPT ![Target] = Put(@, edit[e].copies)]
    /\ edit' = [edit EXCEPT ![e].step = "bridge"]
    /\ late' = (late \/ DOMAIN edit[e].copies \cap DOMAIN nodes[Target] # {})
    /\ UNCHANGED <<graphStatus, running, rejections, editCount, readdressed>>

\* What a bridge makes of the tasks.
Bridged(tasks, bridge) ==
    [t \in DOMAIN tasks |->
       [tasks[t] EXCEPT !.deps = @ \cup {p[2] : p \in {q \in bridge : q[1] = t}}]]

MergeBridge(e) ==
    /\ edit[e].step = "bridge"
    /\ nodes' = [nodes EXCEPT ![Target] = Bridged(@, edit[e].bridge)]
    /\ edit' = [edit EXCEPT ![e].step = "mark"]
    /\ UNCHANGED <<graphStatus, running, rejections, editCount, late, readdressed>>

MergeMark(e) ==
    /\ edit[e].step = "mark"
    /\ graphStatus' = [graphStatus EXCEPT ![Source] = "merged"]
    /\ edit' = [edit EXCEPT ![e].step = "dispatch"]
    /\ UNCHANGED <<nodes, running, rejections, editCount, late, readdressed>>

\* Of the copies that had not started, those with nothing to wait for.  One that has ended by
\* now stops the call with an error.
MergeDispatch(e) ==
    LET free == {t \in DOMAIN edit[e].copies :
                   edit[e].copies[t].status = "pending" /\ DepsReady(nodes[Target], t)}
        now == IF \E t \in free : nodes[Target][t].status = "completed" THEN {} ELSE free
    IN  /\ edit[e].step = "dispatch"
        /\ nodes' = [nodes EXCEPT ![Target] = Started(@, now)]
        /\ running' = running \cup {<<Target, t>> : t \in now}
        /\ edit' = [edit EXCEPT ![e] = NoEdit]
        /\ UNCHANGED <<graphStatus, rejections, editCount, late, readdressed>>

EditsNext ==
    \/ \E w \in running : OnTaskCompleted(w)
    \/ \E e \in Editors :
          \/ AddTask(e) \/ RejectTask(e) \/ AddWrite(e) \/ AddStart(e)
          \/ MergeGraphs(e) \/ MergeCopy(e) \/ MergeBridge(e)
          \/ MergeMark(e) \/ MergeDispatch(e)

-----------------------------------------------------------------------------
(* Properties *)

NothingForgotten ==
    /\ \A g \in EditedGraphs : graphStatus[g] = "active" =>
          /\ \E t \in DOMAIN nodes[g] : nodes[g][t].status # "completed"
          /\ \A t \in DOMAIN nodes[g] :
                /\ nodes[g][t].status = "running" => \E w \in running : AddressOf(w) = <<g, t>>
                /\ nodes[g][t].status = "pending" => ~DepsReady(nodes[g], t)
    /\ graphStatus[Source] = "merged" =>
          \A t \in DOMAIN nodes[Source] : \E u \in DOMAIN nodes[Target] : u[1] = t[1]

\* Whatever is added, rejected and merged while reports come in, once no call is on its way no
\* task is forgotten: one that is running has a worker whose report finds it, and one that waits
\* has something to wait for.  Excused are graphs where a call was late, by a report of the
\* graph that is merged away, by the end of the graph that a task is added to or by another call
\* that took its id, and those where a running task has got a new id.
NothingForgottenAlone ==
    (\A e \in Editors : edit[e].step = "none") /\ ~late /\ ~readdressed => NothingForgotten
=============================================================================
