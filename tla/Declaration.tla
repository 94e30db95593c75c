----------------------------- MODULE Declaration -----------------------------
(***************************************************************************)
(* What becomes of a graph's input: the template that it comes from        *)
(* (template-engine.ts), the recipe and the defaults that fill its tasks   *)
(* (resolve-graph-input.ts), the checks of declare_task_graph and          *)
(* use_template, what declareGraph keeps of the tasks for the gate, and    *)
(* the criteria that the gate is made of when the graph has run.           *)
(*                                                                         *)
(* A command is where it comes from: the task of that id, the recipe, or   *)
(* the workspace's configuration.                                          *)
(***************************************************************************)
EXTENDS Naturals, Sequences, FiniteSets, SequencesExt

CONSTANTS
    Inputs,     \* the sequences of tasks that are tried
    Recipes,    \* the inline buildConfigs: service -> the commands it gives
    Defaults,   \* the commands that the workspace's configuration gives
    Criteria,   \* sets of the types of the acceptance criteria
    ItemCounts       \* the numbers of items of a template's parameter

None == "none"
Commands == {"install", "test", "integrationTest"}
CommandLines == [Commands -> STRING]

\* validation levels by their priority; the mechanical ones are unit and integration.
Priority == [none |-> 0, self |-> 1, unit |-> 2, integration |-> 3]

\* An id has the number of the item that the task is for, 0 as long as it is for none.
TaskIds == STRING \X Nat
InputTasks ==
    [id : TaskIds, deps : SUBSET TaskIds, forEach : BOOLEAN, level : DOMAIN Priority,
     service : STRING, commands : CommandLines]

ASSUME DeclarationAssumption ==
    /\ Inputs \subseteq Seq(InputTasks)
    /\ \A r \in Recipes : r \in [DOMAIN r -> CommandLines]
    /\ Defaults \subseteq CommandLines
    /\ ItemCounts \subseteq Nat

IsGated(t) == Priority[t.level] >= 2

VARIABLES
    tasks,      \* the input as it is being resolved
    recipe, defaults, criteria,
    phase,      \* where the input is
    level, gate, \* of the graph: the highest level, and the commands kept for its gate
    declared       \* the tasks of the graph

declarationVars == <<tasks, recipe, defaults, criteria, phase, level, gate, declared>>

DeclarationInit ==
    /\ tasks \in Inputs /\ recipe \in Recipes /\ defaults \in Defaults /\ criteria \in Criteria
    /\ phase = "template" /\ level = None
    /\ gate = [c \in Commands |-> None] /\ declared = {}

Refuse == phase' = "rejected" /\ UNCHANGED <<tasks, recipe, defaults, criteria, level, gate, declared>>

-----------------------------------------------------------------------------
(* Templates *)

\* A task for each item becomes as many, numbered; who depends on it depends on all of them.
Clones(t, n) == IF t.forEach THEN [i \in 1..n |-> [t EXCEPT !.id = <<t.id[1], i>>]] ELSE <<t>>
Rewired(deps, n) ==
    UNION {IF \E t \in ToSet(tasks) : t.id = d /\ t.forEach
           THEN {<<d[1], i>> : i \in 1..n} ELSE {d} : d \in deps}

ExpandTemplate ==
    /\ phase = "template"
    /\ \/ \E n \in ItemCounts :
             /\ n > 0
             /\ tasks' = FlattenSeq([k \in DOMAIN tasks |->
                            [c \in DOMAIN Clones(tasks[k], n) |->
                               [Clones(tasks[k], n)[c] EXCEPT !.deps = Rewired(@, n)]]])
             /\ phase' = "input"
             /\ UNCHANGED <<recipe, defaults, criteria, level, gate, declared>>
       \/ 0 \in ItemCounts /\ (\E t \in ToSet(tasks) : t.forEach) /\ Refuse

-----------------------------------------------------------------------------
(* Resolution *)

\* The service that a task names, or the only one.
ServiceOf(t) ==
    IF t.service # None THEN t.service
    ELSE IF Cardinality(DOMAIN recipe) = 1 THEN CHOOSE s \in DOMAIN recipe : TRUE ELSE None

\* The recipe fills what the task leaves open, and then the defaults do for its own level.
FromRecipe(t) ==
    IF ServiceOf(t) = None THEN t
    ELSE [t EXCEPT !.commands = [c \in Commands |->
            IF @[c] = None THEN recipe[ServiceOf(t)][c] ELSE @[c]]]
FromDefaults(t) ==
    LET fills(c) == \/ c = "test" /\ t.level = "unit"
                    \/ c = "integrationTest" /\ t.level = "integration"
    IN  [t EXCEPT !.commands = [c \in Commands |->
            IF @[c] = None /\ fills(c) THEN defaults[c] ELSE @[c]]]

ResolveGraphInput ==
    /\ phase = "input"
    /\ IF \/ {"agent", "exec"} \subseteq criteria
          \/ DOMAIN recipe # {}
             /\ \E t \in ToSet(tasks) : t.service \notin DOMAIN recipe \cup {None}
       THEN Refuse
       ELSE /\ tasks' = [k \in DOMAIN tasks |->
                FromDefaults(IF DOMAIN recipe = {} THEN tasks[k] ELSE FromRecipe(tasks[k]))]
            /\ phase' = "resolved"
            /\ UNCHANGED <<recipe, defaults, criteria, level, gate, declared>>

-----------------------------------------------------------------------------
(* Checks *)

HasUnresolvedValidationGate == \E t \in ToSet(tasks) : t.level # None /\ t.commands["test"] = None

\* A gated task may install by its install command or within its test.
HasValidationInstallGap ==
    LET gated == {t \in ToSet(tasks) : IsGated(t)}
    IN  /\ gated # {}
        /\ \A t \in gated : t.commands["install"] = None /\ t.commands["test"] # "installs"

Ids == {t.id : t \in ToSet(tasks)}

\* The ids that Kahn's algorithm visits: those with nothing to wait for, and so on.
Visited ==
    LET visit[n \in 0..Len(tasks)] ==
            IF n = 0 THEN {}
            ELSE {i \in Ids : \A t \in ToSet(tasks) : t.id = i => t.deps \subseteq visit[n - 1]}
    IN  visit[Len(tasks)]
ValidateDAG == (\A t \in ToSet(tasks) : t.deps \subseteq Ids) /\ Visited = Ids

MaxValidationLevel ==
    IF tasks = <<>> THEN None
    ELSE LET highest(t) == \A u \in ToSet(tasks) : Priority[u.level] <= Priority[t.level]
         IN  (CHOOSE t \in ToSet(tasks) : highest(t)).level

ValidateGraphInput == ValidateDAG /\ ~(Priority[MaxValidationLevel] >= 2 /\ "agent" \in criteria)

CheckInput ==
    /\ phase = "resolved"
    /\ IF HasUnresolvedValidationGate \/ HasValidationInstallGap THEN Refuse
       ELSE /\ phase' = "checked"
            /\ UNCHANGED <<tasks, recipe, defaults, criteria, level, gate, declared>>

-----------------------------------------------------------------------------
(* The graph *)

\* The first command of a task whose level is at least p.
FirstCommand(c, p) ==
    LET ks == {k \in DOMAIN tasks : Priority[tasks[k].level] >= p /\ tasks[k].commands[c] # None}
    IN  IF ks = {} THEN None ELSE tasks[CHOOSE k \in ks : \A j \in ks : k <= j].commands[c]

\* Mutant: the gate's test is the first of any task that is validated.
Aggregated_OfAny ==
    [install |-> FirstCommand("install", 2), test |-> FirstCommand("test", 1),
     integrationTest |-> FirstCommand("integrationTest", 3)]

Aggregated ==
    [install |-> FirstCommand("install", 2), test |-> FirstCommand("test", 2),
     integrationTest |-> FirstCommand("integrationTest", 3)]

\* A task whose id another one has as well takes its place.
DeclareGraph ==
    /\ phase = "checked"
    /\ IF ~ValidateGraphInput THEN Refuse
       ELSE /\ level' = MaxValidationLevel /\ gate' = Aggregated
            /\ declared' = {tasks[k] : k \in {j \in DOMAIN tasks :
                            \A i \in DOMAIN tasks : i > j => tasks[i].id # tasks[j].id}}
            /\ phase' = "active"
            /\ UNCHANGED <<tasks, recipe, defaults, criteria>>

\* The test that the synthesized gate runs, and what it is made of.
GateTest ==
    IF level = "integration" /\ gate.integrationTest # None THEN gate.integrationTest
    ELSE IF level \in {"unit", "integration"} THEN gate.test ELSE None

\* The graph has run: its criteria, with the gate unless there is an exec criterion already.
CompleteGraph ==
    /\ phase = "active"
    /\ criteria' = criteria \cup (IF GateTest # None THEN {"exec"} ELSE {})
    /\ phase' = IF level \in {"unit", "integration"} /\ "exec" \notin criteria'
                THEN "no runnable command" ELSE "judged"
    /\ UNCHANGED <<tasks, recipe, defaults, level, gate, declared>>

DeclarationNext ==
    ExpandTemplate \/ ResolveGraphInput \/ CheckInput \/ DeclareGraph \/ CompleteGraph

-----------------------------------------------------------------------------
(* Properties *)

Gated == {t \in declared : IsGated(t)}
OneEach == Cardinality(Ids) = Len(tasks)

\* No tasks wait in a circle: of any of them one waits for none of them.
NoCircle ==
    \A C \in (SUBSET {t.id : t \in declared}) \ {{}} :
        \E t \in declared : t.id \in C /\ t.deps \cap C = {}

\* What has been accepted can be run and is judged as it was asked to be: a task waits for tasks
\* that are there, never in a circle; each task of the input is among them; a task that is to be
\* validated mechanically gives the graph a gate which can run, with a test that such a task has
\* and, if one of them installs anything, an install before it, and no agent's criterion that
\* would take its place. Of tasks that share an id only the first of these is claimed.
AcceptedIsJudged ==
    phase \in {"judged", "no runnable command"} =>
        /\ \A t \in declared : t.deps \subseteq {u.id : u \in declared}
        /\ NoCircle
        /\ OneEach =>
              /\ Cardinality(declared) = Len(tasks)
              /\ Gated # {} =>
                    /\ phase = "judged" /\ "agent" \notin criteria /\ GateTest # None
                    /\ \E t \in Gated : GateTest \in {t.commands["test"], t.commands["integrationTest"]}
                    /\ (\E t \in Gated : t.commands["install"] # None) => gate.install # None
                    /\ gate.install = None => \E t \in Gated : t.commands["test"] = "installs"
=============================================================================
