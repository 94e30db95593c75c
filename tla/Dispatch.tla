------------------------------ MODULE Dispatch ------------------------------
(***************************************************************************)
(* From the order to run a task to a worker that has its token: what the   *)
(* dry run says of the task (tools/dry-run.ts), the dispatch handler       *)
(* (graph-dispatch.ts), the plan both use (runtime/resolve-loadout.ts,     *)
(* resolve-agent.ts, provider.ts, capability.ts), the command (spawner.ts) *)
(* and the Kubernetes objects (spawn/k8s-strategy.ts, k8s-manifest.ts).    *)
(*                                                                         *)
(* One task, or one criterion child, and its attempts.  The Job and the    *)
(* Secret with the worker's token are named after the task, so attempts    *)
(* share them.  The two Redis commands of an update are one step here.     *)
(***************************************************************************)
EXTENDS Naturals, FiniteSets

CONSTANTS
    MaxDispatches,  \* bound: attempts
    Budget,         \* the task's maxRetries
    MaxUpsets       \* bound: failed calls to the cluster, kills and crashes, together

ASSUME DispatchAssumption ==
    /\ MaxDispatches \in Nat \ {0} /\ Budget \in Nat /\ MaxUpsets \in Nat

Attempts == 1 .. MaxDispatches
Named == {"none", "known", "unknown"}

\* What the task asks for and what the engine has for it:
\*   criterion   a mechanical criterion of the gate, not a task of a graph
\*   role        agents/<role>.md, or dynamic/<role>.md, and the manifest's entry for it; a file
\*               of the name whose entry has another id; an entry of the name in another file
\*   provider, tools   the agent's provider, its template and its tools are all known
\*   toolchain, graphToolchain, destination   what the task or the graph names
\*   approved    the images of the registry are in the catalog
\*   validation, test   the task asks for a validation, has a test command
\*   services    the test services its graph declares
Plain ==
    [criterion |-> FALSE, role |-> "curated", provider |-> TRUE, tools |-> TRUE,
     toolchain |-> "none", graphToolchain |-> "none", approved |-> TRUE,
     destination |-> "none", validation |-> FALSE, test |-> TRUE, services |-> "none"]

\* The settings explored: plain but for at most two fields.
Values(f) ==
    IF f = "role" THEN {"curated", "dynamic", "file only", "entry only", "absent"}
    ELSE IF f \in {"toolchain", "graphToolchain", "destination", "services"} THEN Named
    ELSE BOOLEAN
Settings ==
    UNION {{[[Plain EXCEPT ![f] = a] EXCEPT ![g] = b] : a \in Values(f), b \in Values(g)} :
              f \in DOMAIN Plain, g \in DOMAIN Plain}

VARIABLES
    setting,    \* the one of Settings of this behaviour
    status,     \* the task record: .status
    failures,   \* .retries
    stamped,    \* the attempt of .sessionId, 0 when there is none
    equipped,   \* the attempt whose .capability the record has, 0 for none
    dispatches, \* how many attempts there have been
    step,       \* attempt -> where its handler is, or its exit poll
    secret,     \* the attempt whose token is in the Secret, 0 when there is none
    job,        \* the attempt the Job was created for, 0 when there is none
    pod,        \* the Job's pod
    deletions,  \* calls that delete objects and that nobody awaits
    upsets,     \* how many calls have failed, kills and crashes there have been
    refused,    \* history: the handler has refused the task
    crossed,  \* history: a deletion has met the object of a later attempt
    leaks       \* history: a Secret was left by a failed call or by a crash

record == <<status, failures, stamped, equipped>>
objects == <<secret, job, pod, deletions>>
dispatchVars == <<setting, record, dispatches, step, objects, upsets, refused, crossed, leaks>>

Ended == {"completed", "failed", "canceled"}
DispatchInit ==
    /\ setting \in Settings
    /\ status = "running" /\ failures = 0 /\ stamped = 0 /\ equipped = 0
    /\ dispatches = 1 /\ step = [a \in Attempts |-> IF a = 1 THEN "plan" ELSE "none"]
    /\ secret = 0 /\ job = 0 /\ pod = "none" /\ deletions = {}
    /\ upsets = 0 /\ refused = FALSE /\ crossed = FALSE /\ leaks = FALSE

Moves(a, here, next) == step[a] = here /\ step' = [step EXCEPT ![a] = next]

-----------------------------------------------------------------------------
(* The plan, and what the dry run and the handler make of it *)

\* The manifest is derived from the files' headers; the prompt is found by the file's name.
Listed(s) == s.role \in {"curated", "dynamic", "entry only"}
Prompt(s) == s.role \in {"curated", "dynamic", "file only"}

\* The agent's provider, and the tools of its template or of its header.  A role that is not
\* listed has the defaults.
ResolvedConfig(s) == ~Listed(s) \/ s.provider
ResolvedCapability(s) == ~Listed(s) \/ s.tools

\* The toolchain that is asked for: the task's own, or else the graph's; when none is, the
\* registry has a default.
Requested(s) == IF s.toolchain # "none" THEN s.toolchain ELSE s.graphToolchain
Toolchain(name) == name # "unknown"
Destination(name) == name # "unknown"

\* The plan of a task.  A throw on the way is kept as the plan's error: the worker then has
\* no tool but the ones added for review.
PlanOf(s) ==
    [known |-> Listed(s), error |-> ~ResolvedConfig(s) \/ ~ResolvedCapability(s),
     requested |-> Requested(s) # "none", image |-> Toolchain(Requested(s))]

\* A validation that has no test command to run.
UnresolvedGate(s) == s.validation /\ ~s.test

\* The errors in the report of the dry run.
Errors(s) ==
    LET plan == PlanOf(s)
    IN  {e \in {"unknown-role", "resolve-error", "gate-no-test", "bad-test-service",
                "unknown-toolchain", "image-not-approved"} :
            \/ e = "unknown-role" /\ ~plan.known
            \/ e = "resolve-error" /\ plan.error
            \/ e = "gate-no-test" /\ UnresolvedGate(s)
            \/ e = "bad-test-service" /\ s.services = "unknown"
            \/ e = "unknown-toolchain" /\ plan.requested /\ ~plan.image
            \/ e = "image-not-approved" /\ plan.image /\ ~s.approved}

\* Mutant: only what the task itself names is looked up in the registry.
Refusals_AlwaysNamed(s) ==
    {r \in {"prompt", "destination", "toolchain", "image", "test", "services"} :
        \/ r = "prompt" /\ ~Prompt(s)
        \/ r = "destination" /\ ~Destination(s.destination)
        \/ r = "toolchain" /\ s.toolchain # "known" /\ s.graphToolchain # "none"
        \/ r = "image" /\ PlanOf(s).image /\ ~s.approved
        \/ r = "test" /\ UnresolvedGate(s)
        \/ r = "services" /\ s.criterion /\ s.services = "unknown"}

\* Why the handler fails the task before it spawns anything.
Refusals(s) ==
    {r \in {"prompt", "destination", "toolchain", "image", "test", "services"} :
        \/ r = "prompt" /\ ~Prompt(s)
        \/ r = "destination" /\ ~Destination(s.destination)
        \/ r = "toolchain" /\ PlanOf(s).requested /\ ~PlanOf(s).image
        \/ r = "image" /\ PlanOf(s).image /\ ~s.approved
        \/ r = "test" /\ UnresolvedGate(s)
        \/ r = "services" /\ s.criterion /\ s.services = "unknown"}

-----------------------------------------------------------------------------
(* The handler *)

\* onTaskFailed: another attempt while the budget lasts.
OnFailed ==
    IF status \in Ended THEN UNCHANGED <<status, failures, stamped>>
    ELSE IF failures < Budget
         THEN status' = "pending" /\ failures' = failures + 1 /\ stamped' = 0
         ELSE status' = "failed" /\ UNCHANGED <<failures, stamped>>

Plan(a) ==
    /\ Moves(a, "plan", IF Refusals(setting) # {} THEN "over"
                     ELSE IF setting.criterion /\ setting.services = "known" THEN "lease" ELSE "equip")
    /\ IF Refusals(setting) # {}
       THEN refused' = TRUE /\ OnFailed /\ UNCHANGED equipped
       ELSE UNCHANGED <<record, refused>>
    /\ UNCHANGED <<setting, dispatches, objects, upsets, crossed, leaks>>

\* A criterion at integration level leases the graph's services; a lease may fail.
LeaseServices(a) ==
    /\ \/ Moves(a, "lease", "equip") /\ UNCHANGED <<record, upsets>>
       \/ /\ Moves(a, "lease", "over")
          /\ upsets < MaxUpsets /\ upsets' = upsets + 1
          /\ OnFailed /\ UNCHANGED equipped
    /\ UNCHANGED <<setting, dispatches, objects, refused, crossed, leaks>>

\* Mutant: the capability is left to the stamp after the spawn.
Equip_Late(a) ==
    /\ Moves(a, "equip", "secret")
    /\ UNCHANGED <<setting, record, dispatches, objects, upsets, refused, crossed, leaks>>

\* The capability goes to the record before there is a worker that could ask for it.
Equip(a) ==
    /\ Moves(a, "equip", "secret")
    /\ equipped' = a
    /\ UNCHANGED <<setting, status, failures, stamped, dispatches, objects, upsets, refused,
                   crossed, leaks>>

\* Mutant: the Secret that is already there will do.
CreateSecret_Keep(a) ==
    /\ Moves(a, "secret", "job")
    /\ secret' = IF secret = 0 THEN a ELSE secret
    /\ UNCHANGED <<setting, record, dispatches, job, pod, deletions, upsets, refused, crossed, leaks>>

\* The Secret with the token; the name may be taken by an earlier attempt's.
CreateSecret(a) ==
    /\ \/ Moves(a, "secret", "job") /\ secret = 0 /\ secret' = a
       \/ Moves(a, "secret", "stale secret") /\ secret # 0 /\ UNCHANGED secret
       \/ Moves(a, "stale secret", "new secret") /\ secret' = 0
       \/ Moves(a, "new secret", "job") /\ secret = 0 /\ secret' = a
    /\ UNCHANGED <<setting, record, dispatches, job, pod, deletions, upsets, refused, crossed, leaks>>

\* The Job, in the same way; its pod starts by itself.
CreateJob(a) ==
    /\ \/ Moves(a, "job", "stamp") /\ job = 0 /\ job' = a /\ pod' = "starting"
       \/ Moves(a, "job", "stale job") /\ job # 0 /\ UNCHANGED <<job, pod>>
       \/ Moves(a, "stale job", "new job") /\ job' = 0 /\ pod' = "none"
       \/ Moves(a, "new job", "stamp") /\ job = 0 /\ job' = a /\ pod' = "starting"
    /\ UNCHANGED <<setting, record, dispatches, secret, deletions, upsets, refused, crossed, leaks>>

\* A call to the cluster fails, or finds the name taken again, and the spawn throws.
SpawnFails(a) ==
    /\ step[a] \in {"secret", "stale secret", "new secret", "job", "stale job", "new job"}
    /\ step' = [step EXCEPT ![a] = "over"]
    /\ upsets < MaxUpsets /\ upsets' = upsets + 1
    /\ leaks' = (leaks \/ secret # 0)
    /\ OnFailed
    /\ UNCHANGED <<setting, equipped, dispatches, objects, refused, crossed>>

\* The session goes to the record, and running with it, whatever has become of the task.
StampSession(a) ==
    /\ Moves(a, "stamp", "watch")
    /\ stamped' = a /\ status' = "running" /\ equipped' = a
    /\ UNCHANGED <<setting, failures, dispatches, objects, upsets, refused, crossed, leaks>>

\* A retry's timer, retry_task or the next round of a resumed graph.
Redispatch ==
    /\ status = "pending" /\ dispatches < MaxDispatches
    /\ status' = "running" /\ dispatches' = dispatches + 1
    /\ step' = [step EXCEPT ![dispatches + 1] = "plan"]
    /\ UNCHANGED <<setting, failures, stamped, equipped, objects, upsets, refused, crossed, leaks>>

-----------------------------------------------------------------------------
(* The worker *)

\* The pod clones the base ref first, and fails when it cannot; then the agent's container
\* takes the token from the Secret of its name, or waits for one.
StartPod ==
    /\ \/ pod = "starting" /\ pod' \in {"broken", IF secret = 0 THEN "stuck" ELSE "up"}
       \/ pod = "stuck" /\ secret # 0 /\ pod' = "up"
    /\ UNCHANGED <<setting, record, dispatches, step, secret, job, deletions, upsets, refused,
                   crossed, leaks>>

\* The agent's process ends, well or badly.
EndPod ==
    /\ pod = "up" /\ pod' \in {"succeeded", "broken"}
    /\ UNCHANGED <<setting, record, dispatches, step, secret, job, deletions, upsets, refused,
                   crossed, leaks>>

\* Mutant: only a kill deletes the Secret.
FireExit_Leak(a) == deletions' = deletions

\* The poll's last word: the Secret is deleted, and nobody waits for that.
FireExit(a) == deletions' = deletions \cup {<<a, "secret">>}

\* The exit poll reads the Job by its name: whose it is, it cannot tell.
Poll(a) ==
    /\ Moves(a, "watch", "over")
    /\ pod \in {"succeeded", "broken"} \/ job = 0
    /\ IF pod = "broken" \/ (job = 0 /\ setting.criterion)
       THEN OnFailed
       ELSE /\ status' = (IF status = "running" THEN "completed" ELSE status)
            /\ UNCHANGED <<failures, stamped>>
    /\ FireExit(a)
    /\ UNCHANGED <<setting, equipped, dispatches, secret, job, pod, upsets, refused, crossed, leaks>>

\* kill_task (the task fails, and may be tried again) and cancel_task_graph.  The handle's
\* kill deletes the Job and then the Secret; the caller does not wait for it.
Kill(a) ==
    /\ status = "running" /\ stamped = a
    /\ upsets < MaxUpsets /\ upsets' = upsets + 1
    /\ Moves(a, "watch", "over")
    /\ deletions' = deletions \cup {<<a, "job">>}
    /\ \/ OnFailed
       \/ status' = "canceled" /\ UNCHANGED <<failures, stamped>>
    /\ UNCHANGED <<setting, equipped, dispatches, secret, job, pod, refused, crossed, leaks>>

\* The same without a handle, after a restart: the two are deleted by name, and awaited.
KillByIdentity(a) ==
    /\ status = "running" /\ stamped = a
    /\ upsets < MaxUpsets /\ upsets' = upsets + 1
    /\ Moves(a, "lost", "over")
    /\ job' = 0 /\ pod' = "none" /\ secret' = 0
    /\ \/ OnFailed
       \/ status' = "canceled" /\ UNCHANGED <<failures, stamped>>
    /\ UNCHANGED <<setting, equipped, dispatches, deletions, refused, crossed, leaks>>

\* The engine dies: its polls and the deletions it has not sent are gone.  (What becomes of a
\* task that was being dispatched is in WorkerLifecycle.)
EngineCrash ==
    /\ upsets < MaxUpsets /\ upsets' = upsets + 1
    /\ step' = [a \in Attempts |-> IF step[a] = "none" THEN "none"
                                   ELSE IF step[a] = "watch" THEN "lost" ELSE "over"]
    /\ deletions' = {}
    /\ leaks' = TRUE
    /\ UNCHANGED <<setting, record, dispatches, secret, job, pod, refused, crossed>>

\* The sweep ends the task of a Job that nobody polls, and deletes nothing.  (A sweep that is
\* faster than the poll is in WorkerLifecycle.)
SweepEnds(a) ==
    /\ Moves(a, "lost", "over")
    /\ pod \in {"succeeded", "broken"} \/ job = 0
    /\ IF pod = "broken" \/ (job = 0 /\ setting.criterion)
       THEN OnFailed
       ELSE /\ status' = (IF status = "running" THEN "completed" ELSE status)
            /\ UNCHANGED <<failures, stamped>>
    /\ UNCHANGED <<setting, equipped, dispatches, objects, upsets, refused, crossed, leaks>>

\* A deletion arrives: it is by name, and takes whatever has the name now.
Delete(d) ==
    /\ d \in deletions
    /\ LET found == IF d[2] = "job" THEN job ELSE secret
       IN  crossed' = (crossed \/ found \notin {0, d[1]})
    /\ IF d[2] = "job"
       THEN /\ job' = 0 /\ pod' = "none"
            /\ deletions' = (deletions \ {d}) \cup {<<d[1], "secret">>}
            /\ UNCHANGED secret
       ELSE secret' = 0 /\ deletions' = deletions \ {d} /\ UNCHANGED <<job, pod>>
    /\ UNCHANGED <<setting, record, dispatches, step, upsets, refused, leaks>>

DispatchNext ==
    \/ \E a \in Attempts :
        \/ Plan(a) \/ LeaseServices(a) \/ Equip(a) \/ CreateSecret(a) \/ CreateJob(a) \/ SpawnFails(a)
        \/ StampSession(a) \/ Poll(a) \/ Kill(a) \/ KillByIdentity(a) \/ SweepEnds(a)
    \/ Redispatch \/ StartPod \/ EndPod \/ EngineCrash
    \/ \E d \in deletions : Delete(d)

-----------------------------------------------------------------------------
\* What the dry run reports no error about is not refused: the two go through one plan, so
\* that they cannot drift (graph-dispatch.ts:282).  Two refusals it does not foresee: a role
\* that is listed under an id that is not the name of its file, and an unknown destination,
\* for which it promises the default repository (dry-run.ts:152).
PreviewIsTrueAlone ==
    refused => \/ Errors(setting) # {}
               \/ setting.role = "entry only"
               \/ setting.destination = "unknown"

\* The worker of the last attempt has the token of its own session, and finds its capability
\* in the record it is asked for by that token; its pod does not wait for a Secret that is
\* not there.  Not so when the deletion of an earlier attempt, which nobody waits for, has
\* met the objects of the next.
PodIsKnown ==
    pod \in {"stuck", "up"} /\ job = dispatches /\ ~crossed =>
        secret = job /\ equipped = job

\* When a task has ended and nothing is under way, its Secret is gone; an engine that crashed
\* and a spawn that failed half-way leave theirs.
SecretsEnd ==
    /\ status \in Ended /\ deletions = {} /\ ~leaks
    /\ \A a \in Attempts : step[a] \in {"none", "over"}
    => secret = 0

\* The token of a worker lives as long as its task: it is there, and the worker's own, while
\* the worker runs, and gone when the task has ended.
TokenFollowsTask == PodIsKnown /\ SecretsEnd

\* A task is dispatched as its preview said, and its worker has a token while it runs.
DispatchKeepsItsWord == PreviewIsTrueAlone /\ TokenFollowsTask
=============================================================================
