--------------------------- MODULE Workers_proofs ---------------------------
(*****************************************************************************)
(* Proofs about what workers are given and how they are known: the token and *)
(* the capability of a worker's dispatch, the proxied tools of an upstream   *)
(* server, the connections by which a worker reports, what telemetry says of *)
(* it, who is told how it ended, and when a silent one is warned and         *)
(* stopped. For any number of workers, connections, tasks and attempts, any  *)
(* tools, allowlist and cooldown, and any bounds.                            *)
(*****************************************************************************)
EXTENDS Dispatch, Gateway, Sessions, Telemetry, Reports, Interrogation, TLAPS


-----------------------------------------------------------------------------
\* Dispatch. The last attempt is equipped before it has a Secret, and has a Secret before it
\* has a Job; what a deletion on its way may meet is an earlier attempt's, or has ended.

DispatchSpec == DispatchInit /\ [][DispatchNext]_dispatchVars

SecretSteps == {"secret", "stale secret", "new secret"}
JobSteps == {"job", "stale job", "new job"}
StepNames == {"none", "plan", "lease", "equip"} \cup SecretSteps \cup JobSteps
             \cup {"stamp", "watch", "lost", "over"}
PodStates == {"none", "starting", "stuck", "up", "succeeded", "broken"}

DispatchTyped ==
    /\ dispatches \in Attempts /\ step \in [Attempts -> StepNames]
    /\ secret \in 0 .. dispatches /\ job \in 0 .. dispatches /\ pod \in PodStates
    /\ refused \in BOOLEAN /\ crossed \in BOOLEAN /\ leaks \in BOOLEAN

\* Attempts follow one another; while the last is at work the task runs.
OneAtATime ==
    /\ \A a \in Attempts :
          /\ a > dispatches => step[a] = "none"
          /\ a < dispatches => step[a] = "over"
    /\ step[dispatches] # "none" /\ (status = "pending" => step[dispatches] = "over")

DeletionsInv ==
    \A d \in deletions :
        /\ d[1] \in 1 .. dispatches /\ d[2] \in {"job", "secret"}
        /\ d[1] = dispatches =>
              /\ step[dispatches] = "over"
              /\ d[2] = "secret" => job # dispatches \/ pod \in {"succeeded", "broken"}

\* The last attempt is equipped before it has a Secret, and has a Secret before it has a Job.
KnownInv ==
    /\ step[dispatches] \in SecretSteps \cup JobSteps \cup {"stamp", "watch"}
          => equipped = dispatches
    /\ job = dispatches => step[dispatches] \in {"stamp", "watch", "lost", "over"}
    /\ job = dispatches => equipped = dispatches
    /\ ~crossed /\ step[dispatches] \in JobSteps => secret = dispatches
    /\ ~crossed /\ job = dispatches /\ pod \in {"starting", "stuck", "up"} => secret = dispatches

\* A Secret without an attempt that will see to it has a deletion on its way.
SecretInv ==
    ~leaks /\ secret # 0 =>
        \/ deletions # {}
        \/ step[dispatches] \in SecretSteps \cup JobSteps \cup {"stamp", "watch"}

RefusedInv == refused => Refusals(setting) # {}

DisInv == DispatchTyped /\ OneAtATime /\ DeletionsInv /\ KnownInv /\ SecretInv /\ RefusedInv

LEMMA PreviewForesees ==
    ASSUME RefusedInv
    PROVE  PreviewIsTrueAlone
<1> SUFFICES ASSUME refused, setting.role # "entry only", setting.destination # "unknown"
             PROVE  Errors(setting) # {}
  BY DEF PreviewIsTrueAlone
<1>1. PICK r \in Refusals(setting) : TRUE
  BY DEF RefusedInv
<1>2. \/ "unknown-role" \in Errors(setting)
      \/ "unknown-toolchain" \in Errors(setting)
      \/ "image-not-approved" \in Errors(setting)
      \/ "gate-no-test" \in Errors(setting)
      \/ "bad-test-service" \in Errors(setting)
  <2>1. CASE ~Prompt(setting)
    <3>1. ~PlanOf(setting).known
      BY <2>1 DEF Prompt, PlanOf, Listed
    <3> QED
      BY <3>1 DEF Errors
  <2>2. CASE PlanOf(setting).requested /\ ~PlanOf(setting).image
    BY <2>2 DEF Errors
  <2>3. CASE PlanOf(setting).image /\ ~setting.approved
    BY <2>3 DEF Errors
  <2>4. CASE UnresolvedGate(setting)
    BY <2>4 DEF Errors
  <2>5. CASE setting.services = "unknown"
    BY <2>5 DEF Errors
  <2> QED
    BY <1>1, <2>1, <2>2, <2>3, <2>4, <2>5 DEF Refusals, Destination
<1> QED
  BY <1>2

LEMMA TokensAreKept ==
    ASSUME DisInv
    PROVE  TokenFollowsTask
<1>1. PodIsKnown
  BY DEF DisInv, KnownInv, PodIsKnown
<1>2. SecretsEnd
  <2> SUFFICES ASSUME status \in Ended, deletions = {}, ~leaks,
                      \A a \in Attempts : step[a] \in {"none", "over"}
               PROVE  secret = 0
    BY DEF SecretsEnd
  <2>1. step[dispatches] \in {"none", "over"}
    BY DEF DisInv, DispatchTyped
  <2> QED
    BY <2>1 DEF DisInv, SecretInv, SecretSteps, JobSteps
<1> QED
  BY <1>1, <1>2 DEF TokenFollowsTask

LEMMA OnlyTheLast ==
    ASSUME DispatchTyped, OneAtATime, NEW a \in Attempts, step[a] \notin {"none", "over"}
    PROVE  a = dispatches
<1>1. a \in Nat /\ dispatches \in Nat
  BY DispatchAssumption DEF DispatchTyped, Attempts
<1>2. ~(a > dispatches) /\ ~(a < dispatches)
  BY DEF OneAtATime
<1> QED
  BY <1>1, <1>2

\* The steps before there is anything in the cluster.
LEMMA PreparingSteps ==
    ASSUME DisInv, NEW a \in Attempts, Plan(a) \/ LeaseServices(a) \/ Equip(a)
    PROVE  DisInv'
<1>1. /\ step[a] \in {"plan", "lease", "equip"}
      /\ \E next \in {"over", "lease", "equip", "secret"} : step' = [step EXCEPT ![a] = next]
      /\ UNCHANGED <<setting, dispatches, secret, job, pod, deletions, crossed, leaks>>
  BY DEF Plan, LeaseServices, Equip, Moves, objects
<1>2. a = dispatches
  BY <1>1, OnlyTheLast DEF DisInv
<1>3. /\ \/ equipped' = equipped /\ step'[a] \in {"over", "lease", "equip"}
         \/ equipped' = a /\ status' = status /\ step'[a] = "secret"
      /\ step'[a] # "over" => status' = status
  BY DEF Plan, LeaseServices, Equip, Moves, record, DisInv, DispatchTyped
<1>4. /\ step' \in [Attempts -> StepNames]
      /\ step'[dispatches] \in {"over", "lease", "equip", "secret"}
      /\ \A b \in Attempts : b # dispatches => step'[b] = step[b]
  <2>1. {"over", "lease", "equip", "secret"} \subseteq StepNames
    BY DEF StepNames, SecretSteps
  <2> QED
    BY <1>1, <1>2, <2>1 DEF DisInv, DispatchTyped
<1>5. refused' \in BOOLEAN /\ (refused' => Refusals(setting) # {})
  <2>1. refused \in BOOLEAN /\ (refused => Refusals(setting) # {})
    BY DEF DisInv, DispatchTyped, RefusedInv
  <2>2. \/ refused' = TRUE /\ Refusals(setting) # {}
        \/ refused' = refused
    BY DEF Plan, LeaseServices, Equip
  <2>3. CASE refused' = TRUE /\ Refusals(setting) # {}
    BY <2>3, Zenon
  <2>4. CASE refused' = refused
    BY <2>1, <2>4, Zenon
  <2> QED
    BY <2>2, <2>3, <2>4
<1>6. /\ job # dispatches /\ ~(\E d \in deletions : d[1] = dispatches)
  BY <1>1, <1>2 DEF DisInv, KnownInv, DeletionsInv
<1>7. DispatchTyped'
  BY <1>1, <1>4, <1>5 DEF DisInv, DispatchTyped
<1>8. OneAtATime'
  BY <1>1, <1>2, <1>3, <1>4 DEF DisInv, DispatchTyped, OneAtATime
<1>9. DeletionsInv'
  BY <1>1, <1>6 DEF DisInv, DeletionsInv
<1>10. KnownInv'
  BY <1>1, <1>2, <1>3, <1>4, <1>6 DEF KnownInv, SecretSteps, JobSteps
<1>11. SecretInv'
  BY <1>1, <1>2, <1>4 DEF DisInv, SecretInv, SecretSteps, JobSteps
<1>12. RefusedInv'
  BY <1>1, <1>5 DEF RefusedInv
<1> QED
  BY <1>7, <1>8, <1>9, <1>10, <1>11, <1>12 DEF DisInv

LEMMA CreatingSteps ==
    ASSUME DisInv, NEW a \in Attempts, CreateSecret(a) \/ CreateJob(a) \/ SpawnFails(a)
    PROVE  DisInv'
<1>1. /\ step[a] \in SecretSteps \cup JobSteps
      /\ UNCHANGED <<setting, equipped, dispatches, deletions, crossed, refused>>
  BY DEF CreateSecret, CreateJob, SpawnFails, Moves, record, objects, SecretSteps, JobSteps
<1>2. a = dispatches
  BY <1>1, OnlyTheLast DEF DisInv, SecretSteps, JobSteps
<1>3. PICK next \in SecretSteps \cup JobSteps \cup {"stamp", "over"} :
         step' = [step EXCEPT ![a] = next]
  BY DEF CreateSecret, CreateJob, SpawnFails, Moves, SecretSteps, JobSteps
<1>4. /\ step' \in [Attempts -> StepNames] /\ step'[dispatches] = next
      /\ \A b \in Attempts : b # dispatches => step'[b] = step[b]
  <2>1. SecretSteps \cup JobSteps \cup {"stamp", "over"} \subseteq StepNames
    BY DEF StepNames
  <2> QED
    BY <1>2, <1>3, <2>1 DEF DisInv, DispatchTyped
<1>5. /\ job # dispatches /\ ~(\E d \in deletions : d[1] = dispatches) /\ equipped = dispatches
      /\ step[dispatches] \in JobSteps /\ ~crossed => secret = dispatches
  BY <1>1, <1>2 DEF DisInv, KnownInv, DeletionsInv, SecretSteps, JobSteps
<1>6. \/ /\ next \in SecretSteps \cup JobSteps /\ job' \in {0, job} /\ pod' \in {pod, "none"}
         /\ next \in JobSteps =>
               secret' = dispatches \/ (step[dispatches] \in JobSteps /\ secret' = secret)
         /\ secret' \in {0, secret, dispatches} /\ UNCHANGED <<status, leaks>>
      \/ /\ next = "stamp" /\ job' = dispatches /\ pod' = "starting" /\ secret' = secret
         /\ step[dispatches] \in JobSteps /\ UNCHANGED <<status, leaks>>
      \/ /\ next = "over" /\ UNCHANGED <<job, pod, secret>> /\ (leaks' \/ secret = 0)
         /\ (~leaks' => ~leaks) /\ leaks' \in BOOLEAN
  <2>1. step'[a] = next
    BY <1>2, <1>4
  <2>2. CASE CreateSecret(a)
    BY <1>2, <2>1, <2>2, <1>3 DEF CreateSecret, Moves, record, SecretSteps, JobSteps, DisInv,
                                  DispatchTyped
  <2>3. CASE CreateJob(a)
    BY <1>2, <2>1, <2>3, <1>3 DEF CreateJob, Moves, record, SecretSteps, JobSteps, DisInv,
                                  DispatchTyped
  <2>4. CASE SpawnFails(a)
    BY <1>2, <2>1, <2>4, <1>3 DEF SpawnFails, objects, DisInv, DispatchTyped
  <2> QED
    BY <2>2, <2>3, <2>4
<1>t. dispatches \in Nat /\ dispatches > 0
  BY DispatchAssumption DEF DisInv, DispatchTyped, Attempts
<1>7. DispatchTyped'
  <2>1. /\ secret' \in 0 .. dispatches /\ job' \in 0 .. dispatches /\ pod' \in PodStates
        /\ leaks' \in BOOLEAN
    BY <1>6, <1>t DEF DisInv, DispatchTyped, PodStates
  <2> QED
    BY <1>1, <1>4, <2>1 DEF DisInv, DispatchTyped
<1>8. OneAtATime'
  <2>1. next = "over" \/ status' = status
    BY <1>6
  <2>2. status # "pending" /\ next # "none"
    BY <1>1, <1>2 DEF DisInv, OneAtATime, SecretSteps, JobSteps
  <2> QED
    BY <1>1, <1>2, <1>4, <2>1, <2>2 DEF DisInv, OneAtATime, DispatchTyped
<1>9. DeletionsInv'
  BY <1>1, <1>5 DEF DisInv, DeletionsInv
<1>10. KnownInv'
  <2>1. CASE next \in SecretSteps \cup JobSteps
    <3>0. next # "stamp" /\ next # "over"
      BY <2>1 DEF SecretSteps, JobSteps
    <3>1. job' # dispatches
      <4>1. job' \in {0, job}
        BY <1>6, <3>0
      <4> QED
        BY <4>1, <1>5, <1>t
    <3>2. ~crossed /\ next \in JobSteps => secret' = dispatches
      BY <1>5, <1>6, <2>1 DEF SecretSteps, JobSteps
    <3> QED
      BY <1>1, <1>4, <1>5, <3>1, <3>2 DEF KnownInv
  <2>2. CASE next = "stamp"
    <3>1. /\ job' = dispatches /\ secret' = secret /\ step[dispatches] \in JobSteps
      BY <1>6, <2>2 DEF SecretSteps, JobSteps
    <3> QED
      BY <1>1, <1>4, <1>5, <2>2, <3>1 DEF KnownInv, JobSteps
  <2>3. CASE next = "over"
    <3>1. job' = job
      BY <1>6, <2>3 DEF SecretSteps, JobSteps
    <3> QED
      BY <1>1, <1>4, <1>5, <2>3, <3>1 DEF KnownInv, SecretSteps, JobSteps
  <2> QED
    BY <2>1, <2>2, <2>3
<1>11. SecretInv'
  BY <1>1, <1>4, <1>6 DEF SecretInv
<1>12. RefusedInv'
  BY <1>1 DEF DisInv, RefusedInv
<1> QED
  BY <1>7, <1>8, <1>9, <1>10, <1>11, <1>12 DEF DisInv

LEMMA WatchingSteps ==
    ASSUME DisInv, NEW a \in Attempts,
           StampSession(a) \/ Poll(a) \/ Kill(a) \/ KillByIdentity(a) \/ SweepEnds(a)
    PROVE  DisInv'
<1>1. /\ step[a] \in {"stamp", "watch", "lost"}
      /\ UNCHANGED <<setting, dispatches, crossed, refused, leaks>>
  BY DEF StampSession, Poll, Kill, KillByIdentity, SweepEnds, Moves, objects, record
<1>2. a = dispatches
  BY <1>1, OnlyTheLast DEF DisInv
<1>t. dispatches \in Nat /\ dispatches > 0
  BY DispatchAssumption DEF DisInv, DispatchTyped, Attempts
<1>3. /\ \/ step' = [step EXCEPT ![a] = "watch"] /\ step[a] = "stamp" /\ status' = "running"
            /\ equipped' = a /\ UNCHANGED <<secret, job, pod, deletions>>
         \/ step' = [step EXCEPT ![a] = "over"] /\ equipped' = equipped
            /\ \/ /\ UNCHANGED <<secret, job, pod>>
                  /\ \/ /\ deletions' = deletions \cup {<<a, "secret">>}
                        /\ pod \in {"succeeded", "broken"} \/ job = 0
                     \/ deletions' = deletions \cup {<<a, "job">>}
                     \/ deletions' = deletions /\ step[a] = "lost"
               \/ secret' = 0 /\ job' = 0 /\ pod' = "none" /\ deletions' = deletions
  BY DEF StampSession, Poll, Kill, KillByIdentity, SweepEnds, Moves, objects, record, FireExit
<1>4. /\ step' \in [Attempts -> StepNames] /\ step'[dispatches] \in {"watch", "over"}
      /\ \A b \in Attempts : b # dispatches => step'[b] = step[b]
  <2>1. {"watch", "over"} \subseteq StepNames
    BY DEF StepNames
  <2> QED
    BY <1>2, <1>3, <2>1 DEF DisInv, DispatchTyped
<1>5. ~(\E d \in deletions : d[1] = dispatches)
  BY <1>1, <1>2 DEF DisInv, DeletionsInv
<1>7. DispatchTyped'
  <2>1. /\ secret' \in 0 .. dispatches /\ job' \in 0 .. dispatches /\ pod' \in PodStates
    BY <1>3, <1>t DEF DisInv, DispatchTyped, PodStates
  <2> QED
    BY <1>1, <1>4, <2>1 DEF DisInv, DispatchTyped
<1>8. OneAtATime'
  <2>1. step'[dispatches] = "over" \/ status' = "running"
    BY <1>2, <1>3, <1>4 DEF DisInv, DispatchTyped
  <2> QED
    BY <1>1, <1>2, <1>4, <2>1 DEF DisInv, OneAtATime, DispatchTyped
<1>9. DeletionsInv'
  <2>1. CASE deletions' = deletions
    BY <1>1, <1>5, <2>1 DEF DisInv, DeletionsInv
  <2>2. CASE deletions' = deletions \cup {<<a, "secret">>} /\ UNCHANGED <<job, pod>>
             /\ step'[dispatches] = "over" /\ (pod \in {"succeeded", "broken"} \/ job = 0)
    BY <1>1, <1>2, <1>5, <1>t, <2>2 DEF DisInv, DeletionsInv
  <2>3. CASE deletions' = deletions \cup {<<a, "job">>} /\ step'[dispatches] = "over"
    BY <1>1, <1>2, <1>5, <1>t, <2>3 DEF DisInv, DeletionsInv
  <2>4. step' = [step EXCEPT ![a] = "over"] => step'[dispatches] = "over"
    BY <1>2 DEF DisInv, DispatchTyped
  <2> QED
    BY <1>3, <2>1, <2>2, <2>3, <2>4
<1>10. KnownInv'
  <2>1. /\ job = dispatches => equipped = dispatches
        /\ ~crossed /\ job = dispatches /\ pod \in {"starting", "stuck", "up"}
              => secret = dispatches
    BY DEF DisInv, KnownInv
  <2>2. step' = [step EXCEPT ![a] = "over"] => step'[dispatches] = "over"
    BY <1>2 DEF DisInv, DispatchTyped
  <2> QED
    <3>1. CASE step' = [step EXCEPT ![a] = "watch"]
      <4>1. step'[dispatches] = "watch" /\ equipped' = dispatches /\ UNCHANGED <<secret, job, pod>>
        BY <1>2, <1>3, <1>4, <2>2, <3>1
      <4> QED
        BY <1>1, <2>1, <4>1 DEF KnownInv, SecretSteps, JobSteps
    <3>2. CASE step' = [step EXCEPT ![a] = "over"] /\ equipped' = equipped
               /\ UNCHANGED <<secret, job, pod>>
      BY <1>1, <2>1, <2>2, <3>2 DEF KnownInv, SecretSteps, JobSteps
    <3>3. CASE step' = [step EXCEPT ![a] = "over"] /\ equipped' = equipped /\ job' = 0
      <4>1. job' # dispatches
        BY <1>t, <3>3
      <4> QED
        BY <1>1, <2>2, <3>3, <4>1 DEF KnownInv, SecretSteps, JobSteps
    <3> QED
      BY <1>3, <3>1, <3>2, <3>3
<1>11. SecretInv'
  <2>1. step[a] = "lost" /\ ~leaks /\ secret # 0 => deletions # {}
    BY <1>2 DEF DisInv, SecretInv, SecretSteps, JobSteps
  <2>2. step' = [step EXCEPT ![a] = "watch"] => step'[dispatches] = "watch"
    BY <1>2 DEF DisInv, DispatchTyped
  <2> QED
    BY <1>1, <1>2, <1>3, <2>1, <2>2 DEF SecretInv
<1>12. RefusedInv'
  BY <1>1 DEF DisInv, RefusedInv
<1> QED
  BY <1>7, <1>8, <1>9, <1>10, <1>11, <1>12 DEF DisInv

LEMMA ClusterSteps ==
    ASSUME DisInv, StartPod \/ EndPod \/ (\E d \in deletions : Delete(d))
    PROVE  DisInv'
<1>1. UNCHANGED <<setting, status, equipped, dispatches, step, refused, leaks>>
  BY DEF StartPod, EndPod, Delete, record
<1>t. dispatches \in Nat /\ dispatches > 0
  BY DispatchAssumption DEF DisInv, DispatchTyped, Attempts
<1>2. CASE StartPod \/ EndPod
  <2>1. /\ UNCHANGED <<secret, job, deletions, crossed>>
        /\ pod' \in PodStates /\ pod \notin {"succeeded", "broken"}
        /\ pod' \in {"starting", "stuck", "up"} => pod \in {"starting", "stuck", "up"}
    BY <1>2 DEF StartPod, EndPod, PodStates
  <2>2. DispatchTyped'
    BY <1>1, <2>1 DEF DisInv, DispatchTyped
  <2>3. DeletionsInv'
    BY <1>1, <2>1 DEF DisInv, DeletionsInv
  <2>4. KnownInv'
    BY <1>1, <2>1 DEF DisInv, KnownInv
  <2> QED
    BY <1>1, <2>1, <2>2, <2>3, <2>4 DEF DisInv, OneAtATime, SecretInv, RefusedInv
<1>3. ASSUME NEW d \in deletions, Delete(d) PROVE DisInv'
  <2>1. /\ d[1] \in 1 .. dispatches /\ d[2] \in {"job", "secret"}
        /\ d[1] = dispatches =>
              /\ step[dispatches] = "over"
              /\ d[2] = "secret" => job # dispatches \/ pod \in {"succeeded", "broken"}
    BY <1>3 DEF DisInv, DeletionsInv
  <2>2. CASE d[2] = "job"
    <3>1. /\ job' = 0 /\ pod' = "none" /\ secret' = secret
          /\ deletions' = (deletions \ {d}) \cup {<<d[1], "secret">>}
          /\ crossed' = (crossed \/ job \notin {0, d[1]})
      BY <1>3, <2>2 DEF Delete
    <3>2. DispatchTyped'
      BY <1>1, <1>t, <3>1 DEF DisInv, DispatchTyped, PodStates
    <3>3. DeletionsInv'
      BY <1>1, <1>t, <2>1, <3>1 DEF DisInv, DeletionsInv
    <3>4. KnownInv'
      <4>1. job' # dispatches /\ (~crossed' => ~crossed)
        <5>1. job' # dispatches
          BY <1>t, <3>1
        <5>2. ~crossed' => ~crossed
          BY <3>1, Zenon
        <5> QED
          BY <5>1, <5>2
      <4>2. /\ step[dispatches] \in SecretSteps \cup JobSteps \cup {"stamp", "watch"}
                  => equipped = dispatches
            /\ ~crossed /\ step[dispatches] \in JobSteps => secret = dispatches
        BY DEF DisInv, KnownInv
      <4> QED
        BY <1>1, <3>1, <4>1, <4>2 DEF KnownInv
    <3> QED
      BY <1>1, <3>1, <3>2, <3>3, <3>4 DEF DisInv, OneAtATime, SecretInv, RefusedInv
  <2>3. CASE d[2] = "secret"
    <3>1. /\ job' = job /\ pod' = pod /\ secret' = 0
          /\ deletions' = deletions \ {d}
          /\ crossed' = (crossed \/ secret \notin {0, d[1]})
      BY <1>3, <2>3 DEF Delete
    <3>2. DispatchTyped'
      BY <1>1, <1>t, <3>1 DEF DisInv, DispatchTyped
    <3>3. DeletionsInv'
      BY <1>1, <3>1 DEF DisInv, DeletionsInv
    <3>4. KnownInv'
      <4>1. CASE crossed'
        BY <1>1, <3>1, <4>1 DEF DisInv, KnownInv
      <4>2. CASE ~crossed'
        <5>1. ~crossed /\ secret \in {0, d[1]}
          BY <3>1, <4>2
        <5>2. CASE d[1] = dispatches
          <6>1. /\ step[dispatches] = "over"
                /\ job # dispatches \/ pod \in {"succeeded", "broken"}
            BY <2>1, <2>3, <5>2
          <6> QED
            BY <1>1, <3>1, <6>1 DEF DisInv, KnownInv, JobSteps
        <5>3. CASE d[1] # dispatches
          <6>1. secret # dispatches
            BY <1>t, <5>1, <5>3
          <6> QED
            BY <1>1, <3>1, <5>1, <6>1 DEF DisInv, KnownInv
        <5> QED
          BY <5>2, <5>3
      <4> QED
        BY <4>1, <4>2
    <3> QED
      BY <1>1, <3>1, <3>2, <3>3, <3>4 DEF DisInv, OneAtATime, SecretInv, RefusedInv
  <2> QED
    BY <2>1, <2>2, <2>3
<1> QED
  BY <1>2, <1>3

LEMMA RestartingSteps ==
    ASSUME DisInv, Redispatch \/ EngineCrash
    PROVE  DisInv'
<1>t. /\ dispatches \in Nat /\ dispatches > 0 /\ Attempts = 1 .. MaxDispatches
      /\ MaxDispatches \in Nat
  BY DispatchAssumption DEF DisInv, DispatchTyped, Attempts
<1>1. CASE Redispatch
  <2>1. /\ status = "pending" /\ status' = "running" /\ dispatches' = dispatches + 1
        /\ dispatches < MaxDispatches /\ step' = [step EXCEPT ![dispatches + 1] = "plan"]
        /\ UNCHANGED <<setting, equipped, secret, job, pod, deletions, refused, crossed, leaks>>
    BY <1>1 DEF Redispatch, objects
  <2>2. dispatches + 1 \in Attempts /\ step[dispatches] = "over"
    BY <1>t, <2>1 DEF DisInv, OneAtATime
  <2>3. /\ step' \in [Attempts -> StepNames] /\ step'[dispatches + 1] = "plan"
        /\ \A b \in Attempts : b # dispatches + 1 => step'[b] = step[b]
    <3>1. "plan" \in StepNames
      BY DEF StepNames
    <3> QED
      BY <2>1, <2>2, <3>1 DEF DisInv, DispatchTyped
  <2>4. /\ secret \in 0 .. dispatches /\ job \in 0 .. dispatches
    BY DEF DisInv, DispatchTyped
  <2>5. DispatchTyped'
    BY <1>t, <2>1, <2>2, <2>3, <2>4 DEF DisInv, DispatchTyped
  <2>6. OneAtATime'
    <3>1. \A b \in Attempts : /\ b > dispatches + 1 => step'[b] = "none"
                              /\ b < dispatches + 1 => step'[b] = "over"
      <4> SUFFICES ASSUME NEW b \in Attempts
                   PROVE  /\ b > dispatches + 1 => step'[b] = "none"
                          /\ b < dispatches + 1 => step'[b] = "over"
        OBVIOUS
      <4>1. /\ b > dispatches => step[b] = "none"
            /\ b < dispatches => step[b] = "over"
        BY DEF DisInv, OneAtATime
      <4>2. /\ b > dispatches + 1 => b > dispatches /\ b # dispatches + 1
            /\ b < dispatches + 1 => (b < dispatches \/ b = dispatches) /\ b # dispatches + 1
        BY <1>t
      <4> QED
        BY <2>2, <2>3, <4>1, <4>2
    <3> QED
      BY <2>1, <2>3, <3>1 DEF OneAtATime
  <2>7. DeletionsInv'
    <3>1. \A d \in deletions : d[1] \in 1 .. dispatches /\ d[2] \in {"job", "secret"}
      BY DEF DisInv, DeletionsInv
    <3>2. \A d \in deletions : d[1] \in 1 .. dispatches + 1 /\ d[1] # dispatches + 1
      BY <1>t, <3>1
    <3> QED
      BY <2>1, <3>1, <3>2 DEF DeletionsInv
  <2>8. KnownInv'
    BY <1>t, <2>1, <2>3, <2>4 DEF KnownInv, SecretSteps, JobSteps
  <2>9. SecretInv'
    BY <2>1, <2>2 DEF DisInv, SecretInv, SecretSteps, JobSteps
  <2> QED
    BY <2>1, <2>5, <2>6, <2>7, <2>8, <2>9 DEF DisInv, RefusedInv
<1>2. CASE EngineCrash
  <2>1. /\ UNCHANGED <<setting, status, equipped, dispatches, secret, job, pod, refused, crossed>>
        /\ deletions' = {} /\ leaks' = TRUE
        /\ step' = [a \in Attempts |-> IF step[a] = "none" THEN "none"
                                       ELSE IF step[a] = "watch" THEN "lost" ELSE "over"]
    BY <1>2 DEF EngineCrash, record
  <2>2. /\ step' \in [Attempts -> StepNames]
        /\ \A a \in Attempts : /\ step[a] = "none" => step'[a] = "none"
                               /\ step[a] # "none" => step'[a] \in {"lost", "over"}
                               /\ step[a] = "over" => step'[a] = "over"
    BY <2>1 DEF StepNames
  <2>3. step'[dispatches] \in {"lost", "over"}
    BY <2>2 DEF DisInv, OneAtATime, DispatchTyped
  <2>4. DispatchTyped'
    BY <2>1, <2>2 DEF DisInv, DispatchTyped
  <2>5. OneAtATime'
    BY <2>1, <2>2, <2>3 DEF DisInv, OneAtATime, DispatchTyped
  <2>6. KnownInv'
    BY <2>1, <2>3 DEF DisInv, KnownInv, SecretSteps, JobSteps
  <2> QED
    BY <2>1, <2>4, <2>5, <2>6 DEF DisInv, DeletionsInv, SecretInv, RefusedInv
<1> QED
  BY <1>1, <1>2

LEMMA SpawnSteps ==
    ASSUME DisInv, [DispatchNext]_dispatchVars
    PROVE  DisInv'
<1>1. CASE UNCHANGED dispatchVars
  BY <1>1 DEF dispatchVars, record, objects, DisInv, DispatchTyped, OneAtATime, DeletionsInv,
              KnownInv, SecretInv, RefusedInv
<1> QED
  BY <1>1, PreparingSteps, CreatingSteps, WatchingSteps, ClusterSteps, RestartingSteps
     DEF DispatchNext

LEMMA SpawnBegins ==
    ASSUME DispatchInit
    PROVE  DisInv
<1>1. 1 \in Attempts
  BY DispatchAssumption DEF Attempts
<1>2. /\ dispatches = 1 /\ step = [a \in Attempts |-> IF a = 1 THEN "plan" ELSE "none"]
      /\ status = "running" /\ secret = 0 /\ job = 0 /\ pod = "none" /\ deletions = {}
      /\ refused = FALSE /\ crossed = FALSE /\ leaks = FALSE
  BY DEF DispatchInit
<1>3. step \in [Attempts -> StepNames] /\ step[1] = "plan"
  BY <1>1, <1>2 DEF StepNames
<1>4. DispatchTyped
  <2>1. 0 \in 0 .. 1 /\ "none" \in PodStates
    BY DEF PodStates
  <2> QED
    BY <1>1, <1>2, <1>3, <2>1 DEF DispatchTyped
<1>5. OneAtATime
  BY <1>1, <1>2, <1>3 DEF OneAtATime, Attempts
<1>6. KnownInv /\ DeletionsInv /\ SecretInv
  <2>1. step[dispatches] = "plan" /\ job # dispatches
    BY <1>2, <1>3
  <2>2. KnownInv
    BY <2>1 DEF KnownInv, SecretSteps, JobSteps
  <2> QED
    BY <1>2, <2>2 DEF DeletionsInv, SecretInv
<1> QED
  BY <1>2, <1>4, <1>5, <1>6 DEF DisInv, RefusedInv

\* A task is dispatched as its dry run said, and its worker has its own attempt's token while it
\* runs and leaves none behind, for any number of attempts, retries, failed calls and kills.
THEOREM DispatchAlwaysKeepsItsWord == DispatchSpec => []DispatchKeepsItsWord
<1>1. DispatchInit => DisInv
  BY SpawnBegins
<1>2. DisInv /\ [DispatchNext]_dispatchVars => DisInv'
  BY SpawnSteps
<1>3. DisInv => DispatchKeepsItsWord
  BY PreviewForesees, TokensAreKept DEF DispatchKeepsItsWord, DisInv
<1> QED
  BY <1>1, <1>2, <1>3, PTL DEF DispatchSpec


-----------------------------------------------------------------------------
\* The gateway. A client is connected once, and what a worker is offered is what it is
\* permitted. While a worker connects undisturbed, the breaker has not turned, so both of its
\* lists come to its share: the allowlist, if the server is open to it and up. That the
\* server's list is still the one it began with makes every list in the cache or on its way
\* the same.

GatewaySpec == GatewayInit /\ [][GatewayNext]_gatewayVars

Stages == {"none", "register", "built", "augment", "session", "call"}
Waiting == {"register", "augment", "call"}

GatewayTypeOK ==
    /\ upstream \in SUBSET UpstreamTools
    /\ client \in [connects : Nat, promise : {"none", "pending", "done"}]
    /\ listing \in [tools : SUBSET Allowlist, left : Nat]
    /\ joining \in [McpWorkers -> Stages]
    /\ proxied \in [McpWorkers -> [at : {"none", "connect", "answered"},
                                   tools : SUBSET UpstreamTools]]
    /\ offered \in [McpWorkers -> SUBSET Allowlist]
    /\ permitted \in [McpWorkers -> SUBSET Allowlist]
    /\ listings \in Nat \ {0}

ClientInv ==
    /\ client.promise = "none" => client.connects = 0
    /\ client.connects <= 1

\* What both lists of an undisturbed worker come to.
Share(w) == IF w \in Admitted /\ ~isDegraded THEN Allowlist ELSE {}

EntitledInv(w) ==
    /\ offered[w] # {} \/ permitted[w] # {} \/ joining[w] \in {"register", "augment"} =>
          w \in Admitted
    /\ proxied[w].at # "none" => joining[w] \in Waiting

ListInv ==
    listings = 1 =>
        /\ upstream = UpstreamTools
        /\ listing.left > 0 => listing.tools = Allowlist
        /\ \A w \in McpWorkers : proxied[w].at = "answered" => proxied[w].tools = UpstreamTools

UndisturbedInv(w) ==
    w \notin disturbed /\ listings = 1 =>
        /\ joining[w] \in {"register", "augment"} => ~isDegraded
        /\ joining[w] \in {"built", "augment"} => offered[w] = Share(w)
        /\ joining[w] \in {"session", "call"} => offered[w] = permitted[w]

GInv ==
    /\ GatewayTypeOK /\ ClientInv /\ ListInv
    /\ \A w \in McpWorkers : EntitledInv(w) /\ UndisturbedInv(w)

-----------------------------------------------------------------------------
LEMMA GatewayInitially == GatewayInit => GInv
  BY GatewayAssumption DEF GatewayInit, GInv, GatewayTypeOK, ClientInv, ListInv, EntitledInv,
     UndisturbedInv, FreshClient, NoRequest, Stages, Waiting

\* A worker of which nothing changes, nor the breaker, keeps what holds of it.
LEMMA Untouched ==
    ASSUME NEW w \in McpWorkers, EntitledInv(w), UndisturbedInv(w),
           joining'[w] = joining[w], proxied'[w].at = proxied[w].at,
           offered'[w] = offered[w], permitted'[w] = permitted[w],
           isDegraded' = isDegraded \/ joining[w] \notin {"register", "built", "augment"}
             \/ w \in disturbed',
           w \in disturbed => w \in disturbed', listings' = 1 => listings = 1
    PROVE  EntitledInv(w)' /\ UndisturbedInv(w)'
  BY DEF EntitledInv, UndisturbedInv, Share

LEMMA Taken ==
    ASSUME GatewayTypeOK, NEW w \in McpWorkers, NEW stage, NEW tools \in SUBSET Allowlist,
           Take(w, stage, tools)
    PROVE  /\ joining' \in [McpWorkers -> Stages]
           /\ offered' \in [McpWorkers -> SUBSET Allowlist]
           /\ permitted' \in [McpWorkers -> SUBSET Allowlist]
           /\ \/ /\ stage = "register" /\ joining'[w] = "built"
                 /\ offered'[w] = tools /\ permitted'[w] = permitted[w]
              \/ /\ stage = "augment" /\ joining'[w] = "session"
                 /\ permitted'[w] = tools /\ offered'[w] = offered[w]
           /\ \A v \in McpWorkers \ {w} :
                joining'[v] = joining[v] /\ offered'[v] = offered[v] /\ permitted'[v] = permitted[v]
<1>1. CASE stage = "register"
  <2>1. joining' = [joining EXCEPT ![w] = "built"] /\ offered' = [offered EXCEPT ![w] = tools]
          /\ permitted' = permitted
    BY <1>1 DEF Take
  <2> QED
    BY <1>1, <2>1 DEF GatewayTypeOK, Stages
<1>2. CASE stage # "register"
  <2>1. joining' = [joining EXCEPT ![w] = "session"] /\ permitted' = [permitted EXCEPT ![w] = tools]
          /\ offered' = offered /\ stage = "augment"
    BY <1>2 DEF Take
  <2> QED
    BY <2>1 DEF GatewayTypeOK, Stages
<1> QED
  BY <1>1, <1>2

LEMMA GatewaySteps == GInv /\ [GatewayNext]_gatewayVars => GInv'
<1> SUFFICES ASSUME GInv, [GatewayNext]_gatewayVars PROVE GInv'
  OBVIOUS
<1> USE GatewayAssumption DEF GInv, GatewayTypeOK, ClientInv, Stages, Waiting
<1>1. CASE ConnectSucceeds
  <2>1. isDegraded' = isDegraded
    BY <1>1 DEF ConnectSucceeds, isDegraded
  <2>2. \A w \in McpWorkers : EntitledInv(w)' /\ UndisturbedInv(w)'
    BY <1>1, <2>1, Untouched DEF ConnectSucceeds
  <2> QED
    BY <1>1, <2>2 DEF ConnectSucceeds, ListInv
<1>2. CASE UpstreamChanges
  <2>1. isDegraded' = isDegraded
    BY <1>2 DEF UpstreamChanges, isDegraded
  <2>2. listings' # 1 /\ listings' \in Nat \ {0}
    BY <1>2 DEF UpstreamChanges
  <2>3. \A w \in McpWorkers : EntitledInv(w)' /\ UndisturbedInv(w)'
    BY <1>2, <2>1, <2>2, Untouched DEF UpstreamChanges
  <2> QED
    BY <1>2, <2>2, <2>3 DEF UpstreamChanges, ListInv
<1>3. CASE Lapse
  <2>1. \A w \in Connecting : w \in disturbed' \/ isDegraded' = isDegraded
    BY <1>3 DEF Lapse, Disturb
  <2>2. \A w \in McpWorkers : EntitledInv(w)' /\ UndisturbedInv(w)'
    BY <1>3, <2>1, Untouched DEF Lapse, Disturb, Connecting
  <2>3. listing' \in [tools : SUBSET Allowlist, left : Nat] /\ listing'.tools = listing.tools
          /\ (listing'.left > 0 => listing.left > 0)
    BY <1>3 DEF Lapse, Lapsed
  <2> QED
    BY <1>3, <2>2, <2>3 DEF Lapse, ListInv
<1>4. ASSUME NEW w \in McpWorkers, RegisterProxyTools(w) \/ AugmentCapability(w) PROVE GInv'
  <2> DEFINE stage == IF joining[w] = "none" THEN "register" ELSE "augment"
  <2>1. /\ Introspect(w, stage) /\ stage \in {"register", "augment"}
        /\ joining[w] = IF stage = "register" THEN "none" ELSE "built"
    BY <1>4 DEF RegisterProxyTools, AugmentCapability
  <2> HIDE DEF stage
  <2>2. isDegraded' = isDegraded
    BY <2>1 DEF Introspect, isDegraded
  <2>3. \A v \in McpWorkers \ {w} : EntitledInv(v)' /\ UndisturbedInv(v)'
    <3> TAKE v \in McpWorkers \ {w}
    <3>1. joining'[v] = joining[v] /\ proxied'[v] = proxied[v] /\ offered'[v] = offered[v]
            /\ permitted'[v] = permitted[v]
      BY <2>1 DEF Introspect, Take, Proxy
    <3> QED
      BY <2>1, <2>2, <3>1, Untouched DEF Introspect
  <2>4. CASE ~Entitled(w) \/ isDegraded
    <3>1. /\ Take(w, stage, {})
          /\ UNCHANGED <<client, proxied, upstream, listing, breaker, listings, disturbed>>
      BY <2>1, <2>4 DEF Introspect
    <3>2. EntitledInv(w)' /\ UndisturbedInv(w)'
      <4>1. joining'[w] = (IF stage = "register" THEN "built" ELSE "session")
        BY <2>1, <3>1, Taken
      <4>2. /\ stage = "register" => offered'[w] = {} /\ permitted'[w] = permitted[w]
            /\ stage = "augment" => offered'[w] = offered[w] /\ permitted'[w] = {}
        BY <2>1, <3>1, Taken
      <4>3. Share(w) = {} /\ Share(w)' = {}
        BY <2>2, <2>4 DEF Share, Entitled
      <4> QED
        BY <2>1, <3>1, <4>1, <4>2, <4>3 DEF EntitledInv, UndisturbedInv
    <3> QED
      BY <2>3, <3>1, <3>2, Taken DEF ListInv
  <2>5. CASE Entitled(w) /\ ~isDegraded /\ listing.left > 0
    <3>1. /\ Take(w, stage, listing.tools)
          /\ UNCHANGED <<client, proxied, upstream, listing, breaker, listings, disturbed>>
      BY <2>1, <2>5 DEF Introspect
    <3>2. EntitledInv(w)' /\ UndisturbedInv(w)'
      BY <2>1, <2>2, <2>5, <3>1, Taken DEF Entitled, EntitledInv, UndisturbedInv, ListInv, Share
    <3> QED
      BY <2>3, <3>1, <3>2, Taken DEF ListInv
  <2>6. CASE Entitled(w) /\ ~isDegraded /\ ~(listing.left > 0)
    <3>1. /\ joining' = [joining EXCEPT ![w] = stage] /\ Proxy(w)
          /\ UNCHANGED <<offered, permitted, upstream, listing, breaker, listings, disturbed>>
      BY <2>1, <2>6 DEF Introspect
    <3>2. /\ proxied' \in [McpWorkers -> [at : {"none", "connect", "answered"},
                                          tools : SUBSET UpstreamTools]]
          /\ proxied'[w].at = "connect"
          /\ \A v \in McpWorkers \ {w} : proxied'[v] = proxied[v]
      BY <3>1 DEF Proxy, NoRequest
    <3>3. joining' \in [McpWorkers -> Stages] /\ joining'[w] = stage
      BY <2>1, <3>1
    <3>4. EntitledInv(w)' /\ UndisturbedInv(w)'
      BY <2>1, <2>2, <2>6, <3>1, <3>2, <3>3 DEF Entitled, EntitledInv, UndisturbedInv, Share
    <3>5. client' \in [connects : Nat, promise : {"none", "pending", "done"}] /\ ClientInv'
      BY <3>1 DEF Proxy, ConnectOnce
    <3>6. ListInv'
      BY <3>1, <3>2 DEF ListInv
    <3> QED
      BY <2>3, <3>1, <3>2, <3>3, <3>4, <3>5, <3>6
  <2> QED
    BY <2>4, <2>5, <2>6
<1>5. ASSUME NEW w \in McpWorkers, CallTool(w) PROVE GInv'
  <2>1. isDegraded' = isDegraded
    BY <1>5 DEF CallTool, isDegraded
  <2>2. \A v \in McpWorkers \ {w} : EntitledInv(v)' /\ UndisturbedInv(v)'
    BY <1>5, <2>1, Untouched DEF CallTool, Proxy
  <2> QED
    BY <1>5, <2>1, <2>2
    DEF CallTool, Proxy, ConnectOnce, NoRequest, EntitledInv, UndisturbedInv, ListInv
<1>6. ASSUME NEW w \in McpWorkers, ServerAnswers(w) PROVE GInv'
  <2>1. isDegraded' = isDegraded
    BY <1>6 DEF ServerAnswers, isDegraded
  <2>2. \A v \in McpWorkers \ {w} : EntitledInv(v)' /\ UndisturbedInv(v)'
    BY <1>6, <2>1, Untouched DEF ServerAnswers
  <2> QED
    BY <1>6, <2>1, <2>2 DEF ServerAnswers, EntitledInv, UndisturbedInv, ListInv, Share
<1>7. ASSUME NEW w \in McpWorkers, ListArrives(w) PROVE GInv'
  <2>1. isDegraded' = isDegraded
    BY <1>7 DEF ListArrives, isDegraded
  <2>2. \A v \in McpWorkers \ {w} : EntitledInv(v)' /\ UndisturbedInv(v)'
    BY <1>7, <2>1, Untouched DEF ListArrives, Take
  <2>3. proxied[w].tools \cap Allowlist \subseteq Allowlist
        /\ (listings = 1 => proxied[w].tools \cap Allowlist = Allowlist)
    BY <1>7 DEF ListArrives, ListInv
  <2>4. joining[w] \in {"register", "augment"}
    BY <1>7 DEF ListArrives, Take
  <2>5. EntitledInv(w)' /\ UndisturbedInv(w)'
    BY <1>7, <2>1, <2>3, <2>4
    DEF ListArrives, Take, NoRequest, EntitledInv, UndisturbedInv, ListInv, Share
  <2>6. ListInv'
    BY <1>7, <2>3 DEF ListArrives, Take, NoRequest, ListInv
  <2>7. /\ Take(w, joining[w], proxied[w].tools \cap Allowlist)
        /\ proxied' \in [McpWorkers -> [at : {"none", "connect", "answered"},
                                        tools : SUBSET UpstreamTools]]
        /\ listing' \in [tools : SUBSET Allowlist, left : Nat]
        /\ UNCHANGED <<upstream, client, listings>>
    BY <1>7, <2>3 DEF ListArrives, NoRequest
  <2> QED
    BY <2>2, <2>3, <2>5, <2>6, <2>7, Taken
<1>8. ASSUME NEW w \in McpWorkers, RecordSuccess(w) PROVE GInv'
  <2>1. \A v \in Connecting : v \in disturbed' \/ isDegraded' = isDegraded
    BY <1>8 DEF RecordSuccess, Disturb
  <2>2. \A v \in McpWorkers \ {w} : EntitledInv(v)' /\ UndisturbedInv(v)'
    BY <1>8, <2>1, Untouched DEF RecordSuccess, Disturb, Connecting
  <2> QED
    BY <1>8, <2>2 DEF RecordSuccess, Disturb, NoRequest, EntitledInv, UndisturbedInv, ListInv
<1>9. ASSUME NEW W \in SUBSET McpWorkers, Fail(W), \A v \in W : proxied[v].at # "none"
      PROVE /\ joining' \in [McpWorkers -> Stages]
            /\ proxied' \in [McpWorkers -> [at : {"none", "connect", "answered"},
                                            tools : SUBSET UpstreamTools]]
            /\ ListInv' /\ \A w \in McpWorkers : EntitledInv(w)' /\ UndisturbedInv(w)'
  <2>1. \A v \in Connecting : v \in disturbed' \/ (v \notin W /\ isDegraded' = isDegraded)
    BY <1>9 DEF Fail, Disturb
  <2>2. disturbed \subseteq disturbed'
    BY <1>9 DEF Fail, Disturb
  <2>3. \A v \in McpWorkers \ W : EntitledInv(v)' /\ UndisturbedInv(v)'
    BY <1>9, <2>1, <2>2, Untouched DEF Fail, Connecting
  <2>4. \A v \in W : EntitledInv(v)' /\ UndisturbedInv(v)'
    <3> TAKE v \in W
    <3>1. joining[v] \in Waiting /\ (joining[v] = "call" \/ v \in disturbed')
      BY <1>9, <2>1 DEF EntitledInv, Connecting
    <3>2. /\ joining'[v] = IF joining[v] = "register" THEN "built" ELSE "session"
          /\ proxied'[v].at = "none" /\ offered' = offered /\ permitted' = permitted
          /\ listings' = listings
      BY <1>9 DEF Fail, NoRequest
    <3> QED
      BY <2>2, <3>1, <3>2 DEF EntitledInv, UndisturbedInv
  <2> QED
    BY <1>9, <2>3, <2>4 DEF Fail, NoRequest, ListInv
<1>10. ASSUME NEW w \in McpWorkers, RequestFails(w) PROVE GInv'
  <2>1. Fail({w}) /\ {w} \in SUBSET McpWorkers /\ (\A v \in {w} : proxied[v].at # "none")
    BY <1>10 DEF RequestFails
  <2>2. UNCHANGED <<upstream, client, listing, offered, permitted, listings>>
    BY <1>10, <2>1 DEF RequestFails, Fail
  <2> QED
    BY <2>1, <2>2, <1>9
<1>11. CASE ConnectFails
  <2> DEFINE W == {w \in McpWorkers : proxied[w].at = "connect"}
  <2>1. Fail(W) /\ W \in SUBSET McpWorkers /\ (\A v \in W : proxied[v].at # "none")
    BY <1>11 DEF ConnectFails
  <2>2. client' = [connects |-> 0, promise |-> "none"]
          /\ UNCHANGED <<upstream, listing, offered, permitted, listings>>
    BY <1>11, <2>1 DEF ConnectFails, Fail, FreshClient
  <2> QED
    BY <2>1, <2>2, <1>9
<1>12. ASSUME NEW w \in McpWorkers, ProjectUnknown(w) PROVE GInv'
  <2>1. isDegraded' = isDegraded
    BY <1>12 DEF ProjectUnknown, isDegraded
  <2>2. \A v \in McpWorkers \ {w} : EntitledInv(v)' /\ UndisturbedInv(v)'
    BY <1>12, <2>1, Untouched DEF ProjectUnknown, Take
  <2>3. /\ \/ joining[w] = "none" /\ Take(w, "register", {})
           \/ joining[w] = "built" /\ Take(w, "augment", {})
        /\ w \in disturbed' /\ UNCHANGED <<upstream, client, listing, proxied, listings>>
    BY <1>12 DEF ProjectUnknown
  <2>4. EntitledInv(w)' /\ UndisturbedInv(w)'
    BY <2>3, Taken DEF EntitledInv, UndisturbedInv
  <2> QED
    BY <2>2, <2>3, <2>4, Taken DEF ListInv
<1>13. CASE UNCHANGED gatewayVars
  <2>1. isDegraded' = isDegraded
    BY <1>13 DEF gatewayVars, isDegraded
  <2> QED
    BY <1>13, <2>1, Untouched DEF gatewayVars, ListInv
<1> QED
  BY <1>1, <1>2, <1>3, <1>4, <1>5, <1>6, <1>7, <1>8, <1>10, <1>11, <1>12, <1>13 DEF GatewayNext

\* A client is connected once, whoever asks for it, however its attempts and the requests fail;
\* what a worker is offered it is permitted, unless something came in between, and never a tool
\* beyond the allowlist or of a server that is not open to it (mcp-gateway/gateway.ts).
THEOREM GatewayIsAlwaysShared == GatewaySpec => []GatewayIsShared
<1>1. GInv => GatewayIsShared
  BY DEF GInv, GatewayTypeOK, ClientInv, EntitledInv, UndisturbedInv, GatewayIsShared,
     ConnectedOnce, OfferedIsPermitted
<1> QED
  BY GatewayInitially, GatewaySteps, <1>1, PTL DEF GatewaySpec


-----------------------------------------------------------------------------
\* Sessions. A record of a worker that reports nowhere else is a record some connection or
\* some late answer accounts for: an update that writes over what it read keeps phase and
\* graph.

SessionsSpec == SessionsInit /\ [][SessionsNext]_sessionVars

Graphs == {TokenGraph, "target"}
Records == [phase : Phases \cup {"starting"}, graph : Graphs]

ConnectionsTyped ==
    /\ connection \in [Connections -> [of : Clients \cup {"none"},
                          at : {"none", "authenticating", "open", "gone"}, known : BOOLEAN]]
    /\ holds \in [Clients -> Connections \cup {0}]

PeersTyped ==
    /\ peer \in [Clients -> Records \cup {NoPeer}]
    /\ said \in [Clients -> Phases \cup {"starting", "none"}]
    /\ upset \in [Clients -> SUBSET {"overlapped", "remade", "closed", "expired", "engine died"}]

ToolsTyped ==
    toolUse \in [ToolUses -> [by : Clients \cup {"none"}, at : {"none", "get", "set"},
                     phase : Phases \cup {Unsaid, "none"}, read : Records \cup {NoPeer}]]

MergesTyped ==
    /\ heldBy \in [Clients -> Graphs]
    /\ repointing \in [Clients -> [at : {"none", "get", "set", "lost", "done"},
                          read : Records \cup {NoPeer}]]

SessionsTypeOK == ConnectionsTyped /\ PeersTyped /\ ToolsTyped /\ MergesTyped

\* A session that is being opened or is open is of a worker, and so is one that a worker holds.
ConnectionsInv ==
    /\ \A n \in Connections : connection[n].at \in {"authenticating", "open"} =>
          connection[n].of \in Clients
    /\ \A k \in Clients : holds[k] # 0 =>
          connection[holds[k]].of = k /\ connection[holds[k]].at \in {"open", "gone"}

\* What is about to be written was a record when it was read; a move comes before its record's.
WritersInv ==
    /\ \A u \in ToolUses : toolUse[u].at # "none" =>
          toolUse[u].by \in Clients /\ toolUse[u].phase # "none"
    /\ \A u \in ToolUses : toolUse[u].at = "set" => toolUse[u].read \in Records
    /\ \A k \in Clients : repointing[k].at = "set" => repointing[k].read \in Records
    /\ \A k \in Clients : repointing[k].at # "none" => heldBy[k] = "target"

SInv == SessionsTypeOK /\ ConnectionsInv /\ WritersInv /\ WorkersAreKnownByTheirRecords

LEMMA NoPeerIsNoRecord == NoPeer \notin Records /\ makeWorkerPeer \in Records
  BY DEF NoPeer, Records, Graphs, TokenGraph, makeWorkerPeer

LEMMA SessionsInitially == SessionsInit => SInv
  BY DEF SessionsInit, SInv, SessionsTypeOK, ConnectionsTyped, PeersTyped, ToolsTyped, MergesTyped,
         ConnectionsInv, WritersInv,
         WorkersAreKnownByTheirRecords, ConnectedAreListed, ListedAsTheySaid, ReportsFollowTheTask,
         HasRecord, Open, NoUse, NoMerge, Graphs

\* A step of the sessions that opens none leaves the records as they are.
LEMMA Undisturbed ==
    ASSUME SInv, ConnectionsTyped', ConnectionsInv',
           UNCHANGED <<peer, toolUse, heldBy, repointing, said, upset>>,
           \A k \in Clients : OpenFor(k)' = OpenFor(k),
           \A n \in Connections : Open(n)' <=> Open(n),
           \A k \in Clients : holds'[k] \in {0, holds[k]}
    PROVE  SInv'
<1> USE DEF SInv, SessionsTypeOK, WorkersAreKnownByTheirRecords
<1>1. PeersTyped' /\ ToolsTyped' /\ MergesTyped' /\ WritersInv'
  BY DEF PeersTyped, ToolsTyped, MergesTyped, WritersInv
<1>2. \A k \in Clients : holds'[k] # 0 => (Open(holds[k])' <=> Open(holds[k]))
  BY DEF ConnectionsTyped, Open
<1>3. ConnectedAreListed'
  BY <1>2 DEF ConnectedAreListed, HasRecord
<1>4. ListedAsTheySaid' /\ ReportsFollowTheTask'
  BY DEF ListedAsTheySaid, ReportsFollowTheTask, HasRecord, Addressee
<1> QED
  BY <1>1, <1>3, <1>4

\* So does a step of the tool calls that writes no record.
LEMMA RecordsAlone ==
    ASSUME SInv, ToolsTyped', WritersInv',
           UNCHANGED <<connection, holds, peer, heldBy, repointing, said, upset>>
    PROVE  SInv'
<1> USE DEF SInv, SessionsTypeOK, WorkersAreKnownByTheirRecords
<1>1. ConnectionsTyped' /\ PeersTyped' /\ MergesTyped' /\ ConnectionsInv'
  BY DEF ConnectionsTyped, PeersTyped, MergesTyped, ConnectionsInv
<1>2. ConnectedAreListed' /\ ListedAsTheySaid' /\ ReportsFollowTheTask'
  BY DEF ConnectedAreListed, ListedAsTheySaid, ReportsFollowTheTask, HasRecord, Open, OpenFor,
         Addressee
<1> QED
  BY <1>1, <1>2

\* An update of a phase: it fits what was read, or overlaps another.
LEMMA RecordRewritten ==
    ASSUME SInv, ToolsTyped', WritersInv', PeersTyped', NEW k \in Clients, NEW read \in Records,
           NEW new \in Records, NEW phase, NEW quiet \in BOOLEAN,
           new # NoPeer, read # NoPeer, new.phase = phase, new.graph = read.graph,
           quiet => phase = read.phase, peer'[k] = new,
           said'[k] = IF quiet THEN said[k] ELSE phase,
           \/ peer[k] = read /\ upset'[k] = upset[k]
           \/ upset'[k] = upset[k] \cup {"overlapped"},
           \A j \in Clients \ {k} :
               peer'[j] = peer[j] /\ said'[j] = said[j] /\ upset'[j] = upset[j],
           UNCHANGED <<connection, holds, heldBy, repointing>>
    PROVE  SInv'
<1> USE DEF SInv, SessionsTypeOK, WorkersAreKnownByTheirRecords
<1>1. ConnectionsTyped' /\ MergesTyped' /\ ConnectionsInv'
  BY DEF ConnectionsTyped, MergesTyped, ConnectionsInv
<1>2. ConnectedAreListed'
  BY DEF ConnectedAreListed, HasRecord, Open
<1>3. ListedAsTheySaid'
  BY DEF ListedAsTheySaid, HasRecord, Open, OpenFor
<1>4. ReportsFollowTheTask'
  BY DEF ReportsFollowTheTask, HasRecord, Addressee
<1> QED
  BY <1>1, <1>2, <1>3, <1>4

LEMMA SessionsSteps == SInv /\ [SessionsNext]_sessionVars => SInv'
<1> SUFFICES ASSUME SInv, [SessionsNext]_sessionVars PROVE SInv'
  OBVIOUS
<1> USE NoPeerIsNoRecord DEF SInv, SessionsTypeOK, WorkersAreKnownByTheirRecords
<1>1. ASSUME NEW k \in Clients, NEW n \in Connections, Connect(k, n) PROVE SInv'
  <2>1. /\ connection[n].at = "none"
        /\ connection' = [connection EXCEPT ![n] =
              [of |-> k, at |-> "authenticating", known |-> FALSE]]
        /\ UNCHANGED <<holds, peer, toolUse, heldBy, repointing, uses, faults, said, upset>>
    BY <1>1 DEF Connect
  <2>2. ConnectionsTyped'
    BY <2>1 DEF ConnectionsTyped
  <2>3. /\ connection'[n].of = k /\ connection'[n].at = "authenticating"
        /\ \A m \in Connections \ {n} : connection'[m] = connection[m]
    BY <2>1 DEF ConnectionsTyped
  <2>4. ConnectionsInv'
    BY <2>1, <2>3 DEF ConnectionsTyped, ConnectionsInv
  <2>5. /\ \A j \in Clients : OpenFor(j)' = OpenFor(j)
        /\ \A m \in Connections : Open(m)' <=> Open(m)
    BY <2>1, <2>3 DEF Open, OpenFor
  <2> QED
    BY <2>1, <2>2, <2>4, <2>5, Undisturbed
<1>2. ASSUME NEW n \in Connections, AuthenticationRejected(n) PROVE SInv'
  <2>1. /\ connection[n].at = "authenticating"
        /\ connection' = [connection EXCEPT ![n].at = "gone"]
        /\ UNCHANGED <<holds, peer, toolUse, heldBy, repointing, uses, faults, said, upset>>
    BY <1>2 DEF AuthenticationRejected
  <2>2. ConnectionsTyped'
    BY <2>1 DEF ConnectionsTyped
  <2>3. /\ connection'[n].at = "gone" /\ connection'[n].of = connection[n].of
        /\ \A m \in Connections \ {n} : connection'[m] = connection[m]
    BY <2>1 DEF ConnectionsTyped
  <2>4. ConnectionsInv'
    BY <2>1, <2>3 DEF ConnectionsTyped, ConnectionsInv
  <2>5. /\ \A j \in Clients : OpenFor(j)' = OpenFor(j)
        /\ \A m \in Connections : Open(m)' <=> Open(m)
    BY <2>1, <2>3 DEF Open, OpenFor
  <2> QED
    BY <2>1, <2>2, <2>4, <2>5, Undisturbed
<1>3. ASSUME NEW n \in Connections, SessionInitialized(n) PROVE SInv'
  <2>0. PICK k : k = connection[n].of
    OBVIOUS
  <2> DEFINE remain == (upset[k] \cap {"overlapped"})
                       \cup (IF heldBy[k] = TokenGraph THEN {} ELSE {"remade"})
  <2>1. /\ connection[n].at = "authenticating" /\ k \in Clients
        /\ peer' = [peer EXCEPT ![k] = makeWorkerPeer] /\ said' = [said EXCEPT ![k] = "starting"]
        /\ upset' = [upset EXCEPT ![k] = remain]
        /\ \/ connection' = [connection EXCEPT ![n].at = "open", ![n].known = TRUE]
           \/ connection' = [connection EXCEPT ![n].at = "open"]
        /\ holds' = holds \/ holds' = [holds EXCEPT ![k] = n]
        /\ UNCHANGED <<toolUse, heldBy, repointing>>
    BY <1>3, <2>0 DEF SessionInitialized, Writes, ConnectionsInv
  <2>2. /\ connection'[n].of = k /\ connection'[n].at = "open"
        /\ \A m \in Connections \ {n} : connection'[m] = connection[m]
    BY <2>0, <2>1 DEF ConnectionsTyped
  <2>3. ConnectionsTyped'
    BY <2>1 DEF ConnectionsTyped
  <2>4. /\ peer'[k] = makeWorkerPeer /\ said'[k] = "starting" /\ upset'[k] = remain
        /\ \A j \in Clients \ {k} :
              peer'[j] = peer[j] /\ said'[j] = said[j] /\ upset'[j] = upset[j]
        /\ PeersTyped'
    <3>1. remain \in SUBSET {"overlapped", "remade", "closed", "expired", "engine died"}
      OBVIOUS
    <3> HIDE DEF remain
    <3> QED
      BY <2>1, <3>1 DEF PeersTyped
  <2>5. ConnectionsInv'
    BY <2>0, <2>1, <2>2 DEF ConnectionsTyped, ConnectionsInv
  <2>6. WritersInv' /\ ToolsTyped' /\ MergesTyped'
    BY <2>1 DEF WritersInv, ToolsTyped, MergesTyped
  <2>7. n \in OpenFor(k)' /\ \A j \in Clients \ {k} : OpenFor(j)' = OpenFor(j)
    BY <2>0, <2>2 DEF Open, OpenFor
  <2>8. \A j \in Clients \ {k} :
           holds'[j] = holds[j] /\ (Open(holds[j])' /\ holds[j] # 0 => Open(holds[j]))
    BY <2>0, <2>1, <2>2 DEF ConnectionsTyped, ConnectionsInv, Open
  <2>9. ConnectedAreListed'
    BY <2>1, <2>4, <2>8 DEF ConnectedAreListed, HasRecord
  <2>10. ListedAsTheySaid'
    <3> HIDE DEF remain
    <3>1. OpenFor(k)' # {} /\ makeWorkerPeer.phase = "starting"
      BY <2>7 DEF makeWorkerPeer
    <3> QED
      BY <2>4, <2>7, <3>1 DEF ListedAsTheySaid, HasRecord
  <2>11. ReportsFollowTheTask'
    <3>1. repointing[k].at = "done" => "remade" \in remain
      BY <2>1 DEF WritersInv, TokenGraph
    <3> HIDE DEF remain
    <3> QED
      BY <2>1, <2>4, <3>1 DEF ReportsFollowTheTask, HasRecord, Addressee
  <2> QED
    BY <2>3, <2>4, <2>5, <2>6, <2>9, <2>10, <2>11
<1>4. ASSUME NEW k \in Clients, Disconnect(k) PROVE SInv'
  <2>1. /\ holds' = [holds EXCEPT ![k] = 0]
        /\ UNCHANGED <<connection, peer, toolUse, heldBy, repointing, said, upset>>
    BY <1>4 DEF Disconnect
  <2>2. holds'[k] = 0 /\ \A j \in Clients \ {k} : holds'[j] = holds[j]
    BY <2>1 DEF ConnectionsTyped
  <2>3. ConnectionsTyped' /\ ConnectionsInv'
    BY <2>1, <2>2 DEF ConnectionsTyped, ConnectionsInv
  <2>4. /\ \A j \in Clients : OpenFor(j)' = OpenFor(j)
        /\ \A m \in Connections : Open(m)' <=> Open(m)
    BY <2>1 DEF Open, OpenFor
  <2> QED
    BY <2>1, <2>2, <2>3, <2>4, Undisturbed
<1>5. ASSUME NEW n \in Connections, CloseSession(n) PROVE SInv'
  <2> DEFINE k == connection[n].of
  <2>1. /\ connection[n].at = "open" /\ k \in Clients
        /\ connection' = [connection EXCEPT ![n].at = "gone"]
        /\ peer' = [peer EXCEPT ![k] = NoPeer]
        /\ holds' = [holds EXCEPT ![k] = IF @ = n THEN 0 ELSE @]
        /\ \/ OpenFor(k) = {n} /\ upset' = upset
           \/ upset' = [upset EXCEPT ![k] = @ \cup {"closed"}]
        /\ UNCHANGED <<toolUse, heldBy, repointing, said>>
    BY <1>5 DEF CloseSession, Writes, Upsets, ConnectionsInv, Open
  <2>2. /\ connection'[n].of = k /\ connection'[n].at = "gone"
        /\ \A m \in Connections \ {n} : connection'[m] = connection[m]
    BY <2>1 DEF ConnectionsTyped
  <2> HIDE DEF k
  <2>3. ConnectionsTyped'
    BY <2>1 DEF ConnectionsTyped
  <2>4. /\ holds'[k] = IF holds[k] = n THEN 0 ELSE holds[k]
        /\ \A j \in Clients \ {k} : holds'[j] = holds[j]
    BY <2>1 DEF ConnectionsTyped
  <2>5. ConnectionsInv'
    BY <2>1, <2>2, <2>4 DEF ConnectionsTyped, ConnectionsInv, k
  <2>6. /\ peer'[k] = NoPeer /\ upset'[k] \in {upset[k], upset[k] \cup {"closed"}}
        /\ \A j \in Clients \ {k} : peer'[j] = peer[j] /\ upset'[j] = upset[j]
        /\ PeersTyped'
    BY <2>1 DEF PeersTyped
  <2>7. "closed" \in upset'[k] \/ OpenFor(k) = {n}
    BY <2>1 DEF PeersTyped
  <2>8. \A j \in Clients \ {k} : OpenFor(j)' = OpenFor(j)
    BY <2>2 DEF Open, OpenFor, k
  <2>9. WritersInv' /\ ToolsTyped' /\ MergesTyped'
    BY <2>1 DEF WritersInv, ToolsTyped, MergesTyped
  <2>10. ConnectedAreListed'
    <3> SUFFICES ASSUME NEW j \in Clients, holds'[j] # 0, Open(holds[j])',
                        upset'[j] \cap {"expired", "closed"} = {}
                 PROVE  HasRecord(j)'
      BY DEF ConnectedAreListed, Open
    <3>1. CASE j = k
      <4>1. holds'[k] = holds[k] /\ holds[k] # n /\ holds[k] \in OpenFor(k)
        BY <2>2, <2>4, <3>1 DEF ConnectionsTyped, ConnectionsInv, Open, OpenFor
      <4> QED
        BY <2>7, <3>1, <4>1
    <3>2. CASE j # k
      <4>1. holds[j] # 0 /\ Open(holds[j])
        BY <2>2, <2>4, <3>2 DEF ConnectionsTyped, ConnectionsInv, Open
      <4> QED
        BY <2>6, <3>2, <4>1 DEF ConnectedAreListed, HasRecord
    <3> QED
      BY <3>1, <3>2
  <2>11. ListedAsTheySaid' /\ ReportsFollowTheTask'
    BY <2>1, <2>6, <2>8 DEF ListedAsTheySaid, ReportsFollowTheTask, HasRecord, Addressee
  <2> QED
    BY <2>3, <2>5, <2>6, <2>9, <2>10, <2>11
<1>6. ASSUME StopEngine \/ EngineDies PROVE SInv'
  <2>1. Leave /\ UNCHANGED <<heldBy, said>>
    BY <1>6 DEF StopEngine, EngineDies
  <2>2. /\ \A n \in Connections : /\ connection'[n].of = connection[n].of
                                  /\ connection'[n].at \in {"none", "gone"}
        /\ \A k \in Clients : holds'[k] = 0
        /\ ConnectionsTyped'
    BY <2>1 DEF Leave, ConnectionsTyped
  <2>3. ConnectionsInv' /\ ConnectedAreListed'
    BY <2>2 DEF ConnectionsInv, ConnectedAreListed
  <2>4. CASE StopEngine
    <3>1. /\ peer' = [k \in Clients |-> IF OpenFor(k) = {} THEN peer[k] ELSE NoPeer]
          /\ UNCHANGED <<toolUse, repointing, upset>>
      BY <2>4 DEF StopEngine
    <3>2. PeersTyped' /\ ToolsTyped' /\ MergesTyped' /\ WritersInv'
      BY <2>1, <3>1 DEF PeersTyped, ToolsTyped, MergesTyped, WritersInv
    <3>3. ListedAsTheySaid' /\ ReportsFollowTheTask'
      BY <2>1, <3>1 DEF ListedAsTheySaid, ReportsFollowTheTask, HasRecord, Addressee
    <3> QED
      BY <2>2, <2>3, <3>2, <3>3
  <2>5. CASE EngineDies
    <3> DEFINE next(m) == IF m.at \in {"none", "done"} THEN m ELSE [NoMerge EXCEPT !.at = "lost"]
    <3>1. /\ toolUse' = [u \in ToolUses |-> NoUse] /\ peer' = peer
          /\ upset' = [k \in Clients |-> upset[k] \cup {"engine died"}]
          /\ repointing' = [k \in Clients |-> next(repointing[k])]
      BY <2>5 DEF EngineDies
    <3>2. PeersTyped' /\ ToolsTyped'
      BY <2>1, <3>1 DEF PeersTyped, ToolsTyped, NoUse
    <3>3. /\ \A k \in Clients :
                \/ repointing'[k] = repointing[k] /\ repointing[k].at \in {"none", "done"}
                \/ repointing'[k].at = "lost" /\ repointing[k].at # "none"
          /\ MergesTyped'
      <4> DEFINE lost == [NoMerge EXCEPT !.at = "lost"]
      <4>1. lost = [at |-> "lost", read |-> NoPeer]
        BY DEF NoMerge
      <4>2. lost.at = "lost"
            /\ lost \in [at : {"none", "get", "set", "lost", "done"}, read : Records \cup {NoPeer}]
        BY <4>1
      <4> HIDE DEF lost
      <4>3. \A k \in Clients :
                repointing'[k] = IF repointing[k].at \in {"none", "done"} THEN repointing[k]
                                 ELSE lost
        BY <3>1 DEF lost
      <4>4. repointing' \in [Clients -> [at : {"none", "get", "set", "lost", "done"},
                                         read : Records \cup {NoPeer}]]
        <5>1. repointing' = [k \in Clients |-> repointing'[k]]
          BY <3>1
        <5> QED
          BY <4>2, <4>3, <5>1 DEF MergesTyped
      <4>5. MergesTyped'
        BY <2>1, <4>4 DEF MergesTyped
      <4> QED
        BY <4>2, <4>3, <4>5
    <3>4. WritersInv'
      BY <2>1, <3>1, <3>3 DEF WritersInv, NoUse
    <3>5. ListedAsTheySaid'
      BY <2>1, <3>1 DEF ListedAsTheySaid, HasRecord
    <3>6. ReportsFollowTheTask'
      BY <2>1, <3>1, <3>3 DEF ReportsFollowTheTask, HasRecord, Addressee
    <3> QED
      BY <2>2, <2>3, <3>2, <3>3, <3>4, <3>5, <3>6
  <2> QED
    BY <1>6, <2>4, <2>5
<1>7. ASSUME NEW k \in Clients, PeerExpires(k) PROVE SInv'
  <2>1. /\ peer' = [peer EXCEPT ![k] = NoPeer] /\ upset' = [upset EXCEPT ![k] = @ \cup {"expired"}]
        /\ UNCHANGED <<connection, holds, toolUse, heldBy, repointing, uses, said>>
    BY <1>7 DEF PeerExpires, Writes, Upsets
  <2>2. /\ peer'[k] = NoPeer /\ upset'[k] = upset[k] \cup {"expired"}
        /\ \A j \in Clients \ {k} : peer'[j] = peer[j] /\ upset'[j] = upset[j]
        /\ PeersTyped'
    BY <2>1 DEF PeersTyped
  <2>3. ConnectionsTyped' /\ ToolsTyped' /\ MergesTyped' /\ ConnectionsInv' /\ WritersInv'
    BY <2>1 DEF ConnectionsTyped, ToolsTyped, MergesTyped, ConnectionsInv, WritersInv
  <2>4. ConnectedAreListed' /\ ListedAsTheySaid' /\ ReportsFollowTheTask'
    BY <2>1, <2>2 DEF ConnectedAreListed, ListedAsTheySaid, ReportsFollowTheTask, HasRecord, Open,
       OpenFor, Addressee
  <2> QED
    BY <2>2, <2>3, <2>4
<1>8. ASSUME NEW k \in Clients, NEW u \in ToolUses, NEW phase \in Phases \cup {Unsaid},
             UseTool(u, k, phase)
      PROVE  SInv'
  <2>1. phase # "none"
    BY DEF Phases, Unsaid
  <2>2. /\ toolUse' = [toolUse EXCEPT
              ![u] = [by |-> k, at |-> "get", phase |-> phase, read |-> NoPeer]]
        /\ UNCHANGED <<connection, holds, peer, heldBy, repointing, said, upset>>
    BY <1>8 DEF UseTool
  <2>3. ToolsTyped' /\ WritersInv'
    BY <2>1, <2>2 DEF ToolsTyped, WritersInv
  <2> QED
    BY <2>2, <2>3, RecordsAlone
<1>9. ASSUME NEW u \in ToolUses, GetPeer(u) PROVE SInv'
  <2>1. /\ toolUse[u].by \in Clients /\ toolUse[u].phase # "none"
        /\ \/ toolUse' = [toolUse EXCEPT ![u] = NoUse]
           \/ /\ peer[toolUse[u].by] \in Records
              /\ toolUse' = [toolUse EXCEPT ![u] =
                    [@ EXCEPT !.at = "set", !.read = peer[toolUse[u].by]]]
        /\ UNCHANGED <<connection, holds, peer, heldBy, repointing, said, upset>>
    BY <1>9 DEF GetPeer, HasRecord, PeersTyped, WritersInv
  <2>2. CASE toolUse' = [toolUse EXCEPT ![u] = NoUse]
    <3>1. ToolsTyped' /\ WritersInv'
      BY <2>1, <2>2 DEF ToolsTyped, WritersInv, NoUse
    <3> QED
      BY <2>1, <3>1, RecordsAlone
  <2>3. CASE peer[toolUse[u].by] \in Records
             /\ toolUse' = [toolUse EXCEPT ![u] =
                   [@ EXCEPT !.at = "set", !.read = peer[toolUse[u].by]]]
    <3> DEFINE read == peer[toolUse[u].by]
    <3> HIDE DEF read
    <3>1. read \in Records /\ toolUse' = [toolUse EXCEPT ![u] =
                                   [@ EXCEPT !.at = "set", !.read = read]]
      BY <2>3 DEF read
    <3>2. ToolsTyped' /\ toolUse'[u].read = read /\ toolUse'[u].at = "set"
          /\ toolUse'[u].by = toolUse[u].by /\ toolUse'[u].phase = toolUse[u].phase
          /\ \A v \in ToolUses \ {u} : toolUse'[v] = toolUse[v]
      BY <3>1 DEF ToolsTyped
    <3>3. WritersInv'
      BY <2>1, <3>1, <3>2 DEF WritersInv
    <3> QED
      BY <2>1, <3>2, <3>3, RecordsAlone
  <2> QED
    BY <2>1, <2>2, <2>3
<1>10. ASSUME NEW u \in ToolUses, SetPeer(u) PROVE SInv'
  <2> DEFINE k == toolUse[u].by
             read == toolUse[u].read
             phase == IF toolUse[u].phase = Unsaid THEN read.phase ELSE toolUse[u].phase
             new == [read EXCEPT !.phase = phase]
  <2>1. /\ k \in Clients /\ read \in Records /\ toolUse[u].phase \in Phases \cup {Unsaid}
    BY <1>10 DEF SetPeer, ToolsTyped, WritersInv
  <2>2. /\ peer' = [peer EXCEPT ![k] = new]
        /\ said' = [said EXCEPT ![k] = IF toolUse[u].phase = Unsaid THEN @ ELSE phase]
        /\ \/ peer[k] = read /\ upset' = upset
           \/ upset' = [upset EXCEPT ![k] = @ \cup {"overlapped"}]
        /\ toolUse' = [toolUse EXCEPT ![u] = NoUse]
        /\ UNCHANGED <<connection, holds, heldBy, repointing>>
    BY <1>10 DEF SetPeer, Writes, Upsets
  <2>3. new \in Records /\ new.phase = phase /\ new.graph = read.graph
        /\ phase \in Phases \cup {"starting"}
    BY <2>1 DEF Records
  <2>4. toolUse[u].phase = Unsaid => phase = read.phase
    OBVIOUS
  <2>5. ToolsTyped' /\ WritersInv'
    BY <2>2 DEF ToolsTyped, WritersInv, NoUse
  <2> HIDE DEF k, read, phase, new
  <2>6. new # NoPeer /\ read # NoPeer
    BY <2>1, <2>3
  <2>7. PeersTyped' /\ peer'[k] = new
        /\ said'[k] = (IF toolUse[u].phase = Unsaid THEN said[k] ELSE phase)
        /\ ((peer[k] = read /\ upset'[k] = upset[k]) \/ upset'[k] = upset[k] \cup {"overlapped"})
        /\ \A j \in Clients \ {k} :
              peer'[j] = peer[j] /\ said'[j] = said[j] /\ upset'[j] = upset[j]
    BY <2>1, <2>2, <2>3 DEF PeersTyped
  <2> DEFINE quiet == toolUse[u].phase = Unsaid
  <2>8. quiet \in BOOLEAN /\ (quiet => phase = read.phase)
        /\ said'[k] = (IF quiet THEN said[k] ELSE phase)
    BY <2>4, <2>7
  <2> HIDE DEF quiet
  <2> QED
    BY <2>1, <2>2, <2>3, <2>5, <2>6, <2>7, <2>8, RecordRewritten
<1>11. ASSUME NEW k \in Clients, MoveTask(k) \/ ReadRunningPeer(k) PROVE SInv'
  <2>1. UNCHANGED <<connection, holds, peer, toolUse, said, upset>>
    BY <1>11 DEF MoveTask, ReadRunningPeer
  <2>2. MergesTyped' /\ WritersInv'
        /\ \A j \in Clients : repointing'[j].at = "done" =>
              repointing[j].at = "done" /\ heldBy'[j] = heldBy[j]
    <3>1. CASE MoveTask(k)
      BY <3>1 DEF MoveTask, MergesTyped, WritersInv, Graphs
    <3>2. CASE ReadRunningPeer(k)
      <4>1. peer[k] \in Records \cup {NoPeer}
        BY DEF PeersTyped
      <4> QED
        BY <3>2, <4>1 DEF ReadRunningPeer, MergesTyped, WritersInv, HasRecord
    <3> QED
      BY <1>11, <3>1, <3>2
  <2>3. ConnectionsTyped' /\ PeersTyped' /\ ToolsTyped' /\ ConnectionsInv'
    BY <2>1 DEF ConnectionsTyped, PeersTyped, ToolsTyped, ConnectionsInv
  <2>4. ConnectedAreListed' /\ ListedAsTheySaid'
    BY <2>1 DEF ConnectedAreListed, ListedAsTheySaid, HasRecord, Open, OpenFor
  <2>5. ReportsFollowTheTask'
    BY <2>1, <2>2 DEF ReportsFollowTheTask, HasRecord, Addressee
  <2> QED
    BY <2>2, <2>3, <2>4, <2>5
<1>12. ASSUME NEW k \in Clients, RepointPeer(k) PROVE SInv'
  <2> DEFINE read == repointing[k].read
             new == [read EXCEPT !.graph = "target"]
  <2>1. read \in Records /\ heldBy[k] = "target"
    BY <1>12 DEF RepointPeer, WritersInv
  <2>2. /\ peer' = [peer EXCEPT ![k] = new]
        /\ \/ peer[k] = read /\ upset' = upset
           \/ upset' = [upset EXCEPT ![k] = @ \cup {"overlapped"}]
        /\ repointing' = [repointing EXCEPT ![k] = [NoMerge EXCEPT !.at = "done"]]
        /\ UNCHANGED <<connection, holds, toolUse, heldBy, said>>
    BY <1>12 DEF RepointPeer, Writes, Upsets
  <2>3. new \in Records /\ new.phase = read.phase /\ new.graph = "target"
    BY <2>1 DEF Records, Graphs
  <2>4. MergesTyped' /\ WritersInv' /\ repointing'[k].at = "done"
        /\ \A j \in Clients \ {k} : repointing'[j] = repointing[j]
    BY <2>1, <2>2 DEF MergesTyped, WritersInv, NoMerge
  <2> HIDE DEF read, new
  <2>5. new # NoPeer /\ read # NoPeer
    BY <2>1, <2>3
  <2>6. PeersTyped' /\ peer'[k] = new
        /\ ((peer[k] = read /\ upset'[k] = upset[k]) \/ upset'[k] = upset[k] \cup {"overlapped"})
        /\ \A j \in Clients \ {k} : peer'[j] = peer[j] /\ upset'[j] = upset[j]
    BY <2>1, <2>2, <2>3 DEF PeersTyped
  <2>7. ConnectionsTyped' /\ ToolsTyped' /\ ConnectionsInv'
    BY <2>2 DEF ConnectionsTyped, ToolsTyped, ConnectionsInv
  <2>8. ConnectedAreListed' /\ ListedAsTheySaid'
    BY <2>2, <2>3, <2>5, <2>6 DEF ConnectedAreListed, ListedAsTheySaid, HasRecord, Open, OpenFor
  <2>9. ReportsFollowTheTask'
    BY <2>1, <2>2, <2>3, <2>4, <2>6 DEF ReportsFollowTheTask, HasRecord, Addressee
  <2> QED
    BY <2>4, <2>6, <2>7, <2>8, <2>9
<1>13. CASE UNCHANGED sessionVars
  <2>1. UNCHANGED <<connection, holds, peer, toolUse, heldBy, repointing, said, upset>>
    BY <1>13 DEF sessionVars
  <2>2. ToolsTyped' /\ WritersInv'
    BY <2>1 DEF ToolsTyped, WritersInv
  <2> QED
    BY <2>1, <2>2, RecordsAlone
<1> QED
  BY <1>1, <1>2, <1>3, <1>4, <1>5, <1>6, <1>7, <1>8, <1>9, <1>10, <1>11, <1>12, <1>13
  DEF SessionsNext

\* However connections break, are opened anew and closed, tool calls overlap and records expire:
\* a connected worker is listed in the phase it last said, and its reports go to the graph that
\* merge_graphs gave its task to, but for the overlaps and losses the properties name
\* (runtime/http-transport.ts, registry.ts, tools/set-status.ts:46).
THEOREM WorkersAlwaysKnown == SessionsSpec => []WorkersAreKnownByTheirRecords
<1>1. SInv => WorkersAreKnownByTheirRecords
  BY DEF SInv
<1> QED
  BY SessionsInitially, SessionsSteps, <1>1, PTL DEF SessionsSpec


-----------------------------------------------------------------------------
\* Costs. An attempt is counted when its span ends, by whoever ends it, and its cost goes to
\* the graph's sum; what waits there has an end of the graph to come.

Sources == {"parsed", "missing", "lost_canceled"}
GraphStatuses == {"active", "completed", "validation_failed", "failed", "canceled"}

WorkTyped ==
    /\ task \in {"pending", "running", "completed", "failed", "canceled"}
    /\ session \in 0 .. MaxAttempts /\ attempt \in 0 .. MaxAttempts
    /\ worker \in [Tries -> {"none", "started", "watched", "exited", "killed"}]
    /\ captured \in BOOLEAN /\ flushed \subseteq Tries /\ reporting \subseteq Tries
    /\ graph \in GraphStatuses /\ ending \in BOOLEAN

CountsTyped ==
    /\ span \in [Tries -> {"none", "open", "ended"}] /\ handle \in 0 .. MaxAttempts
    /\ reads \in [Tries -> Nat] /\ account \in [Tries -> Seq(Sources)]
    /\ sum \in [Tries -> Nat] /\ recorded \in [Tries -> Nat]

\* An attempt is counted when its span ends, by whoever ends it, and its cost with it.
Counted(a) ==
    /\ span[a] # "ended" => account[a] = <<>> /\ sum[a] = 0 /\ recorded[a] = 0
    /\ Len(account[a]) <= 1 /\ sum[a] + recorded[a] <= 1
    /\ captured /\ span[a] = "ended" =>
          /\ Len(account[a]) = 1
          /\ account[a] = <<"parsed">> => sum[a] + recorded[a] = 1

\* A Job that is watched has its span; when it is over and read, the span has ended.
SpanFollows(a) ==
    /\ a > attempt => worker[a] = "none"
    /\ worker[a] \in {"none", "started"} <=> span[a] = "none"
    /\ worker[a] \in {"none", "started", "watched", "killed"} => reads[a] = 0
    /\ worker[a] = "watched" => span[a] = "open"
    /\ worker[a] = "exited" /\ reads[a] = 0 => span[a] = "ended"
    /\ worker[a] = "killed" => span[a] = "ended" \/ a \in strayed
    /\ session = a /\ span[a] = "open" => handle = a \/ a \in strayed
    /\ session = a => worker[a] \in {"watched", "exited", "killed"}

Excused(a) == graph \in {"active", "validation_failed"} \/ ending \/ a \in belated

\* What is registered under the task is of its session; what waits in the sum has an end to come.
AccInv ==
    /\ WorkTyped /\ CountsTyped
    /\ session # 0 /\ handle # 0 => handle = session
    /\ \A a \in Tries :
          /\ Counted(a) /\ SpanFollows(a)
          /\ sum[a] = 1 => Excused(a)

LEMMA OneEntry ==
    ASSUME NEW source PROVE  /\ Append(<<>>, source) = <<source>> /\ Len(<<source>>) = 1
                             /\ <<source>> = <<"parsed">> => source = "parsed"
  OBVIOUS

\* The span of attempt a is ended, and a is counted, by the exit's reader or by a kill.
LEMMA Counts ==
    ASSUME AccInv, NEW a \in Tries, NEW source \in Sources, span[a] = "open",
           EndSpan(a), Count(a, source, a), recorded' = recorded, captured' = captured
    PROVE  /\ span' \in [Tries -> {"none", "open", "ended"}] /\ handle' \in 0 .. MaxAttempts
           /\ account' \in [Tries -> Seq(Sources)] /\ sum' \in [Tries -> Nat]
           /\ \A b \in Tries : Counted(b)'
           /\ span'[a] = "ended" /\ \A b \in Tries \ {a} : span'[b] = span[b]
           /\ handle' = 0 /\ strayed \subseteq strayed'
           /\ handle \in {0, a} \/ handle \in strayed'
           /\ \A b \in Tries :
                 sum'[b] = 1 => sum[b] = 1 \/ graph = "active" \/ ending \/ b \in belated'
           /\ belated \subseteq belated'
<1>1. /\ span'[a] = "ended" /\ \A b \in Tries \ {a} : span'[b] = span[b]
      /\ span' \in [Tries -> {"none", "open", "ended"}]
  BY DEF EndSpan, AccInv, CountsTyped
<1>2. handle' = 0 /\ strayed \subseteq strayed' /\ (handle \in {0, a} \/ handle \in strayed')
  BY DEF EndSpan, DropHandle
<1>3. account[a] = <<>> /\ sum[a] = 0 /\ recorded[a] = 0
  BY DEF AccInv, Counted
<1>4. /\ account'[a] = <<source>> /\ \A b \in Tries \ {a} : account'[b] = account[b]
      /\ account' \in [Tries -> Seq(Sources)]
  BY <1>3, OneEntry DEF Count, AccInv, CountsTyped
<1>5. /\ sum'[a] = (IF source = "parsed" THEN 1 ELSE 0)
      /\ \A b \in Tries \ {a} : sum'[b] = sum[b]
      /\ sum' \in [Tries -> Nat] /\ belated \subseteq belated'
      /\ sum'[a] = 1 => graph = "active" \/ ending \/ a \in belated'
  <2>1. sum \in [Tries -> Nat] /\ sum[a] + 1 = 1
    BY <1>3 DEF AccInv, CountsTyped
  <2>2. CASE source = "parsed"
    <3>1. /\ sum' = [sum EXCEPT ![a] = @ + 1]
          /\ belated' = (IF graph = "active" \/ ending THEN belated ELSE belated \cup {a})
      BY <2>2 DEF Count, OnGraphAgentCost
    <3> QED
      BY <2>1, <2>2, <3>1
  <2>3. CASE source # "parsed"
    BY <1>3, <2>1, <2>3 DEF Count
  <2> QED
    BY <2>2, <2>3
<1>6. ASSUME NEW b \in Tries PROVE Counted(b)'
  <2>1. CASE b = a
    <3>1. Len(account'[a]) = 1 /\ (account'[a] = <<"parsed">> => source = "parsed")
      BY <1>4, OneEntry
    <3> QED
      BY <1>1, <1>3, <1>5, <2>1, <3>1 DEF Counted
  <2>2. CASE b # a
    <3>1. Counted(b)
      BY DEF AccInv
    <3> QED
      BY <1>1, <1>4, <1>5, <2>2, <3>1 DEF Counted
  <2> QED
    BY <2>1, <2>2
<1>7. \A b \in Tries : sum'[b] = 1 => sum[b] = 1 \/ graph = "active" \/ ending \/ b \in belated'
  BY <1>5
<1> QED
  BY <1>1, <1>2, <1>4, <1>5, <1>6, <1>7, AccountingAssumption

LEMMA AccountingInitially == AccountingInit => AccInv
<1> SUFFICES ASSUME AccountingInit PROVE AccInv
  OBVIOUS
<1>1. 0 \in 0 .. MaxAttempts
  BY AccountingAssumption
<1>2. WorkTyped
  BY <1>1 DEF AccountingInit, WorkTyped, GraphStatuses
<1>3. CountsTyped
  BY <1>1 DEF AccountingInit, CountsTyped
<1>4. ASSUME NEW a \in Tries PROVE Counted(a) /\ SpanFollows(a) /\ sum[a] # 1
  <2>1. a # 0 /\ account[a] = <<>> /\ span[a] = "none" /\ worker[a] = "none"
    BY DEF AccountingInit, Tries
  <2>2. sum[a] = 0 /\ recorded[a] = 0 /\ reads[a] = 0 /\ session = 0 /\ Len(<<>>) = 0
    BY DEF AccountingInit
  <2> QED
    BY <2>1, <2>2 DEF Counted, SpanFollows
<1> QED
  BY <1>2, <1>3, <1>4 DEF AccountingInit, AccInv

\* A step that counts nothing.
LEMMA Uncounted ==
    ASSUME AccInv, UNCHANGED <<span, account, sum, recorded, captured>>
    PROVE  \A a \in Tries : Counted(a)'
  BY DEF AccInv, Counted

LEMMA DispatchSteps == ASSUME AccInv, Dispatch PROVE AccInv'
<1> DEFINE next == attempt + 1
<1>a. next \in Tries /\ next > attempt
  BY AccountingAssumption DEF Dispatch, AccInv, WorkTyped, Tries
<1>b. worker[next] = "none"
  BY <1>a DEF AccInv, SpanFollows
<1>1. /\ next \in Tries /\ attempt' = next /\ worker'[next] = "started"
      /\ worker[next] = "none" /\ \A a \in Tries \ {next} : worker'[a] = worker[a]
  BY <1>a, <1>b DEF Dispatch, AccInv, WorkTyped
<1>2. WorkTyped' /\ CountsTyped'
  BY <1>1 DEF Dispatch, AccInv, WorkTyped, CountsTyped, Tries
<1>3. \A a \in Tries : Counted(a)'
  BY Uncounted DEF Dispatch
<1>4. ASSUME NEW a \in Tries PROVE SpanFollows(a)'
  <2>1. SpanFollows(a) /\ a \in Nat /\ attempt \in Nat
    BY DEF AccInv, Tries, WorkTyped
  <2>2. CASE a = next
    BY <1>1, <2>1, <2>2 DEF Dispatch, SpanFollows
  <2>3. CASE a # next
    BY <1>1, <2>1, <2>3 DEF Dispatch, SpanFollows
  <2> QED
    BY <2>2, <2>3
<1> QED
  BY <1>2, <1>3, <1>4 DEF Dispatch, AccInv, Excused

LEMMA BeginSteps == ASSUME AccInv, NEW a \in Tries, BeginAgentSpan(a) PROVE AccInv'
<1>1. /\ worker[a] = "started" /\ worker'[a] = "watched" /\ span'[a] = "open"
      /\ \A b \in Tries \ {a} : worker'[b] = worker[b] /\ span'[b] = span[b]
      /\ handle' = a /\ session' = a /\ a # 0 /\ a \in 0 .. MaxAttempts /\ a \in Nat
  BY DEF BeginAgentSpan, AccInv, WorkTyped, CountsTyped, Tries
<1>2. WorkTyped' /\ CountsTyped'
  BY <1>1 DEF BeginAgentSpan, AccInv, WorkTyped, CountsTyped
<1>3. ASSUME NEW b \in Tries PROVE Counted(b)'
  <2>1. Counted(b) /\ SpanFollows(b)
    BY DEF AccInv
  <2> QED
    BY <1>1, <2>1 DEF BeginAgentSpan, Counted, SpanFollows
<1>4. ASSUME NEW b \in Tries PROVE SpanFollows(b)'
  <2>1. SpanFollows(b)
    BY DEF AccInv
  <2>2. CASE b = a
    BY <1>1, <2>1, <2>2 DEF BeginAgentSpan, SpanFollows
  <2>3. CASE b # a
    BY <1>1, <2>1, <2>3 DEF BeginAgentSpan, SpanFollows
  <2> QED
    BY <2>2, <2>3
<1> QED
  BY <1>1, <1>2, <1>3, <1>4 DEF BeginAgentSpan, AccInv, Excused

LEMMA FlushSteps == ASSUME AccInv, NEW a \in Tries, Flush(a) PROVE AccInv'
<1>1. \A b \in Tries : Counted(b)'
  BY Uncounted DEF Flush, workVars
<1>2. \A b \in Tries : SpanFollows(b)'
  BY DEF Flush, workVars, AccInv, SpanFollows
<1> QED
  BY <1>1, <1>2 DEF Flush, workVars, AccInv, WorkTyped, CountsTyped, Excused

\* What ends a span, and counts it, leaves the rest of the accounts as they are.
Accounted(a) ==
    /\ span' \in [Tries -> {"none", "open", "ended"}] /\ handle' \in 0 .. MaxAttempts
    /\ account' \in [Tries -> Seq(Sources)] /\ sum' \in [Tries -> Nat]
    /\ \A b \in Tries : Counted(b)'
    /\ \A b \in Tries \ {a} : span'[b] = span[b]
    /\ span'[a] = span[a] \/ (span[a] = "open" /\ span'[a] = "ended")
    /\ strayed \subseteq strayed' /\ belated \subseteq belated'
    /\ \/ handle' = handle
       \/ handle' = 0 /\ (handle = 0 \/ (handle = a /\ span'[a] = "ended") \/ handle \in strayed')
    /\ \A b \in Tries : sum'[b] = 1 => sum[b] = 1 \/ graph = "active" \/ ending \/ b \in belated'

LEMMA ClaimAccounts ==
    ASSUME AccInv, NEW a \in Tries, NEW source \in Sources, recorded' = recorded,
           captured' = captured, Claim(a, source)
    PROVE  Accounted(a) /\ span'[a] # "open"
<1>1. CASE span[a] = "open"
  <2>1. EndSpan(a) /\ Count(a, source, a)
    BY <1>1 DEF Claim
  <2> HIDE DEF Sources
  <2> QED
    BY <1>1, <2>1, Counts DEF Accounted
<1>2. CASE span[a] # "open"
  <2>1. UNCHANGED <<span, handle, strayed, account, sum, belated>>
    BY <1>2 DEF Claim
  <2>2. \A b \in Tries : Counted(b)'
    BY <2>1, Uncounted
  <2> QED
    BY <1>2, <2>1, <2>2 DEF Accounted, AccInv, CountsTyped
<1> QED
  BY <1>1, <1>2

LEMMA UncapturedAccounts ==
    ASSUME AccInv, NEW a \in Tries, recorded' = recorded, captured' = captured, ~captured,
           span[a] = "open", EndSpan(a), UNCHANGED <<account, sum, belated>>
    PROVE  Accounted(a) /\ span'[a] = "ended"
<1>1. /\ span'[a] = "ended" /\ \A b \in Tries \ {a} : span'[b] = span[b]
      /\ span' \in [Tries -> {"none", "open", "ended"}]
  BY DEF EndSpan, AccInv, CountsTyped
<1>2. handle' = 0 /\ strayed \subseteq strayed' /\ (handle \in {0, a} \/ handle \in strayed')
  BY DEF EndSpan, DropHandle
<1>3. \A b \in Tries : Counted(b)'
  BY <1>1 DEF AccInv, Counted
<1>4. 0 \in 0 .. MaxAttempts
  BY AccountingAssumption
<1> QED
  BY <1>1, <1>2, <1>3, <1>4 DEF Accounted, AccInv, CountsTyped

\* The reader of an exited attempt's transcript ends the span, or has reads left.
LEMMA Reading ==
    ASSUME AccInv, NEW a \in Tries, NEW n \in Nat,
           worker' \in [Tries -> {"none", "started", "watched", "exited", "killed"}],
           worker[a] \in {"watched", "exited"}, worker'[a] = "exited",
           \A b \in Tries \ {a} : worker'[b] = worker[b], reporting' \subseteq Tries,
           reads' = [reads EXCEPT ![a] = n], Accounted(a), n > 0 \/ span'[a] # "open",
           UNCHANGED <<task, session, attempt, captured, flushed, recorded, graph, ending>>
    PROVE  AccInv'
<1>1. WorkTyped'
  BY DEF AccInv, WorkTyped
<1>2. CountsTyped'
  BY DEF AccInv, CountsTyped, Accounted
<1>3. reads'[a] = n /\ \A b \in Tries \ {a} : reads'[b] = reads[b]
  BY DEF AccInv, CountsTyped
<1>4. ASSUME NEW b \in Tries PROVE SpanFollows(b)'
  <2>1. SpanFollows(b) /\ b \in Nat /\ attempt \in Nat /\ b # 0
    BY DEF AccInv, Tries, WorkTyped
  <2>2. CASE b = a
    BY <1>3, <2>1, <2>2 DEF SpanFollows, Accounted
  <2>3. CASE b # a
    BY <1>3, <2>1, <2>3 DEF SpanFollows, Accounted
  <2> QED
    BY <2>2, <2>3
<1>5. \A b \in Tries : Counted(b)' /\ (sum'[b] = 1 => Excused(b)')
  BY DEF AccInv, Accounted, Excused
<1>6. session' # 0 /\ handle' # 0 => handle' = session'
  BY DEF AccInv, Accounted
<1> QED
  BY <1>1, <1>2, <1>4, <1>5, <1>6 DEF AccInv

LEMMA ExitSteps == ASSUME AccInv, NEW a \in Tries, Exit(a) PROVE AccInv'
<1>1. /\ worker[a] = "watched" /\ worker'[a] = "exited" /\ span[a] = "open" /\ reads[a] = 0
      /\ \A b \in Tries \ {a} : worker'[b] = worker[b] /\ reporting' \subseteq Tries
      /\ worker' \in [Tries -> {"none", "started", "watched", "exited", "killed"}]
      /\ UNCHANGED <<task, session, attempt, captured, flushed, recorded, graph, ending>>
  BY DEF Exit, AccInv, WorkTyped, SpanFollows
<1>2. reporting' \subseteq Tries
  BY DEF Exit, AccInv, WorkTyped
<1>3. reads = [reads EXCEPT ![a] = 0]
  BY <1>1 DEF AccInv, CountsTyped
<1>4. CASE ~captured /\ EndSpan(a) /\ UNCHANGED <<account, sum, belated, reads>>
  BY <1>1, <1>2, <1>3, <1>4, UncapturedAccounts, Reading
<1>5. CASE UNCHANGED reads /\ \E source \in Sources : Claim(a, source)
  BY <1>1, <1>2, <1>3, <1>5, ClaimAccounts, Reading
<1>6. CASE /\ Reads # 1 /\ reads' = [reads EXCEPT ![a] = Reads - 1]
           /\ UNCHANGED <<span, handle, strayed, account, sum, belated>>
  <2>1. Reads - 1 \in Nat /\ Reads - 1 > 0
    BY <1>6, AccountingAssumption
  <2>2. \A b \in Tries : Counted(b)'
    BY <1>1, <1>6, Uncounted
  <2>3. Accounted(a)
    BY <1>6, <2>2 DEF Accounted, AccInv, CountsTyped
  <2> QED
    BY <1>1, <1>2, <1>6, <2>1, <2>3, Reading
<1>7. "parsed" \in Sources /\ "missing" \in Sources
  BY DEF Sources
<1> QED
  BY <1>4, <1>5, <1>6, <1>7 DEF Exit

LEMMA ReadSteps == ASSUME AccInv, NEW a \in Tries, ReadUsageWithRetry(a) PROVE AccInv'
<1>a. reads[a] > 0 /\ reads[a] \in Nat /\ reads[a] # 0
  BY DEF ReadUsageWithRetry, AccInv, CountsTyped
<1>b. worker[a] = "exited"
  BY <1>a DEF AccInv, WorkTyped, SpanFollows
<1>1. /\ worker[a] = "exited" /\ worker' = worker /\ reads[a] > 0 /\ reads[a] \in Nat
      /\ worker' \in [Tries -> {"none", "started", "watched", "exited", "killed"}]
      /\ UNCHANGED <<task, session, attempt, captured, flushed, recorded, graph, ending>>
      /\ reporting' \subseteq Tries
  BY <1>a, <1>b DEF ReadUsageWithRetry, workVars, AccInv, WorkTyped
<1>2. CASE reads' = [reads EXCEPT ![a] = 0] /\ \E source \in Sources : Claim(a, source)
  BY <1>1, <1>2, ClaimAccounts, Reading
<1>3. CASE /\ reads[a] # 1 /\ reads' = [reads EXCEPT ![a] = @ - 1]
           /\ UNCHANGED <<span, handle, strayed, account, sum, belated>>
  <2>1. reads[a] - 1 \in Nat /\ reads[a] - 1 > 0
    BY <1>1, <1>3
  <2>2. \A b \in Tries : Counted(b)'
    BY <1>1, <1>3, Uncounted
  <2>3. Accounted(a)
    BY <1>3, <2>2 DEF Accounted, AccInv, CountsTyped
  <2>4. PICK n \in Nat : n = reads[a] - 1
    BY <2>1
  <2> QED
    BY <1>1, <1>3, <2>1, <2>3, <2>4, Reading
<1>4. "parsed" \in Sources /\ "missing" \in Sources
  BY DEF Sources
<1>5. reads[a] = 1 => [reads EXCEPT ![a] = @ - 1] = [reads EXCEPT ![a] = 0]
  OBVIOUS
<1> QED
  BY <1>2, <1>3, <1>4, <1>5 DEF ReadUsageWithRetry

\* The graph keeps its status, is taken up again, or has its end handled.
EndFollows ==
    UNCHANGED <<graph, ending>> \/ ending' \/ graph' \in {"active", "validation_failed"}

LEMMA StillExcused ==
    ASSUME EndFollows, belated \subseteq belated', NEW a,
           Excused(a) \/ graph = "active" \/ ending \/ a \in belated'
    PROVE  Excused(a)'
  BY DEF EndFollows, Excused

\* What a kill does to the spans and the sums.
LEMMA Killing ==
    ASSUME AccInv, session # 0, KillWorker, session' \in {session, 0},
           UNCHANGED <<attempt, captured, reads, recorded>>, EndFollows
    PROVE  /\ worker' \in [Tries -> {"none", "started", "watched", "exited", "killed"}]
           /\ CountsTyped' /\ (session' # 0 /\ handle' # 0 => handle' = session')
           /\ \A a \in Tries : Counted(a)' /\ SpanFollows(a)' /\ (sum'[a] = 1 => Excused(a)')
<1>1. PICK s \in Tries : s = session
  BY DEF AccInv, WorkTyped, Tries
<1>2. /\ worker'[s] = (IF worker[s] = "watched" THEN "killed" ELSE worker[s])
      /\ \A a \in Tries \ {s} : worker'[a] = worker[a]
      /\ worker' \in [Tries -> {"none", "started", "watched", "exited", "killed"}]
  BY <1>1 DEF KillWorker, AccInv, WorkTyped
<1>3. Accounted(s) /\ (handle = 0 \/ span'[s] # "open")
  <2>1. CASE handle # 0 /\ span[handle] = "open"
    <3>1. handle = s
      BY <1>1, <2>1 DEF AccInv
    <3>2. PICK source \in Sources : EndSpan(s) /\ Count(s, source, s)
      BY <1>1, <2>1, <3>1 DEF KillWorker, RecordCanceledAgentUsage, Sources
    <3>3. Claim(s, source)
      BY <2>1, <3>1, <3>2 DEF Claim
    <3> QED
      BY <3>3, ClaimAccounts
  <2>2. CASE ~(handle # 0 /\ span[handle] = "open")
    <3>1. UNCHANGED <<span, handle, strayed, account, sum, belated>>
      BY <2>2 DEF KillWorker, RecordCanceledAgentUsage
    <3>2. \A a \in Tries : Counted(a)'
      BY <3>1, Uncounted
    <3>3. Accounted(s)
      BY <3>1, <3>2 DEF Accounted, AccInv, CountsTyped
    <3>4. handle # 0 => handle = s
      BY <1>1 DEF AccInv
    <3> QED
      BY <2>2, <3>1, <3>3, <3>4
  <2> QED
    BY <2>1, <2>2
<1>4. CountsTyped'
  BY <1>3 DEF AccInv, CountsTyped, Accounted
<1>5. session' # 0 /\ handle' # 0 => handle' = session'
  BY <1>3 DEF AccInv, Accounted
<1>6. ASSUME NEW a \in Tries PROVE SpanFollows(a)'
  <2>1. SpanFollows(a) /\ SpanFollows(s) /\ a \in Nat /\ attempt \in Nat /\ a # 0
    BY DEF AccInv, Tries, WorkTyped
  <2>2. CASE a = s
    BY <1>1, <1>2, <1>3, <2>1, <2>2 DEF SpanFollows, Accounted
  <2>3. CASE a # s
    BY <1>1, <1>2, <1>3, <2>1, <2>3 DEF SpanFollows, Accounted
  <2> QED
    BY <2>2, <2>3
<1>7. ASSUME NEW a \in Tries, sum'[a] = 1 PROVE Excused(a)'
  <2>1. Excused(a) \/ graph = "active" \/ ending \/ a \in belated'
    BY <1>3, <1>7 DEF Accounted, AccInv
  <2> QED
    BY <1>3, <2>1, StillExcused DEF Accounted
<1> QED
  BY <1>2, <1>3, <1>4, <1>5, <1>6, <1>7 DEF Accounted

\* A step of the task and its graph that touches no span.
LEMMA Bystanding ==
    ASSUME AccInv, session' \in {session, 0}, EndFollows,
           UNCHANGED <<attempt, worker, captured, reads, recorded, span, handle, strayed, account,
                       sum, belated>>
    PROVE  /\ CountsTyped' /\ (session' # 0 /\ handle' # 0 => handle' = session')
           /\ \A a \in Tries : Counted(a)' /\ SpanFollows(a)' /\ (sum'[a] = 1 => Excused(a)')
<1>1. \A a \in Tries : Counted(a)'
  BY Uncounted
<1>2. ASSUME NEW a \in Tries PROVE SpanFollows(a)'
  <2>1. SpanFollows(a) /\ a # 0
    BY DEF AccInv, Tries
  <2> QED
    BY <2>1 DEF SpanFollows
<1>3. \A a \in Tries : sum'[a] = 1 => Excused(a)'
  BY StillExcused DEF AccInv
<1> QED
  BY <1>1, <1>2, <1>3 DEF AccInv, CountsTyped

LEMMA TaskSteps ==
    ASSUME AccInv,
           \/ KillTask \/ SweepKill \/ CancelGraph \/ RetryTask \/ \E a \in Tries : Report(a)
    PROVE  AccInv'
<1>1. /\ UNCHANGED <<attempt, captured, flushed, reads, recorded>> /\ reporting' \subseteq Tries
      /\ session' \in {session, 0}
      /\ task' \in {"pending", "running", "completed", "failed", "canceled"}
  BY DEF KillTask, SweepKill, CancelGraph, RetryTask, Report, TaskFails, TaskCompletes, NothingEnds,
         AccInv, WorkTyped
<1>2. EndFollows
  BY DEF EndFollows, KillTask, SweepKill, CancelGraph, RetryTask, Report, TaskFails, TaskCompletes,
         NothingEnds, EndsGraph
<1>3. graph' \in GraphStatuses /\ ending' \in BOOLEAN
  BY DEF KillTask, SweepKill, CancelGraph, RetryTask, Report, TaskFails, TaskCompletes,
         NothingEnds, EndsGraph, AccInv, WorkTyped, GraphStatuses
<1>4. session' \in 0 .. MaxAttempts
  BY <1>1, AccountingAssumption DEF AccInv, WorkTyped
<1>5. CASE session # 0 /\ KillWorker
  <2>1. /\ worker' \in [Tries -> {"none", "started", "watched", "exited", "killed"}]
        /\ CountsTyped' /\ (session' # 0 /\ handle' # 0 => handle' = session')
        /\ \A a \in Tries : Counted(a)' /\ SpanFollows(a)' /\ (sum'[a] = 1 => Excused(a)')
    BY <1>1, <1>2, <1>5, Killing
  <2>2. WorkTyped'
    BY <1>1, <1>3, <1>4, <2>1 DEF AccInv, WorkTyped
  <2> QED
    BY <2>1, <2>2 DEF AccInv
<1>6. CASE UNCHANGED <<worker, span, handle, strayed, account, sum, belated>>
  <2>1. /\ CountsTyped' /\ (session' # 0 /\ handle' # 0 => handle' = session')
        /\ \A a \in Tries : Counted(a)' /\ SpanFollows(a)' /\ (sum'[a] = 1 => Excused(a)')
    BY <1>1, <1>2, <1>6, Bystanding
  <2>2. WorkTyped'
    BY <1>1, <1>3, <1>4, <1>6 DEF AccInv, WorkTyped
  <2> QED
    BY <2>1, <2>2 DEF AccInv
<1> QED
  BY <1>5, <1>6 DEF KillTask, SweepKill, CancelGraph, RetryTask, Report

LEMMA DrainSteps == ASSUME AccInv, DrainGraphCost PROVE AccInv'
<1>1. /\ \A a \in Tries : recorded'[a] = recorded[a] + sum[a] /\ sum'[a] = 0
      /\ recorded' \in [Tries -> Nat] /\ sum' \in [Tries -> Nat]
  BY DEF DrainGraphCost, AccInv, CountsTyped
<1>2. ASSUME NEW a \in Tries PROVE Counted(a)'
  <2>1. Counted(a) /\ sum[a] \in Nat /\ recorded[a] \in Nat
    BY DEF AccInv, CountsTyped
  <2> QED
    BY <1>1, <2>1 DEF Counted, DrainGraphCost, workVars
<1>3. \A a \in Tries : SpanFollows(a)'
  BY DEF AccInv, SpanFollows, DrainGraphCost, workVars
<1>4. WorkTyped'
  BY DEF AccInv, WorkTyped, DrainGraphCost, workVars
<1>5. CountsTyped'
  BY <1>1 DEF AccInv, CountsTyped, DrainGraphCost, workVars
<1>6. session' # 0 /\ handle' # 0 => handle' = session'
  BY DEF AccInv, DrainGraphCost, workVars
<1>7. \A a \in Tries : sum'[a] = 1 => Excused(a)'
  BY <1>1
<1> QED
  BY <1>2, <1>3, <1>4, <1>5, <1>6, <1>7 DEF AccInv

LEMMA AccountingSteps == AccInv /\ [AccountingNext]_accountingVars => AccInv'
<1> SUFFICES ASSUME AccInv, [AccountingNext]_accountingVars PROVE AccInv'
  OBVIOUS
<1>1. CASE UNCHANGED accountingVars
  BY <1>1 DEF accountingVars, AccInv, WorkTyped, CountsTyped, Counted, SpanFollows, Excused
<1>2. CASE AccountingNext
  BY <1>2, DispatchSteps, BeginSteps, FlushSteps, ExitSteps, ReadSteps, TaskSteps, DrainSteps
     DEF AccountingNext
<1> QED
  BY <1>1, <1>2

\* Whatever exits, kills, late reads and ends of the graph overlap, each attempt is counted once,
\* and what it cost is in one record of the graph or waits in the sum for an end to come.
THEOREM CostsAreAlwaysAccounted == AccountingSpec => []CostIsAccounted
<1>1. AccInv => CostIsAccounted
  <2> SUFFICES ASSUME AccInv, NEW a \in Tries
               PROVE  /\ Len(account[a]) <= 1 /\ sum[a] + recorded[a] <= 1
                      /\ AllRead(a) /\ captured /\ ~Lost(a) =>
                            /\ span[a] = "ended" /\ Len(account[a]) = 1
                            /\ account[a] = <<"parsed">> => sum[a] + recorded[a] = 1
                      /\ sum[a] = 1 =>
                            graph \in {"active", "validation_failed"} \/ ending \/ a \in belated
    BY DEF CostIsAccounted
  <2>1. Counted(a) /\ SpanFollows(a) /\ (sum[a] = 1 => Excused(a))
    BY DEF AccInv
  <2>2. AllRead(a) /\ ~Lost(a) => span[a] = "ended"
    BY <2>1 DEF AllRead, Lost, JobOver, SpanFollows
  <2> QED
    BY <2>1, <2>2 DEF Counted, Excused
<1> QED
  BY <1>1, AccountingInitially, AccountingSteps, PTL DEF AccountingSpec


-----------------------------------------------------------------------------
\* Tasks. The newest span and the gauges of a task follow its stage, but for what the events
\* about it that are still on their way will change.

TaskStages == {"pending", "ready", "running", "yielded", "completed", "failed", "canceled"}
Types == {"ready", "completed", "failed", "yielded", "resolved"}

TelemetryTypeOK ==
    /\ taskStage \in [GaugedTasks -> TaskStages] /\ run \in [GaugedTasks -> Nat]
    /\ underway \subseteq GaugedTasks \X Nat
    /\ news \subseteq [task : GaugedTasks, run : Nat, type : Types]
    /\ taskRegistry \in [GaugedTasks -> {"none", "ready", "in_flight"}]
    /\ activeSpan \in [GaugedTasks -> Nat]
    /\ openSpans \subseteq GaugedTasks \X Nat

\* The end of the task's last run is on its way to be recorded.
Told(t, type) == \E n \in news : n.task = t /\ n.run = run[t] /\ n.type = type

\* An event of the last run says that the task no longer runs.
NewsInv(t) ==
    \A n \in news : n.task = t =>
        /\ n.run <= run[t]
        /\ n.type = "ready" => run[t] = 0
        /\ n.type # "ready" /\ n.run = run[t] => taskStage[t] # "running"
        /\ n.type = "resolved" /\ n.run = run[t] => taskStage[t] # "yielded"

SpansInv(t) ==
    \A d \in openSpans : d[1] = t => d[2] <= run[t] /\ (d[2] = run[t] => activeSpan[t] = run[t])

\* The registry shows the last run, or what is to bring it there is under way.
StageInv(t) ==
    /\ taskStage[t] \in {"running", "completed", "failed", "yielded"} => run[t] # 0
    /\ taskStage[t] = "running" => <<t, run[t]>> \in underway \/ taskRegistry[t] = "in_flight"
    /\ taskStage[t] \in {"completed", "failed"} =>
          \/ Told(t, taskStage[t])
          \/ taskRegistry[t] = "none" /\ <<t, run[t]>> \notin openSpans
    /\ taskStage[t] = "yielded" =>
          Told(t, "yielded") \/ (taskRegistry[t] # "in_flight" /\ t \in activeYields)

ShownInv(t) == t \in superseded \/ (NewsInv(t) /\ SpansInv(t) /\ StageInv(t))

TelInv == TelemetryTypeOK /\ \A t \in GaugedTasks : ShownInv(t)

LEMMA TelemetryInitially == TelemetryInit => TelInv
  BY DEF TelemetryInit, TelInv, TelemetryTypeOK, TaskStages, ShownInv, NewsInv, SpansInv, StageInv

\* A task that a step leaves alone.
LEMMA Unrelated ==
    ASSUME NEW t \in GaugedTasks, ShownInv(t), superseded \subseteq superseded',
           taskStage'[t] = taskStage[t], run'[t] = run[t], taskRegistry'[t] = taskRegistry[t],
           activeSpan'[t] = activeSpan[t], t \in activeYields => t \in activeYields',
           \A n : n.task = t => (n \in news' <=> n \in news),
           <<t, run[t]>> \in underway => <<t, run[t]>> \in underway',
           \A d : d[1] = t /\ d \in openSpans' => d \in openSpans
    PROVE  ShownInv(t)'
<1>1. \A type : Told(t, type) => Told(t, type)'
  BY DEF Told
<1>2. NewsInv(t) => NewsInv(t)'
  BY DEF NewsInv
<1>3. SpansInv(t) => SpansInv(t)'
  BY DEF SpansInv
<1>4. StageInv(t) => StageInv(t)'
  BY <1>1 DEF StageInv
<1> QED
  BY <1>2, <1>3, <1>4 DEF ShownInv

\* A step about the task t alone.
LEMMA AboutOne ==
    ASSUME TelInv, NEW t \in GaugedTasks, TelemetryTypeOK', ShownInv(t)',
           superseded \subseteq superseded',
           \A u \in GaugedTasks \ {t} :
               /\ taskStage'[u] = taskStage[u] /\ run'[u] = run[u]
               /\ taskRegistry'[u] = taskRegistry[u] /\ activeSpan'[u] = activeSpan[u]
               /\ u \in activeYields => u \in activeYields'
               /\ \A n : n.task = u => (n \in news' <=> n \in news)
               /\ \A d : d[1] = u => /\ d \in underway => d \in underway'
                                     /\ d \in openSpans' => d \in openSpans
    PROVE  TelInv'
<1>1. ASSUME NEW u \in GaugedTasks \ {t} PROVE ShownInv(u)'
  <2>1. ShownInv(u)
    BY DEF TelInv
  <2>2. <<u, run[u]>>[1] = u
    OBVIOUS
  <2>3. <<u, run[u]>> \in underway => <<u, run[u]>> \in underway'
    BY <2>2
  <2> QED
    BY <2>1, <2>3, Unrelated
<1> QED
  BY <1>1 DEF TelInv

\* What happens to a task whose status changes, and of which there is perhaps an event.
LEMMA StageMoved ==
    ASSUME TelInv, NEW t \in GaugedTasks, NEW from, NEW to \in TaskStages \ {"running"},
           StageMoves(t, from, to), run' = run, Unrecorded, underway' \subseteq underway,
           \A d \in underway : d[1] # t => d \in underway',
           \/ news' = news
           \/ \E type \in Types : /\ news' = news \cup {Notice(t, type)}
                                  /\ type = "ready" => run[t] = 0
                                  /\ type = "resolved" => to = "ready",
           to \in {"completed", "failed", "yielded"} =>
               from = {"running"} /\ news' = news \cup {Notice(t, to)}
    PROVE  TelInv'
<1>1. /\ taskStage'[t] = to /\ taskStage[t] \in from
      /\ \A u \in GaugedTasks \ {t} : taskStage'[u] = taskStage[u]
  BY DEF StageMoves, TelInv, TelemetryTypeOK
<1>2. \A type \in Types : /\ Notice(t, type) \in [task : GaugedTasks, run : Nat, type : Types]
                          /\ Notice(t, type).task = t /\ Notice(t, type).run = run[t]
                          /\ Notice(t, type).type = type
  BY DEF Notice, TelInv, TelemetryTypeOK
<1>3. TelemetryTypeOK'
  BY <1>2 DEF StageMoves, Unrecorded, TelInv, TelemetryTypeOK, Types
<1>4. \A n \in news' : n \in news \/ (/\ n.task = t /\ n.run = run[t]
                                      /\ n.type = "ready" => run[t] = 0
                                      /\ n.type = "resolved" => to = "ready")
  BY <1>2
<1>5. ASSUME t \notin superseded PROVE NewsInv(t)' /\ SpansInv(t)' /\ StageInv(t)'
  <2>1. NewsInv(t) /\ SpansInv(t) /\ StageInv(t) /\ run[t] \in Nat
    BY <1>5 DEF TelInv, ShownInv, TelemetryTypeOK
  <2>2. NewsInv(t)'
    <3> SUFFICES ASSUME NEW n \in news', n.task = t
                 PROVE  /\ n.run <= run[t] /\ (n.type = "ready" => run[t] = 0)
                        /\ n.type = "resolved" /\ n.run = run[t] => to # "yielded"
      BY <1>1 DEF NewsInv
    <3>1. CASE n \in news
      BY <1>1, <2>1, <3>1 DEF NewsInv
    <3>2. CASE n \notin news
      BY <1>4, <2>1, <3>2
    <3> QED
      BY <3>1, <3>2
  <2>3. SpansInv(t)'
    BY <2>1 DEF SpansInv, Unrecorded
  <2>4. StageInv(t)'
    <3>1. to \in {"completed", "failed", "yielded"} => Told(t, to)' /\ run[t] # 0
      BY <1>1, <1>2, <2>1 DEF Told, StageInv, Types
    <3> QED
      BY <1>1, <3>1 DEF StageInv
  <2> QED
    BY <2>2, <2>3, <2>4
<1>6. ShownInv(t)'
  BY <1>5 DEF ShownInv, Unrecorded
<1>7. ASSUME NEW u \in GaugedTasks \ {t}
      PROVE  /\ taskStage'[u] = taskStage[u] /\ run'[u] = run[u]
             /\ taskRegistry'[u] = taskRegistry[u] /\ activeSpan'[u] = activeSpan[u]
             /\ u \in activeYields => u \in activeYields'
             /\ \A n : n.task = u => (n \in news' <=> n \in news)
             /\ \A d : d[1] = u => /\ d \in underway => d \in underway'
                                   /\ d \in openSpans' => d \in openSpans
  <2>1. \A n : n.task = u => (n \in news' <=> n \in news)
    BY <1>2
  <2> QED
    BY <1>1, <2>1 DEF Unrecorded
<1> QED
  BY <1>3, <1>6, <1>7, AboutOne DEF Unrecorded

LEMMA MoveSteps ==
    ASSUME TelInv, NEW t \in GaugedTasks,
           \/ BecomesReady(t) \/ WorkCompletes(t) \/ WorkFails(t) \/ TaskCanceled(t)
           \/ TaskRetried(t) \/ TaskYields(t) \/ YieldAutoResolved(t) \/ YieldResolved(t)
           \/ \E r \in Nat : DispatchFails(t, r)
    PROVE  TelInv'
<1> USE DEF Silently, Telling, TaskStages, Types
<1>1. CASE BecomesReady(t)
  BY <1>1, StageMoved DEF BecomesReady
<1>2. CASE WorkCompletes(t)
  BY <1>2, StageMoved DEF WorkCompletes
<1>3. CASE WorkFails(t)
  <2>1. CASE StageMoves(t, {"running"}, "pending") /\ Silently
    BY <1>3, <2>1, StageMoved DEF WorkFails
  <2>2. CASE StageMoves(t, {"running"}, "failed") /\ Telling(t, "failed")
    BY <1>3, <2>2, StageMoved DEF WorkFails
  <2> QED
    BY <1>3, <2>1, <2>2 DEF WorkFails
<1>4. CASE TaskCanceled(t)
  BY <1>4, StageMoved DEF TaskCanceled
<1>5. CASE TaskRetried(t)
  BY <1>5, StageMoved DEF TaskRetried
<1>6. CASE TaskYields(t)
  BY <1>6, StageMoved DEF TaskYields
<1>7. CASE YieldAutoResolved(t)
  BY <1>7, StageMoved DEF YieldAutoResolved
<1>8. CASE YieldResolved(t)
  BY <1>8, StageMoved DEF YieldResolved
<1>9. CASE \E r \in Nat : DispatchFails(t, r)
  <2>1. PICK r \in Nat : DispatchFails(t, r)
    BY <1>9
  <2>2. /\ run' = run /\ underway' \subseteq underway /\ Unrecorded
        /\ \A d \in underway : d[1] # t => d \in underway'
    BY <2>1 DEF DispatchFails
  <2>3. CASE StageMoves(t, {"running"}, "pending") /\ Silently
    BY <2>2, <2>3, StageMoved
  <2>4. CASE StageMoves(t, {"running"}, "failed") /\ Telling(t, "failed")
    BY <2>2, <2>4, StageMoved
  <2>5. CASE taskStage[t] # "running" /\ UNCHANGED <<taskStage, news>>
    <3>1. TelemetryTypeOK'
      BY <2>2, <2>5 DEF Unrecorded, TelInv, TelemetryTypeOK
    <3>2. Told(t, taskStage[t])' <=> Told(t, taskStage[t])
      BY <2>2, <2>5 DEF Told
    <3>3. Told(t, "yielded")' <=> Told(t, "yielded")
      BY <2>2, <2>5 DEF Told
    <3>4. ShownInv(t)'
      BY <2>2, <2>5, <3>2, <3>3
         DEF Unrecorded, TelInv, ShownInv, NewsInv, SpansInv, StageInv
    <3> QED
      BY <2>2, <2>5, <3>1, <3>4, AboutOne DEF Unrecorded
  <2> QED
    BY <2>1, <2>3, <2>4, <2>5 DEF DispatchFails
<1> QED
  BY <1>1, <1>2, <1>3, <1>4, <1>5, <1>6, <1>7, <1>8, <1>9

LEMMA StartSteps == ASSUME TelInv, NEW t \in GaugedTasks, StartsDispatch(t) PROVE TelInv'
<1>1. /\ taskStage[t] = "ready" /\ taskStage'[t] = "running"
      /\ \A u \in GaugedTasks \ {t} : taskStage'[u] = taskStage[u] /\ run'[u] = run[u]
      /\ run'[t] = run[t] + 1 /\ run[t] \in Nat /\ <<t, run'[t]>> \in underway'
      /\ underway' = underway \cup {<<t, run[t] + 1>>} /\ news' = news
      /\ \A n \in news : n.task = t => n.type # "ready"
      /\ Unrecorded
  BY DEF StartsDispatch, StageMoves, TelInv, TelemetryTypeOK, About, Silently
<1>2. TelemetryTypeOK'
  BY <1>1 DEF StartsDispatch, StageMoves, Unrecorded, TelInv, TelemetryTypeOK, TaskStages
<1>3. ASSUME t \notin superseded PROVE NewsInv(t)' /\ SpansInv(t)' /\ StageInv(t)'
  <2>1. NewsInv(t) /\ SpansInv(t)
    BY <1>3 DEF TelInv, ShownInv
  <2>2. \A n \in news : n.run \in Nat
    BY DEF TelInv, TelemetryTypeOK
  <2>3. NewsInv(t)'
    BY <1>1, <2>1, <2>2 DEF NewsInv
  <2>4. SpansInv(t)'
    <3>1. \A d \in openSpans : d[2] \in Nat
      BY DEF TelInv, TelemetryTypeOK
    <3> QED
      BY <1>1, <2>1, <3>1 DEF SpansInv, Unrecorded
  <2>5. StageInv(t)'
    BY <1>1 DEF StageInv
  <2> QED
    BY <2>3, <2>4, <2>5
<1>4. ShownInv(t)'
  BY <1>1, <1>3 DEF ShownInv, Unrecorded
<1> QED
  BY <1>1, <1>2, <1>4, AboutOne DEF Unrecorded

LEMMA StartedSteps ==
    ASSUME TelInv, NEW t \in GaugedTasks, NEW r \in Nat, DispatchOver(t, r) PROVE TelInv'
<1>1. /\ taskStage'[t] = "running" /\ activeSpan'[t] = r /\ taskRegistry'[t] = "in_flight"
      /\ \A u \in GaugedTasks \ {t} :
            /\ taskStage'[u] = taskStage[u] /\ activeSpan'[u] = activeSpan[u]
            /\ taskRegistry'[u] = taskRegistry[u]
      /\ openSpans' = openSpans \cup {<<t, r>>} /\ underway' = underway \ {<<t, r>>}
      /\ run' = run /\ news' = news /\ activeYields' = activeYields
      /\ superseded' =
            IF taskStage[t] # "running" \/ run[t] # r THEN superseded \cup {t} ELSE superseded
  BY DEF DispatchOver, OnTaskStarted, Enter, Outrun, TelInv, TelemetryTypeOK
<1>2. TelemetryTypeOK'
  BY DEF DispatchOver, OnTaskStarted, Enter, TelInv, TelemetryTypeOK, TaskStages
<1>3. ASSUME t \notin superseded' PROVE NewsInv(t)' /\ SpansInv(t)' /\ StageInv(t)'
  <2>1. taskStage[t] = "running" /\ run[t] = r /\ t \notin superseded
    BY <1>1, <1>3
  <2>2. NewsInv(t) /\ SpansInv(t) /\ StageInv(t)
    BY <2>1 DEF TelInv, ShownInv
  <2>3. NewsInv(t)'
    BY <1>1, <2>1, <2>2 DEF NewsInv
  <2>4. SpansInv(t)'
    BY <1>1, <2>1, <2>2 DEF SpansInv
  <2>5. StageInv(t)'
    BY <1>1, <2>1, <2>2 DEF StageInv
  <2> QED
    BY <2>3, <2>4, <2>5
<1>4. ShownInv(t)'
  BY <1>3 DEF ShownInv
<1>5. superseded \subseteq superseded'
  BY <1>1
<1> QED
  BY <1>1, <1>2, <1>4, <1>5, AboutOne

\* A handler records an event: what it leaves of the news, and what it may not disturb.
LEMMA Recorded ==
    ASSUME TelInv, NEW n \in news, Handled(n), UNCHANGED stateVars, TelemetryTypeOK',
           \A u \in GaugedTasks \ {n.task} :
               /\ taskRegistry'[u] = taskRegistry[u] /\ activeSpan'[u] = activeSpan[u]
               /\ u \in activeYields => u \in activeYields',
           \A d \in openSpans' : d \in openSpans,
           \A d \in openSpans : d[1] # n.task => d \in openSpans',
           NewsInv(n.task) /\ SpansInv(n.task) /\ StageInv(n.task) /\ n.run = run[n.task] =>
               SpansInv(n.task)' /\ StageInv(n.task)'
    PROVE  TelInv'
<1>0. PICK t \in GaugedTasks : t = n.task
  BY DEF TelInv, TelemetryTypeOK
<1>1. /\ news' = news \ {n} /\ run' = run /\ taskStage' = taskStage /\ underway' = underway
      /\ superseded' = IF n.run # run[t] THEN superseded \cup {t} ELSE superseded
  BY <1>0 DEF Handled, Outrun, stateVars
<1>2. ASSUME t \notin superseded' PROVE NewsInv(t)' /\ SpansInv(t)' /\ StageInv(t)'
  <2>1. t \notin superseded /\ n.run = run[t]
    BY <1>1, <1>2
  <2>2. NewsInv(t) /\ SpansInv(t) /\ StageInv(t)
    BY <2>1 DEF TelInv, ShownInv
  <2>3. NewsInv(t)'
    BY <1>1, <2>2 DEF NewsInv
  <2> QED
    BY <1>0, <2>1, <2>2, <2>3
<1>3. ShownInv(t)'
  BY <1>2 DEF ShownInv
<1>4. superseded \subseteq superseded'
  BY <1>1
<1> QED
  BY <1>0, <1>1, <1>3, <1>4, AboutOne

\* The news that are left once n has been handled.
LEMMA StillToldOf ==
    ASSUME NEW n \in news, news' = news \ {n}, run' = run, NEW t, NEW type, type # n.type
    PROVE  Told(t, type) => Told(t, type)'
  BY DEF Told

LEMMA HandleSteps ==
    ASSUME TelInv, NEW n \in news,
           \/ HandleReady(n) \/ HandleCompleted(n) \/ HandleFailed(n) \/ HandleYielded(n)
           \/ HandleResolved(n)
    PROVE  TelInv'
<1>1. PICK t \in GaugedTasks : t = n.task
  BY DEF TelInv, TelemetryTypeOK
<1>2. /\ Handled(n) /\ UNCHANGED stateVars /\ news' = news \ {n} /\ run' = run
      /\ taskStage' = taskStage
  BY DEF HandleReady, HandleCompleted, HandleFailed, HandleYielded, HandleResolved, Handled,
         stateVars
<1>3. TelemetryTypeOK'
  BY <1>1, <1>2
     DEF HandleReady, HandleCompleted, HandleFailed, HandleYielded, HandleResolved, Handled, Enter,
         CloseSpan, OnYieldStarted, OnYieldResolved, stateVars, TelInv, TelemetryTypeOK
<1>4. /\ \A u \in GaugedTasks \ {t} :
            /\ taskRegistry'[u] = taskRegistry[u] /\ activeSpan'[u] = activeSpan[u]
            /\ u \in activeYields => u \in activeYields'
      /\ \A d \in openSpans' : d \in openSpans
      /\ \A d \in openSpans : d[1] # t => d \in openSpans'
  BY <1>1
     DEF HandleReady, HandleCompleted, HandleFailed, HandleYielded, HandleResolved, Enter,
         CloseSpan, OnYieldStarted, OnYieldResolved, TelInv, TelemetryTypeOK
<1>5. ASSUME NewsInv(t), SpansInv(t), StageInv(t), n.run = run[t]
      PROVE  SpansInv(t)' /\ StageInv(t)'
  <2>1. \A type : type # n.type => (Told(t, type) => Told(t, type)')
    BY <1>2, StillToldOf
  <2>2. /\ n.type = "ready" => run[t] = 0
        /\ n.type # "ready" => taskStage[t] # "running"
        /\ n.type = "resolved" => taskStage[t] # "yielded"
    BY <1>1, <1>5 DEF NewsInv
  <2>3. CASE HandleReady(n)
    BY <1>1, <1>2, <1>5, <2>2, <2>3 DEF HandleReady, SpansInv, StageInv
  <2>4. CASE HandleCompleted(n) \/ HandleFailed(n)
    <3>1. /\ taskRegistry'[t] = "none" /\ openSpans' = openSpans \ {<<t, activeSpan[t]>>}
          /\ activeYields' = activeYields /\ n.type \in {"completed", "failed"}
      BY <1>1, <2>4 DEF HandleCompleted, HandleFailed, Enter, CloseSpan, TelInv, TelemetryTypeOK
    <3>2. <<t, run[t]>> \notin openSpans'
      BY <1>5, <3>1 DEF SpansInv
    <3>3. SpansInv(t)'
      BY <1>2, <1>4, <1>5, <3>2 DEF SpansInv, TelInv, TelemetryTypeOK
    <3>4. StageInv(t)'
      BY <1>2, <1>5, <2>1, <2>2, <3>1, <3>2 DEF StageInv
    <3> QED
      BY <3>3, <3>4
  <2>5. CASE HandleYielded(n)
    <3>1. /\ taskRegistry'[t] = "none" /\ openSpans' = openSpans /\ activeSpan' = activeSpan
          /\ t \in activeYields' /\ n.type = "yielded"
      BY <1>1, <2>5 DEF HandleYielded, Enter, OnYieldStarted, TelInv, TelemetryTypeOK
    <3>2. SpansInv(t)'
      BY <1>2, <1>5, <3>1 DEF SpansInv
    <3>3. StageInv(t)'
      BY <1>2, <1>5, <2>1, <2>2, <3>1 DEF StageInv
    <3> QED
      BY <3>2, <3>3
  <2>6. CASE HandleResolved(n)
    <3>1. /\ taskRegistry' = taskRegistry /\ openSpans' = openSpans /\ activeSpan' = activeSpan
          /\ n.type = "resolved"
      BY <2>6 DEF HandleResolved
    <3>2. SpansInv(t)'
      BY <1>2, <1>5, <3>1 DEF SpansInv
    <3>3. StageInv(t)'
      BY <1>2, <1>5, <2>1, <2>2, <3>1 DEF StageInv
    <3> QED
      BY <3>2, <3>3
  <2> QED
    BY <2>3, <2>4, <2>5, <2>6
<1> QED
  BY <1>1, <1>2, <1>3, <1>4, <1>5, Recorded

LEMMA TelemetrySteps == TelInv /\ [TelemetryNext]_telemetryVars => TelInv'
<1> SUFFICES ASSUME TelInv, [TelemetryNext]_telemetryVars PROVE TelInv'
  OBVIOUS
<1>1. CASE UNCHANGED telemetryVars
  BY <1>1 DEF telemetryVars, stateVars, TelInv, TelemetryTypeOK, ShownInv, NewsInv, SpansInv,
              StageInv, Told
<1>2. CASE \E d \in underway : DispatchOver(d[1], d[2]) \/ DispatchFails(d[1], d[2])
  <2>1. PICK d \in underway : DispatchOver(d[1], d[2]) \/ DispatchFails(d[1], d[2])
    BY <1>2
  <2>2. d[1] \in GaugedTasks /\ d[2] \in Nat
    BY DEF TelInv, TelemetryTypeOK
  <2> QED
    BY <2>1, <2>2, StartedSteps, MoveSteps
<1>3. CASE \E n \in news : \/ HandleReady(n) \/ HandleCompleted(n) \/ HandleFailed(n)
                           \/ HandleYielded(n) \/ HandleResolved(n)
  BY <1>3, HandleSteps
<1>4. CASE \E t \in GaugedTasks :
          \/ BecomesReady(t) \/ StartsDispatch(t) \/ WorkCompletes(t) \/ WorkFails(t)
          \/ TaskCanceled(t) \/ TaskRetried(t) \/ TaskYields(t)
          \/ YieldAutoResolved(t) \/ YieldResolved(t)
  BY <1>4, MoveSteps, StartSteps
<1> QED
  BY <1>1, <1>2, <1>3, <1>4 DEF TelemetryNext

\* Whatever handlers and dispatches overlap, once the events of a task are recorded the gauges,
\* the spans and the yields show its last run, unless it had gone on before one was recorded.
THEOREM TasksAreAlwaysShown == TelemetrySpec => []TasksAreShown
<1>1. TelInv => TasksAreShown
  <2> SUFFICES ASSUME TelInv, NEW t \in GaugedTasks \ superseded, About(t) = {}
               PROVE  /\ t \in ShownAs("in_flight") =>
                            taskStage[t] \in {"running", "pending", "ready", "canceled"}
                      /\ taskStage[t] = "running" /\ <<t, run[t]>> \notin underway =>
                            t \in ShownAs("in_flight")
                      /\ taskStage[t] \in {"completed", "failed"} =>
                            /\ t \notin ShownAs("ready") \cup ShownAs("in_flight")
                            /\ <<t, run[t]>> \notin openSpans
                      /\ taskStage[t] = "yielded" => t \in activeYields
    BY DEF TasksAreShown
  <2>1. StageInv(t) /\ taskStage[t] \in TaskStages
    BY DEF TelInv, ShownInv, TelemetryTypeOK
  <2>2. \A type : ~Told(t, type)
    BY DEF Told, About
  <2> QED
    BY <2>1, <2>2 DEF StageInv, ShownAs, TaskStages
<1> QED
  BY <1>1, TelemetryInitially, TelemetrySteps, PTL DEF TelemetrySpec


-----------------------------------------------------------------------------
\* Both together.

\* However exits, kills, late reads, ends and the events of tasks overlap, what is recorded of
\* what agents cost and of how tasks stand is true of them.
THEOREM TelemetryIsAlwaysTrue == AccountingSpec /\ TelemetrySpec => []TelemetryIsTrue
BY CostsAreAlwaysAccounted, TasksAreAlwaysShown, PTL DEF TelemetryIsTrue


-----------------------------------------------------------------------------
\* Reports. Of each run of a task, all but the last are over, their handlers and calls
\* included; past the grace period no call of the last one is on its way, and its handoff is
\* the task's.

ReportsSpec == ReportsInit /\ [][ReportsNext]_reportVars

HandlerSteps == {"none", "tracked", "grace", "completed", "failed", "synthesize", "notify", "over"}
Handoffs == [kind : {"none", "real", "synthesized"}, of : Nat]

ReportsTypeOK ==
    /\ state \in [Feeders -> {"pending", "running", "completed", "failed"}]
    /\ retried \in [Feeders -> 0 .. FeederRetries]
    /\ process \in [Workers -> Ends \cup {"none", "running"}]
    /\ handoffCall \in [Workers -> Int] /\ handoff \in [Feeders -> Handoffs]
    /\ handling \in [Workers -> HandlerSteps] /\ left \in [Workers -> Nat]
    /\ told \in [Feeders -> Handoffs] /\ asked \in BOOLEAN /\ swept \subseteq Feeders

\* Of the runs of a task that have begun, the earlier ones are over, with their handlers and their
\* calls. A handler is past the grace period of its run only when no call of it is on the way.
RunInv(t, r) ==
    LET w == <<t, r>>
        begun == IF state[t] = "pending" THEN retried[t] ELSE retried[t] + 1
    IN
    /\ process[w] = "none" <=> r > begun
    /\ process[w] = "none" <=> handling[w] = "none"
    /\ process[w] = "none" => handoffCall[w] = NotCalled
    /\ handling[w] \notin {"none", "tracked", "over"} => Over(w)
    /\ r <= retried[t] => handling[w] = "over" /\ Over(w) /\ ~InFlight(w)
    /\ handling[w] = "grace" /\ InFlight(w) => handoffCall[w] + left[w] >= Grace
    /\ handling[w] \in {"completed", "failed", "synthesize", "notify"} => ~InFlight(w)
    /\ handoffCall[w] \in {NotCalled, Served} \cup (0 .. Latency)

\* The handoff is what the last run set, if it did; one is there before the task is completed.
LastInv(t, r) ==
    LET w == <<t, r>> IN
    r = retried[t] + 1 =>
        /\ handoffCall[w] = Served => handoff[t] = [kind |-> "real", of |-> r]
        /\ handling[w] = "synthesize" => handoffCall[w] = NotCalled
        /\ handling[w] = "notify" => handoff[t].kind # "none"
        /\ state[t] = "completed" =>
              handling[w] = "over" /\ Over(w) /\ ~InFlight(w) /\ handoff[t].kind # "none"

TaskInv(t) ==
    /\ \A r \in Runs : RunInv(t, r) /\ LastInv(t, r)
    /\ asked => state[t] = "completed" /\ told[t] = handoff[t]

RepInv == ReportsTypeOK /\ \A t \in Feeders : t \in swept \/ TaskInv(t)

LEMMA ReportsInitially == ReportsInit => RepInv
<1> SUFFICES ASSUME ReportsInit PROVE RepInv
  OBVIOUS
<1>1. ReportsTypeOK
  <2>1. 0 \in 0 .. FeederRetries /\ NoHandoff \in Handoffs /\ NotCalled \in Int
    BY ReportsAssumption DEF NoHandoff, Handoffs, NotCalled
  <2> HIDE DEF NoHandoff, NotCalled
  <2> QED
    BY <2>1 DEF ReportsInit, ReportsTypeOK, HandlerSteps
<1>2. ASSUME NEW t \in Feeders, NEW r \in Runs PROVE RunInv(t, r) /\ LastInv(t, r)
  <2>1. <<t, r>> \in Workers /\ r \in Int /\ r >= 1
    BY ReportsAssumption DEF Workers, Runs
  <2>2. /\ process[<<t, r>>] = IF r = 1 THEN "running" ELSE "none"
        /\ handling[<<t, r>>] = IF r = 1 THEN "tracked" ELSE "none"
        /\ handoffCall[<<t, r>>] = -1 /\ state[t] = "running" /\ retried[t] = 0
    BY <2>1 DEF ReportsInit, NotCalled
  <2> QED
    BY <2>1, <2>2, ReportsAssumption DEF RunInv, LastInv, InFlight, Over, NotCalled, Served
<1>3. ~asked
  BY DEF ReportsInit
<1> QED
  BY <1>1, <1>2, <1>3 DEF RepInv, TaskInv

\* A task of which nothing changes.
LEMMA TaskApart ==
    ASSUME NEW t \in Feeders, TaskInv(t),
           state'[t] = state[t], retried'[t] = retried[t], handoff'[t] = handoff[t],
           told'[t] = told[t], asked' = asked,
           \A r \in Runs : /\ process'[<<t, r>>] = process[<<t, r>>]
                           /\ handoffCall'[<<t, r>>] = handoffCall[<<t, r>>]
                           /\ handling'[<<t, r>>] = handling[<<t, r>>]
                           /\ left'[<<t, r>>] = left[<<t, r>>]
    PROVE  TaskInv(t)'
BY DEF TaskInv, RunInv, LastInv, InFlight, Over

\* A step that is only about run r of task t.
OnlyAbout(t, r) ==
    /\ \A v \in Workers : v # <<t, r>> =>
          /\ process'[v] = process[v] /\ handoffCall'[v] = handoffCall[v]
          /\ handling'[v] = handling[v] /\ left'[v] = left[v]
    /\ \A u \in Feeders : u # t =>
          state'[u] = state[u] /\ retried'[u] = retried[u] /\ handoff'[u] = handoff[u]
    /\ UNCHANGED dependentVars

LEMMA Elsewhere ==
    ASSUME RepInv, NEW t \in Feeders, NEW r \in Runs, OnlyAbout(t, r), swept \subseteq swept',
           ReportsTypeOK', t \in swept' \/ TaskInv(t)'
    PROVE  RepInv'
<1>1. ASSUME NEW u \in Feeders, u # t, u \notin swept' PROVE TaskInv(u)'
  <2>1. TaskInv(u)
    BY <1>1 DEF RepInv
  <2>2. ASSUME NEW q \in Runs PROVE <<u, q>> \in Workers /\ <<u, q>> # <<t, r>>
    BY <1>1 DEF Workers
  <2> QED
    BY <1>1, <2>1, <2>2, TaskApart DEF OnlyAbout, dependentVars
<1> QED
  BY <1>1 DEF RepInv

\* The worker's calls, and its end.
LEMMA WorkerSteps ==
    ASSUME RepInv, NEW w \in Workers, CallHandoff(w) \/ SetHandoff(w) \/ End(w)
    PROVE  RepInv'
<1> PICK t \in Feeders, r \in Runs : w = <<t, r>>
  BY DEF Workers
<1>t. ReportsTypeOK /\ r \in Nat /\ r > 0 /\ <<t, r>> \in Workers
  BY DEF RepInv, Runs, Workers
<1>1. CASE CallHandoff(w)
  <2>1. /\ process[<<t, r>>] = "running" /\ handoffCall[<<t, r>>] = NotCalled
        /\ handoffCall' = [handoffCall EXCEPT ![<<t, r>>] = 0]
        /\ UNCHANGED <<state, retried, process, handoff, handling, left, told, asked, swept>>
    BY <1>1 DEF CallHandoff, Live, tasksVars, handlerVars, dependentVars
  <2>2. ReportsTypeOK'
    BY <1>t, <2>1 DEF ReportsTypeOK
  <2>3. OnlyAbout(t, r) /\ handoffCall'[<<t, r>>] = 0
    BY <1>t, <2>1 DEF OnlyAbout, ReportsTypeOK, dependentVars
  <2>4. ASSUME TaskInv(t) PROVE TaskInv(t)'
    <3>1. ASSUME NEW q \in Runs PROVE RunInv(t, q)' /\ LastInv(t, q)'
      <4>1. RunInv(t, q) /\ LastInv(t, q) /\ RunInv(t, r) /\ LastInv(t, r)
        BY <2>4 DEF TaskInv
      <4>2. q # r => handoffCall'[<<t, q>>] = handoffCall[<<t, q>>]
        BY <2>3 DEF OnlyAbout, Workers
      <4>3. CASE q # r
        BY <2>1, <4>1, <4>2, <4>3 DEF RunInv, LastInv, Over, InFlight
      <4>4. CASE q = r
        BY <1>t, <2>1, <2>3, <4>1, <4>4, ReportsAssumption
           DEF RunInv, LastInv, Over, InFlight, Ends, NotCalled, Served, ReportsTypeOK
      <4> QED
        BY <4>3, <4>4
    <3> QED
      BY <2>1, <2>4, <3>1 DEF TaskInv
  <2> QED
    BY <2>1, <2>2, <2>3, <2>4, Elsewhere DEF RepInv
<1>2. CASE SetHandoff(w)
  <2>1. /\ InFlight(<<t, r>>)
        /\ handoffCall' = [handoffCall EXCEPT ![<<t, r>>] = Served]
        /\ handoff' = [handoff EXCEPT ![t] = [kind |-> "real", of |-> r]]
        /\ UNCHANGED <<state, retried, process, handling, left, told, asked, swept>>
    BY <1>2 DEF SetHandoff, tasksVars, handlerVars, dependentVars
  <2>2. ReportsTypeOK'
    <3>1. Served \in Int /\ [kind |-> "real", of |-> r] \in Handoffs
      BY <1>t, ReportsAssumption DEF Served, Handoffs
    <3> QED
      BY <1>t, <2>1, <3>1 DEF ReportsTypeOK
  <2>3. /\ OnlyAbout(t, r) /\ handoffCall'[<<t, r>>] = Served
        /\ handoff'[t] = [kind |-> "real", of |-> r]
    BY <1>t, <2>1 DEF OnlyAbout, ReportsTypeOK, dependentVars
  <2>4. ASSUME TaskInv(t) PROVE TaskInv(t)'
    <3>1. RunInv(t, r) /\ LastInv(t, r)
      BY <2>4 DEF TaskInv
    <3>2. r = retried[t] + 1 /\ ~asked /\ retried[t] \in Nat
      <4>1. r > retried[t]
        BY <1>t, <2>1, <3>1 DEF RunInv, ReportsTypeOK
      <4>2. handoffCall[<<t, r>>] # NotCalled
        BY <2>1, ReportsAssumption DEF InFlight, NotCalled
      <4>3. r <= retried[t] + 1
        BY <1>t, <4>2, <3>1 DEF RunInv, ReportsTypeOK
      <4>4. state[t] # "completed"
        BY <1>t, <2>1, <3>1, <4>1, <4>3 DEF LastInv, ReportsTypeOK
      <4> QED
        BY <1>t, <2>4, <4>1, <4>3, <4>4 DEF TaskInv, ReportsTypeOK
    <3>3. ASSUME NEW q \in Runs PROVE RunInv(t, q)' /\ LastInv(t, q)'
      <4>1. RunInv(t, q) /\ LastInv(t, q)
        BY <2>4 DEF TaskInv
      <4>2. q # r => handoffCall'[<<t, q>>] = handoffCall[<<t, q>>]
        BY <2>3 DEF OnlyAbout, Workers
      <4>3. RunInv(t, q)'
        BY <1>t, <2>1, <2>3, <4>1, <4>2, <3>1, ReportsAssumption
           DEF RunInv, Over, InFlight, Ends, NotCalled, Served, ReportsTypeOK
      <4>4. LastInv(t, q)'
        BY <1>t, <2>1, <2>3, <3>1, <3>2, <4>1, ReportsAssumption
           DEF RunInv, LastInv, Over, InFlight, NotCalled, Served, ReportsTypeOK, Runs
      <4> QED
        BY <4>3, <4>4
    <3> QED
      BY <2>1, <3>2, <3>3 DEF TaskInv
  <2> QED
    BY <2>1, <2>2, <2>3, <2>4, Elsewhere DEF RepInv
<1>3. CASE End(w)
  <2>1. PICK end \in Ends : process' = [process EXCEPT ![<<t, r>>] = end]
    BY <1>3 DEF End
  <2>2. /\ process[<<t, r>>] = "running"
        /\ UNCHANGED <<state, retried, handoffCall, handoff, handling, left, told, asked, swept>>
    BY <1>3 DEF End, Live, tasksVars, handlerVars, dependentVars
  <2>3. ReportsTypeOK'
    BY <1>t, <2>1, <2>2 DEF ReportsTypeOK
  <2>4. OnlyAbout(t, r) /\ process'[<<t, r>>] = end
    BY <1>t, <2>1, <2>2 DEF OnlyAbout, ReportsTypeOK, dependentVars
  <2>5. ASSUME TaskInv(t) PROVE TaskInv(t)'
    <3>1. ASSUME NEW q \in Runs PROVE RunInv(t, q)' /\ LastInv(t, q)'
      <4>1. RunInv(t, q) /\ LastInv(t, q)
        BY <2>5 DEF TaskInv
      <4>2. q # r => process'[<<t, q>>] = process[<<t, q>>]
        BY <2>4 DEF OnlyAbout, Workers
      <4> QED
        BY <2>2, <2>4, <4>1, <4>2 DEF RunInv, LastInv, Over, InFlight, Ends
    <3> QED
      BY <2>2, <2>5, <3>1 DEF TaskInv
  <2> QED
    BY <2>2, <2>3, <2>4, <2>5, Elsewhere DEF RepInv
<1> QED
  BY <1>1, <1>2, <1>3

\* A handler that goes on, of a run that has begun and is the last.
LEMMA HandlerMoved ==
    ASSUME RepInv, NEW t \in Feeders, NEW r \in Runs, NEW next \in HandlerSteps \ {"none"},
           handling[<<t, r>>] \notin {"none", "over"},
           handling' = [handling EXCEPT ![<<t, r>>] = next],
           left' \in [Workers -> Nat],
           \A v \in Workers : v # <<t, r>> => left'[v] = left[v],
           UNCHANGED <<state, retried, process, handoffCall, told, asked, swept>>,
           handoff' \in [Feeders -> Handoffs],
           \A u \in Feeders : u # t => handoff'[u] = handoff[u],
           TaskInv(t) =>
              /\ next \notin {"tracked", "over"} => Over(<<t, r>>)
              /\ next = "grace" /\ InFlight(<<t, r>>) =>
                    handoffCall[<<t, r>>] + left'[<<t, r>>] >= Grace
              /\ next \in {"completed", "failed", "synthesize", "notify"} => ~InFlight(<<t, r>>)
              /\ next = "synthesize" => handoffCall[<<t, r>>] = NotCalled
              /\ next = "notify" => handoff'[t].kind # "none"
              /\ handoffCall[<<t, r>>] = Served => handoff'[t] = handoff[t]
    PROVE  RepInv'
<1>t. ReportsTypeOK /\ r \in Nat /\ r > 0 /\ <<t, r>> \in Workers
  BY DEF RepInv, Runs, Workers
<1>1. ReportsTypeOK'
  BY <1>t DEF ReportsTypeOK
<1>2. OnlyAbout(t, r) /\ handling'[<<t, r>>] = next
  BY <1>t DEF OnlyAbout, ReportsTypeOK, dependentVars
<1>3. ASSUME TaskInv(t) PROVE TaskInv(t)'
  <2>1. RunInv(t, r) /\ LastInv(t, r)
    BY <1>3 DEF TaskInv
  <2>2. r = retried[t] + 1 /\ state[t] # "completed" /\ retried[t] \in Nat /\ ~asked
    <3>1. retried[t] \in Nat
      BY <1>t DEF ReportsTypeOK
    <3>2. r > retried[t] /\ r <= retried[t] + 1
      BY <1>t, <2>1, <3>1 DEF RunInv
    <3>3. state[t] # "completed"
      BY <1>t, <2>1, <3>1, <3>2 DEF LastInv
    <3> QED
      BY <1>t, <1>3, <3>1, <3>2, <3>3 DEF TaskInv
  <2>3. ASSUME NEW q \in Runs PROVE RunInv(t, q)' /\ LastInv(t, q)'
    <3>1. RunInv(t, q) /\ LastInv(t, q)
      BY <1>3 DEF TaskInv
    <3>2. CASE q # r
      <4>1. handling'[<<t, q>>] = handling[<<t, q>>] /\ left'[<<t, q>>] = left[<<t, q>>]
        BY <1>2, <3>2 DEF OnlyAbout, Workers
      <4>2. q # retried[t] + 1
        BY <2>2, <3>2
      <4> QED
        BY <3>1, <4>1, <4>2 DEF RunInv, LastInv, Over, InFlight
    <3>3. CASE q = r
      <4>1. RunInv(t, r)'
        BY <1>2, <1>3, <1>t, <2>1, <2>2 DEF RunInv, Over, InFlight
      <4>2. LastInv(t, r)'
        BY <1>2, <1>3, <1>t, <2>1, <2>2 DEF LastInv, Over, InFlight
      <4> QED
        BY <3>3, <4>1, <4>2
    <3> QED
      BY <3>2, <3>3
  <2> QED
    BY <2>2, <2>3 DEF TaskInv
<1> QED
  BY <1>1, <1>2, <1>3, Elsewhere DEF RepInv

LEMMA ExitHandlerSteps ==
    ASSUME RepInv, NEW w \in Workers,
           HandleExit(w) \/ AfterGrace(w) \/ LookForHandoff(w) \/ SynthesizeHandoff(w)
    PROVE  RepInv'
<1> PICK t \in Feeders, r \in Runs : w = <<t, r>>
  BY DEF Workers
<1>t. ReportsTypeOK /\ r \in Nat /\ r > 0 /\ <<t, r>> \in Workers
  BY DEF RepInv, Runs, Workers
<1>r. TaskInv(t) => RunInv(t, r)
  BY DEF TaskInv
<1>l. TaskInv(t) =>
         LastInv(t, r) /\ (handling[<<t, r>>] \notin {"none", "over"} => r = retried[t] + 1)
  <2>1. r > retried[t] /\ r <= retried[t] + 1 => r = retried[t] + 1
    BY <1>t DEF ReportsTypeOK
  <2> QED
    BY <1>t, <1>r, <2>1 DEF TaskInv, RunInv, ReportsTypeOK
<1>1. CASE HandleExit(w)
  <2>1. /\ Over(<<t, r>>) /\ handling[<<t, r>>] = "tracked"
        /\ handling' = [handling EXCEPT ![<<t, r>>] = "grace"]
        /\ left' = [left EXCEPT ![<<t, r>>] = Grace]
        /\ UNCHANGED <<state, retried, process, handoffCall, handoff, told, asked, swept>>
    BY <1>1 DEF HandleExit, HandlerMoves, tasksVars, workersVars, dependentVars
  <2>2. InFlight(<<t, r>>) => handoffCall[<<t, r>>] \in Nat
    BY <1>t, ReportsAssumption DEF InFlight, ReportsTypeOK
  <2>3. /\ left' \in [Workers -> Nat] /\ left'[<<t, r>>] = Grace
        /\ \A v \in Workers : v # <<t, r>> => left'[v] = left[v]
    BY <1>t, <2>1, ReportsAssumption DEF ReportsTypeOK
  <2>4. InFlight(<<t, r>>) => handoffCall[<<t, r>>] + left'[<<t, r>>] >= Grace
    BY <2>2, <2>3, ReportsAssumption
  <2>5. "grace" \in HandlerSteps \ {"none"} /\ handoff' \in [Feeders -> Handoffs]
    BY <1>t, <2>1 DEF HandlerSteps, ReportsTypeOK
  <2> QED
    BY <2>1, <2>3, <2>4, <2>5, HandlerMoved
<1>2. CASE AfterGrace(w)
  <2>1. PICK next \in {"completed", "failed"} :
           handling' = [handling EXCEPT ![<<t, r>>] = next]
    BY <1>2 DEF AfterGrace, HandlerMoves, InferDeathOutcome
  <2>2. /\ left[<<t, r>>] = 0 /\ handling[<<t, r>>] = "grace"
        /\ UNCHANGED <<state, retried, process, handoffCall, handoff, left, told, asked, swept>>
    BY <1>2 DEF AfterGrace, HandlerMoves, tasksVars, workersVars, dependentVars
  <2>3. TaskInv(t) => Over(<<t, r>>) /\ ~InFlight(<<t, r>>)
    BY <1>r, <1>t, <2>2, ReportsAssumption DEF RunInv, InFlight, ReportsTypeOK
  <2>4. /\ next \in HandlerSteps \ {"none"} /\ handoff' \in [Feeders -> Handoffs]
        /\ left' \in [Workers -> Nat]
    BY <1>t, <2>1, <2>2 DEF HandlerSteps, ReportsTypeOK
  <2> QED
    BY <2>1, <2>2, <2>3, <2>4, HandlerMoved
<1>3. CASE LookForHandoff(w)
  <2>1. PICK next \in {"synthesize", "notify"} :
           /\ handling' = [handling EXCEPT ![<<t, r>>] = next]
           /\ next = "synthesize" <=> handoff[t].kind # "real"
    BY <1>3 DEF LookForHandoff, HandlerMoves, ShouldSynthesizeFallback
  <2>2. /\ handling[<<t, r>>] = "completed"
        /\ UNCHANGED <<state, retried, process, handoffCall, handoff, left, told, asked, swept>>
    BY <1>3 DEF LookForHandoff, HandlerMoves, tasksVars, workersVars, dependentVars
  <2>3. TaskInv(t) => /\ Over(<<t, r>>) /\ ~InFlight(<<t, r>>)
                      /\ next = "synthesize" => handoffCall[<<t, r>>] = NotCalled
    <3>1. SUFFICES ASSUME TaskInv(t)
                   PROVE  /\ Over(<<t, r>>) /\ ~InFlight(<<t, r>>)
                          /\ next = "synthesize" => handoffCall[<<t, r>>] = NotCalled
      OBVIOUS
    <3>2. Over(<<t, r>>) /\ ~InFlight(<<t, r>>) /\ handoffCall[<<t, r>>] \in {NotCalled, Served}
      BY <1>r, <2>2, <3>1 DEF RunInv, InFlight
    <3>3. next = "synthesize" => handoffCall[<<t, r>>] # Served
      BY <1>l, <2>1, <2>2, <3>1 DEF LastInv
    <3> QED
      BY <3>2, <3>3
  <2>4. /\ next \in HandlerSteps \ {"none"} /\ handoff' \in [Feeders -> Handoffs]
        /\ left' \in [Workers -> Nat]
    BY <1>t, <2>1, <2>2 DEF HandlerSteps, ReportsTypeOK
  <2>5. next = "notify" => handoff'[t].kind # "none"
    BY <2>1, <2>2
  <2> QED
    BY <2>1, <2>2, <2>3, <2>4, <2>5, HandlerMoved
<1>4. CASE SynthesizeHandoff(w)
  <2>1. /\ handling[<<t, r>>] = "synthesize"
        /\ handling' = [handling EXCEPT ![<<t, r>>] = "notify"]
        /\ handoff' = [handoff EXCEPT ![t] = [kind |-> "synthesized", of |-> r]]
        /\ UNCHANGED <<state, retried, process, handoffCall, left, told, asked, swept>>
    BY <1>4 DEF SynthesizeHandoff, HandlerMoves, tasksVars, workersVars, dependentVars
  <2>2. TaskInv(t) => /\ Over(<<t, r>>) /\ ~InFlight(<<t, r>>)
                      /\ handoffCall[<<t, r>>] # Served
    <3>1. NotCalled # Served
      BY ReportsAssumption DEF NotCalled, Served
    <3> QED
      BY <1>r, <1>l, <2>1, <3>1 DEF RunInv, LastInv
  <2>3. [kind |-> "synthesized", of |-> r] \in Handoffs
    BY <1>t DEF Handoffs
  <2>4. /\ "notify" \in HandlerSteps \ {"none"} /\ handoff' \in [Feeders -> Handoffs]
        /\ left' \in [Workers -> Nat] /\ handoff'[t].kind = "synthesized"
        /\ \A u \in Feeders : u # t => handoff'[u] = handoff[u]
    BY <1>t, <2>1, <2>3 DEF HandlerSteps, ReportsTypeOK
  <2> QED
    BY <2>1, <2>2, <2>4, HandlerMoved
<1> QED
  BY <1>1, <1>2, <1>3, <1>4

TaskStatuses == {"pending", "running", "completed", "failed"}

LEMMA Reported ==
    ASSUME ReportsTypeOK, NEW t \in Feeders, NEW skip \in BOOLEAN,
           ReportCompleted(t) \/ ReportFailed(t, skip)
    PROVE  /\ state' \in [Feeders -> TaskStatuses] /\ retried' \in [Feeders -> 0 .. FeederRetries]
           /\ \A u \in Feeders : u # t => state'[u] = state[u] /\ retried'[u] = retried[u]
           /\ ReportCompleted(t) => retried' = retried
                 /\ state'[t] = IF state[t] = "running" THEN "completed" ELSE state[t]
           /\ ReportFailed(t, skip) =>
                 \/ state'[t] = state[t] /\ retried'[t] = retried[t]
                 \/ /\ state'[t] = "pending" /\ retried'[t] = retried[t] + 1
                    /\ state[t] \in {"pending", "running"}
                 \/ state'[t] = "failed" /\ state[t] = "running" /\ retried'[t] = retried[t]
<1>t. /\ state \in [Feeders -> TaskStatuses] /\ retried \in [Feeders -> 0 .. FeederRetries]
      /\ FeederRetries \in Nat
  BY ReportsAssumption DEF ReportsTypeOK, TaskStatuses
<1>1. ASSUME ReportCompleted(t)
      PROVE  /\ state' = [state EXCEPT ![t] = IF @ = "running" THEN "completed" ELSE @]
             /\ retried' = retried
  BY <1>1 DEF ReportCompleted
<1>2. ASSUME ReportFailed(t, skip)
      PROVE  \/ UNCHANGED <<state, retried>>
             \/ /\ state[t] \in {"pending", "running"} /\ retried[t] < FeederRetries
                /\ state' = [state EXCEPT ![t] = "pending"]
                /\ retried' = [retried EXCEPT ![t] = retried[t] + 1]
             \/ /\ state' = [state EXCEPT ![t] = IF @ = "running" THEN "failed" ELSE @]
                /\ retried' = retried
  BY <1>2, <1>t DEF ReportFailed, tasksVars, TaskStatuses
<1>3. retried[t] < FeederRetries => retried[t] + 1 \in 0 .. FeederRetries
  BY <1>t
<1> HIDE DEF ReportCompleted, ReportFailed
<1>4. CASE ReportFailed(t, skip)
  <2>1. ReportCompleted(t) => retried' = retried
                 /\ state'[t] = IF state[t] = "running" THEN "completed" ELSE state[t]
    BY <1>1, <1>t
  <2> QED
    BY <1>2, <1>3, <1>4, <1>t, <2>1 DEF TaskStatuses
<1>5. CASE ReportCompleted(t) /\ ~ReportFailed(t, skip)
  BY <1>1, <1>5, <1>t DEF TaskStatuses
<1> QED
  BY <1>4, <1>5

\* The end of a handler that tells the task graph how its run ended.
LEMMA NotifySteps ==
    ASSUME RepInv, NEW w \in Workers, NotifyCompleted(w) \/ NotifyFailed(w)
    PROVE  RepInv'
<1> PICK t \in Feeders, r \in Runs : w = <<t, r>>
  BY DEF Workers
<1>t. ReportsTypeOK /\ r \in Nat /\ r > 0 /\ <<t, r>> \in Workers
  BY DEF RepInv, Runs, Workers
<1>1. /\ handling[<<t, r>>] \in {"notify", "failed"}
      /\ handling' = [handling EXCEPT ![<<t, r>>] = "over"]
      /\ UNCHANGED <<process, handoffCall, handoff, left, told, asked, swept>>
      /\ \E skip \in BOOLEAN :
            \/ ReportCompleted(t) /\ handling[<<t, r>>] = "notify"
            \/ ReportFailed(t, skip)
  BY DEF NotifyCompleted, NotifyFailed, HandlerMoves, workersVars, dependentVars
<1>2. /\ state' \in [Feeders -> TaskStatuses] /\ retried' \in [Feeders -> 0 .. FeederRetries]
      /\ \A u \in Feeders : u # t => state'[u] = state[u] /\ retried'[u] = retried[u]
      /\ \/ state'[t] = state[t] /\ retried'[t] = retried[t]
         \/ /\ state'[t] = "pending" /\ retried'[t] = retried[t] + 1
            /\ state[t] \in {"pending", "running"}
         \/ /\ state'[t] = "completed" /\ state[t] = "running" /\ retried'[t] = retried[t]
            /\ handling[<<t, r>>] = "notify"
         \/ state'[t] = "failed" /\ state[t] = "running" /\ retried'[t] = retried[t]
  BY <1>1, <1>t, Reported
<1>3. ReportsTypeOK'
  BY <1>1, <1>2, <1>t DEF ReportsTypeOK, HandlerSteps, TaskStatuses
<1>4. OnlyAbout(t, r) /\ handling'[<<t, r>>] = "over"
  BY <1>1, <1>2, <1>t DEF OnlyAbout, ReportsTypeOK, dependentVars
<1>5. ASSUME TaskInv(t) PROVE TaskInv(t)'
  <2>1. RunInv(t, r) /\ LastInv(t, r)
    BY <1>5 DEF TaskInv
  <2>2. r = retried[t] + 1 /\ retried[t] \in Nat
    <3>1. retried[t] \in Nat
      BY <1>t DEF ReportsTypeOK
    <3>2. r > retried[t] /\ r <= retried[t] + 1
      BY <1>1, <1>t, <2>1, <3>1 DEF RunInv
    <3> QED
      BY <1>t, <3>1, <3>2
  <2>3. state[t] \notin {"pending", "completed"} /\ ~asked
    <3>1. state[t] # "completed"
      BY <1>1, <2>1, <2>2 DEF LastInv
    <3>2. state[t] # "pending"
      BY <1>1, <1>t, <2>1, <2>2 DEF RunInv
    <3> QED
      BY <1>t, <1>5, <3>1, <3>2 DEF TaskInv, ReportsTypeOK
  <2>4. Over(<<t, r>>) /\ ~InFlight(<<t, r>>)
    BY <1>1, <2>1 DEF RunInv
  <2>5. ASSUME NEW q \in Runs PROVE RunInv(t, q)' /\ LastInv(t, q)'
    <3>1. RunInv(t, q) /\ LastInv(t, q) /\ q \in Nat
      BY <1>5 DEF TaskInv, Runs
    <3>2. CASE q # r
      <4>1. handling'[<<t, q>>] = handling[<<t, q>>] /\ left'[<<t, q>>] = left[<<t, q>>]
        BY <1>4, <3>2 DEF OnlyAbout, Workers
      <4>2. q # retried[t] + 1
        BY <2>2, <3>2
      <4>3. RunInv(t, q)'
        BY <1>1, <1>2, <2>2, <2>3, <3>1, <4>1, <4>2 DEF RunInv, Over, InFlight
      <4>4. q > retried[t] + 1 => process[<<t, q>>] = "none"
        BY <2>2, <3>1 DEF RunInv
      <4>5. NotCalled # Served
        BY ReportsAssumption DEF NotCalled, Served
      <4>6. LastInv(t, q)'
        BY <1>1, <1>2, <2>2, <2>3, <3>1, <4>1, <4>2, <4>4, <4>5 DEF LastInv, RunInv, Over, InFlight
      <4> QED
        BY <4>3, <4>6
    <3>3. CASE q = r
      <4>1. RunInv(t, r)'
        BY <1>1, <1>2, <1>4, <1>t, <2>1, <2>2, <2>3, <2>4 DEF RunInv, Over, InFlight
      <4>2. LastInv(t, r)'
        BY <1>1, <1>2, <1>4, <1>t, <2>1, <2>2, <2>3, <2>4 DEF LastInv, Over, InFlight
      <4> QED
        BY <3>3, <4>1, <4>2
    <3> QED
      BY <3>2, <3>3
  <2> QED
    BY <1>1, <2>3, <2>5 DEF TaskInv
<1> QED
  BY <1>1, <1>3, <1>4, <1>5, Elsewhere DEF RepInv

LEMMA RetrySteps == ASSUME RepInv, NEW w \in Workers, Retry(w) PROVE RepInv'
<1> PICK t \in Feeders, r \in Runs : w = <<t, r>>
  BY DEF Workers
<1>t. ReportsTypeOK /\ r \in Nat /\ r > 0 /\ <<t, r>> \in Workers
  BY DEF RepInv, Runs, Workers
<1>1. /\ state[t] = "pending" /\ r > 1 /\ process[<<t, r>>] = "none"
      /\ process[<<t, r - 1>>] # "none"
      /\ state' = [state EXCEPT ![t] = "running"]
      /\ process' = [process EXCEPT ![<<t, r>>] = "running"]
      /\ handling' = [handling EXCEPT ![<<t, r>>] = "tracked"]
      /\ UNCHANGED <<retried, handoffCall, handoff, left, told, asked, swept>>
  BY DEF Retry, dependentVars
<1>2. ReportsTypeOK'
  BY <1>1, <1>t DEF ReportsTypeOK, HandlerSteps
<1>3. /\ OnlyAbout(t, r) /\ state'[t] = "running" /\ process'[<<t, r>>] = "running"
      /\ handling'[<<t, r>>] = "tracked"
  BY <1>1, <1>t DEF OnlyAbout, ReportsTypeOK, dependentVars
<1>4. ASSUME TaskInv(t) PROVE TaskInv(t)'
  <2>1. r = retried[t] + 1 /\ retried[t] \in Nat
    <3>1. r - 1 \in Runs /\ retried[t] \in Nat
      BY <1>1, <1>t, ReportsAssumption DEF Runs, ReportsTypeOK
    <3>2. r > retried[t] /\ ~(r - 1 > retried[t])
      BY <1>1, <1>4, <3>1 DEF TaskInv, RunInv
    <3> QED
      BY <1>t, <3>1, <3>2
  <2>2. ASSUME NEW q \in Runs PROVE RunInv(t, q)' /\ LastInv(t, q)'
    <3>1. RunInv(t, q) /\ LastInv(t, q) /\ q \in Nat
      BY <1>4 DEF TaskInv, Runs
    <3>2. CASE q # r
      <4>1. handling'[<<t, q>>] = handling[<<t, q>>] /\ process'[<<t, q>>] = process[<<t, q>>]
        BY <1>3, <3>2 DEF OnlyAbout, Workers
      <4>2. q # retried[t] + 1
        BY <2>1, <3>2
      <4> QED
        BY <1>1, <1>3, <2>1, <3>1, <4>1, <4>2 DEF RunInv, LastInv, Over, InFlight
    <3>3. CASE q = r
      <4>1. handoffCall[<<t, r>>] = NotCalled /\ NotCalled # Served
        BY <1>1, <3>1, <3>3, ReportsAssumption DEF RunInv, NotCalled, Served
      <4> QED
        BY <1>1, <1>3, <2>1, <3>3, <4>1 DEF RunInv, LastInv, Over, InFlight
    <3> QED
      BY <3>2, <3>3
  <2>3. ~asked
    BY <1>1, <1>4 DEF TaskInv
  <2> QED
    BY <1>1, <2>2, <2>3 DEF TaskInv
<1> QED
  BY <1>1, <1>2, <1>3, <1>4, Elsewhere DEF RepInv

\* A task whose end a sweep has reported is not claimed about.
LEMMA SweepSteps == ASSUME RepInv, NEW w \in Workers, SweepReports(w) PROVE RepInv'
<1> PICK t \in Feeders, r \in Runs : w = <<t, r>>
  BY DEF Workers
<1>t. ReportsTypeOK /\ <<t, r>> \in Workers
  BY DEF RepInv, Workers
<1>1. /\ ReportCompleted(t) \/ ReportFailed(t, FALSE)
      /\ swept' = swept \cup {t}
      /\ UNCHANGED <<process, handoffCall, handoff, handling, left, told, asked>>
  BY DEF SweepReports, workersVars, handlerVars, dependentVars
<1>2. /\ state' \in [Feeders -> TaskStatuses] /\ retried' \in [Feeders -> 0 .. FeederRetries]
      /\ \A u \in Feeders : u # t => state'[u] = state[u] /\ retried'[u] = retried[u]
  BY <1>1, <1>t, Reported
<1>3. ReportsTypeOK'
  BY <1>1, <1>2, <1>t DEF ReportsTypeOK, TaskStatuses
<1>4. OnlyAbout(t, r)
  BY <1>1, <1>2, <1>t DEF OnlyAbout, dependentVars
<1> QED
  BY <1>1, <1>3, <1>4, Elsewhere

\* The dependent is told what is stored when all have completed.
LEMMA DispatchedSteps == ASSUME RepInv, DispatchDependent PROVE RepInv'
<1>1. /\ \A t \in Feeders : state[t] = "completed"
      /\ asked' = TRUE /\ told' = handoff
      /\ UNCHANGED <<state, retried, process, handoffCall, handoff, handling, left, swept>>
  BY DEF DispatchDependent, tasksVars, workersVars, handlerVars
<1>2. ReportsTypeOK'
  BY <1>1 DEF RepInv, ReportsTypeOK
<1>3. ASSUME NEW t \in Feeders, TaskInv(t) PROVE TaskInv(t)'
  BY <1>1, <1>3 DEF TaskInv, RunInv, LastInv, Over, InFlight
<1> QED
  BY <1>1, <1>2, <1>3 DEF RepInv

\* No call outlives the grace period of the handler that waits for it.
LEMMA LaterSteps == ASSUME RepInv, ReportsTick PROVE RepInv'
<1>t. ReportsTypeOK
  BY DEF RepInv
<1>1. /\ UNCHANGED <<state, retried, process, handoff, handling, told, asked, swept>>
      /\ left' = [w \in Workers |-> IF left[w] > 0 THEN left[w] - 1 ELSE 0]
      /\ handoffCall' = [w \in Workers |->
                           IF InFlight(w) THEN handoffCall[w] + 1 ELSE handoffCall[w]]
      /\ \A w \in Workers : handoffCall[w] # Latency
  BY DEF ReportsTick, tasksVars, dependentVars
<1>2. ASSUME NEW w \in Workers
      PROVE  /\ left[w] \in Nat /\ handoffCall[w] \in Int
             /\ left'[w] = IF left[w] > 0 THEN left[w] - 1 ELSE 0
             /\ handoffCall'[w] = IF InFlight(w) THEN handoffCall[w] + 1 ELSE handoffCall[w]
             /\ handoffCall[w] # Latency
  BY <1>1, <1>t DEF ReportsTypeOK
<1>3. ReportsTypeOK'
  <2>1. left' \in [Workers -> Nat] /\ handoffCall' \in [Workers -> Int]
    BY <1>1, <1>2
  <2> QED
    BY <1>1, <1>t, <2>1 DEF ReportsTypeOK
<1>4. ASSUME NEW t \in Feeders, TaskInv(t), NEW r \in Runs PROVE RunInv(t, r)' /\ LastInv(t, r)'
  <2> DEFINE w == <<t, r>>
  <2>1. w \in Workers /\ RunInv(t, r) /\ LastInv(t, r)
    BY <1>4 DEF TaskInv, Workers
  <2>2. /\ InFlight(w) => InFlight(w)' /\ handoffCall'[w] = handoffCall[w] + 1
        /\ ~InFlight(w) => ~InFlight(w)' /\ handoffCall'[w] = handoffCall[w]
    BY <1>2, <2>1, ReportsAssumption DEF InFlight
  <2>3. /\ handoffCall'[w] \in {NotCalled, Served} \cup (0 .. Latency)
        /\ handoffCall'[w] = Served => handoffCall[w] = Served
        /\ handoffCall[w] = NotCalled => handoffCall'[w] = NotCalled
    BY <1>2, <2>1, <2>2, ReportsAssumption DEF RunInv, InFlight, NotCalled, Served
  <2>4. handling[w] = "grace" /\ InFlight(w) => handoffCall'[w] + left'[w] >= Grace
    <3>1. SUFFICES ASSUME handling[w] = "grace", InFlight(w)
                   PROVE  handoffCall'[w] + left'[w] >= Grace
      OBVIOUS
    <3>2. handoffCall[w] + left[w] >= Grace /\ handoffCall[w] <= Latency
      BY <2>1, <3>1 DEF RunInv, InFlight
    <3>3. left[w] > 0
      BY <1>2, <2>1, <3>1, <3>2, ReportsAssumption
    <3> QED
      BY <1>2, <2>1, <2>2, <3>1, <3>2, <3>3, ReportsAssumption
  <2>5. RunInv(t, r)'
    BY <1>1, <2>1, <2>2, <2>3, <2>4 DEF RunInv, Over
  <2>6. LastInv(t, r)'
    BY <1>1, <2>1, <2>2, <2>3 DEF LastInv, Over
  <2> QED
    BY <2>5, <2>6
<1>5. ASSUME NEW t \in Feeders, TaskInv(t) PROVE TaskInv(t)'
  BY <1>1, <1>4, <1>5 DEF TaskInv
<1> QED
  BY <1>1, <1>3, <1>5 DEF RepInv

LEMMA RestartSteps == ASSUME RepInv, MonitorRestarts PROVE RepInv'
<1>1. /\ handling' = [w \in Workers |-> IF handling[w] = "none" THEN "none" ELSE "over"]
      /\ UNCHANGED <<state, retried, process, handoffCall, handoff, left, told, asked, swept>>
  BY DEF MonitorRestarts, tasksVars, workersVars, dependentVars
<1>2. ReportsTypeOK'
  BY <1>1 DEF RepInv, ReportsTypeOK, HandlerSteps
<1>3. ASSUME NEW t \in Feeders, TaskInv(t) PROVE TaskInv(t)'
  <2>1. ASSUME NEW r \in Runs PROVE RunInv(t, r)' /\ LastInv(t, r)'
    <3>1. /\ RunInv(t, r) /\ LastInv(t, r)
          /\ handling'[<<t, r>>] = IF handling[<<t, r>>] = "none" THEN "none" ELSE "over"
      BY <1>1, <1>3 DEF TaskInv, Workers
    <3> QED
      BY <1>1, <3>1 DEF RunInv, LastInv, Over, InFlight
  <2> QED
    BY <1>1, <1>3, <2>1 DEF TaskInv
<1> QED
  BY <1>1, <1>2, <1>3 DEF RepInv

LEMMA ReportsSteps == RepInv /\ [ReportsNext]_reportVars => RepInv'
<1> SUFFICES ASSUME RepInv, [ReportsNext]_reportVars PROVE RepInv'
  OBVIOUS
<1>1. CASE UNCHANGED reportVars
  BY <1>1 DEF reportVars, tasksVars, workersVars, handlerVars, dependentVars, RepInv,
     ReportsTypeOK, TaskInv, RunInv, LastInv, Over, InFlight
<1>2. CASE ReportsNext
  BY <1>2, WorkerSteps, ExitHandlerSteps, NotifySteps, RetrySteps, SweepSteps, DispatchedSteps,
     LaterSteps, RestartSteps DEF ReportsNext
<1> QED
  BY <1>1, <1>2

\* Of every task whose end no sweep reported, the dependent is told something, and what the run
\* that completed it set, if that run had called set_handoff: the grace period outlasts the call.
THEOREM DependentsAreAlwaysToldAlone == ReportsSpec => []DependentsAreToldAlone
<1>1. RepInv => DependentsAreToldAlone
  <2> SUFFICES ASSUME RepInv, asked, NEW t \in Feeders \ swept
               PROVE  /\ told[t].kind # "none"
                      /\ handoffCall[<<t, retried[t] + 1>>] # NotCalled =>
                            told[t] = [kind |-> "real", of |-> retried[t] + 1]
    BY DEF DependentsAreToldAlone
  <2>1. TaskInv(t) /\ retried[t] + 1 \in Runs
    BY ReportsAssumption DEF RepInv, ReportsTypeOK, Runs
  <2>2. RunInv(t, retried[t] + 1) /\ LastInv(t, retried[t] + 1)
        /\ state[t] = "completed" /\ told[t] = handoff[t]
    BY <2>1 DEF TaskInv
  <2>3. /\ handoff[t].kind # "none"
        /\ handoffCall[<<t, retried[t] + 1>>] \in {NotCalled, Served}
    BY <2>2 DEF RunInv, LastInv, InFlight
  <2> QED
    BY <2>2, <2>3 DEF LastInv
<1> QED
  BY <1>1, ReportsInitially, ReportsSteps, PTL DEF ReportsSpec


-----------------------------------------------------------------------------
\* Silent workers. How long a worker can have been found stuck is bounded by the time since
\* its first confident finding, and the warning it was given outlasts that time.

InterrogationSpec == InterrogationInit /\ [][InterrogationNext]_interrogationVars

Launches == 1 .. MaxWorkers

WatchTyped ==
    /\ current \in Launches /\ up \in BOOLEAN
    /\ entries \subseteq 1 .. current /\ handles \subseteq 1 .. current
    /\ toSweep \subseteq 1 .. current /\ sweepBegun \in BOOLEAN

FlagsTyped ==
    /\ age \in [Launches -> Nat] /\ \A n \in Launches : n > current => age[n] = 0
    /\ debounce \in 0 .. Debounce /\ hintedKey \in 0 .. HintTtl
    /\ mishaps \in Nat /\ stuckFor \in Nat /\ hampered \in BOOLEAN

HintsTyped ==
    /\ hinted \in [attempt : 0 .. current, since : Nat]
    /\ stopped \subseteq [attempt : Launches, hinted : Nat, since : Nat]

\* While the flag of a hint stands, there was one, and by the time that a judgement may be made
\* again it is an interval of judgement ago.
HintInv ==
    ~hampered => /\ hintedKey > 0 => hinted.attempt # 0 /\ hinted.since + debounce >= Debounce
                 /\ WarnedFirst

\* Each sweep sees the worker, if it was there when the sweep began.
SweepInv ==
    /\ age[current] > 0 => toSweep \subseteq {current}
    /\ age[current] <= Timeout + 1
    /\ sweepBegun /\ current \notin toSweep => age[current] <= Timeout

\* A stuck worker waits for its judgement as long as the flag stands, then for the second one,
\* by which the flag of its hint still stands.
StuckInv ==
    stuckFor > 0 =>
        /\ Stuck /\ age[current] > InterrogateAfter
        /\ \/ stuckFor + debounce <= Debounce
           \/ hintedKey > debounce /\ stuckFor + debounce <= 2 * Debounce
        /\ sweepBegun /\ current \notin toSweep => debounce > 0

IntInv ==
    /\ WatchTyped /\ FlagsTyped /\ HintsTyped /\ HintInv
    /\ up => current \in entries
    /\ ~sweepBegun => toSweep = {}
    /\ up /\ Untroubled => SweepInv /\ StuckInv

LEMMA InterrogationInitially == InterrogationInit => IntInv
<1> SUFFICES ASSUME InterrogationInit PROVE IntInv
  OBVIOUS
<1>1. age = [n \in Launches |-> 0] /\ 1 \in Launches
  BY InterrogationAssumption DEF InterrogationInit, Launches
<1>2. current = 1 /\ 0 \in 0 .. Debounce /\ 0 \in 0 .. HintTtl /\ 1 \in 1 .. 1 /\ 0 \in 0 .. 1
  BY InterrogationAssumption DEF InterrogationInit
<1>3. WatchTyped
  BY <1>1, <1>2 DEF InterrogationInit, WatchTyped
<1>4. FlagsTyped
  <2>1. age \in [Launches -> Nat] /\ \A n \in Launches : age[n] = 0
    BY <1>1
  <2> QED
    BY <1>2, <2>1 DEF InterrogationInit, FlagsTyped
<1>5. HintsTyped
  BY <1>1, <1>2 DEF InterrogationInit, HintsTyped
<1>6. HintInv /\ SweepInv /\ StuckInv
  BY <1>1, InterrogationAssumption
     DEF InterrogationInit, HintInv, WarnedFirst, SweepInv, StuckInv
<1> QED
  BY <1>2, <1>3, <1>4, <1>5, <1>6 DEF IntInv, InterrogationInit

\* A worker is killed through its handle: one that is the current one and has a handle is then
\* down, or the call failed.
LEMMA Stopping ==
    ASSUME WatchTyped, FlagsTyped, NEW n \in Launches, StopWorker(n)
    PROVE  /\ handles' = handles \ {n} /\ up' \in BOOLEAN /\ (up' => up)
           /\ mishaps' \in Nat /\ hampered' \in BOOLEAN /\ (hampered => hampered')
           /\ up' /\ ~hampered' => ~(n = current /\ n \in handles)
<1>t. mishaps \in Nat /\ mishaps + 1 \in Nat /\ up \in BOOLEAN /\ hampered \in BOOLEAN
  BY DEF WatchTyped, FlagsTyped
<1>1. CASE up /\ n = current /\ n \in handles
  BY <1>1, <1>t DEF StopWorker, KillSession, DeleteJob, Mishap, NoMishap
<1>2. CASE ~(up /\ n = current /\ n \in handles)
  BY <1>2, <1>t DEF StopWorker, KillSession, NoMishap
<1> QED
  BY <1>1, <1>2

\* What a judgement does: it may hint, or kill.
LEMMA Judging ==
    ASSUME IntInv, NEW n \in Launches, Judgeable(n), debounce = 0, Interrogate(n)
    PROVE  /\ debounce' = Debounce /\ handles' \subseteq handles
           /\ up' \in BOOLEAN /\ (up' => up)
           /\ mishaps' \in Nat /\ hampered' \in BOOLEAN /\ (hampered => hampered')
           /\ \/ UNCHANGED <<hintedKey, hinted>>
              \/ /\ hintedKey' = HintTtl
                 /\ \/ hinted' = [attempt |-> current, since |-> 0]
                    \/ hampered' /\ hinted' = hinted
           /\ \/ stopped' = stopped
              \/ /\ hintedKey > 0
                 /\ stopped' = stopped \cup {[attempt |-> current, hinted |-> hinted.attempt,
                                              since |-> hinted.since]}
           /\ Stuck /\ up' /\ ~hampered' /\ n = current /\ n \in handles =>
                 hintedKey = 0 /\ hintedKey' = HintTtl
<1>t. /\ WatchTyped /\ FlagsTyped
      /\ mishaps \in Nat /\ mishaps + 1 \in Nat /\ up \in BOOLEAN /\ hampered \in BOOLEAN
  BY DEF IntInv, WatchTyped, FlagsTyped
<1>1. CASE UNCHANGED <<up, handles, hintedKey, hinted, stopped>> /\ Mishap
  BY <1>1, <1>t DEF Interrogate, Mishap, WatchTyped, FlagsTyped
<1>2. CASE ~Stuck /\ UNCHANGED <<up, handles, hintedKey, hinted, stopped>> /\ NoMishap
  BY <1>2, <1>t DEF Interrogate, NoMishap, WatchTyped, FlagsTyped
<1>3. CASE Stuck /\ hintedKey = 0 /\ Hint(n)
  <2>1. /\ debounce' = Debounce /\ hintedKey' = HintTtl /\ UNCHANGED <<up, handles, stopped>>
        /\ \/ hinted' = [attempt |-> current, since |-> 0] /\ NoMishap
           \/ hinted' = hinted /\ Mishap
    BY <1>3 DEF Interrogate, Hint
  <2>2. /\ mishaps' \in Nat /\ hampered' \in BOOLEAN /\ (hampered => hampered')
        /\ Mishap => hampered'
    BY <1>t, <2>1 DEF Mishap, NoMishap
  <2> HIDE DEF Mishap, NoMishap, Stuck
  <2> QED
    BY <1>3, <1>t, <2>1, <2>2
<1>4. CASE Stuck /\ hintedKey > 0 /\ EarlyKill(n)
  <2>1. StopWorker(n) /\ UNCHANGED <<hintedKey, hinted>>
    BY <1>4 DEF EarlyKill
  <2>2. \/ stopped' = stopped
        \/ stopped' = stopped \cup {[attempt |-> current, hinted |-> hinted.attempt,
                                     since |-> hinted.since]}
    BY <1>4 DEF EarlyKill
  <2> HIDE DEF Stuck
  <2> QED
    BY <1>4, <1>t, <2>1, <2>2, Stopping DEF Interrogate
<1> QED
  BY <1>1, <1>2, <1>3, <1>4 DEF Interrogate

\* After a judgement the flags say what has happened.
LEMMA HintKept ==
    ASSUME IntInv, debounce = 0, debounce' = Debounce, hampered' \in BOOLEAN,
           hampered => hampered', current' = current,
           \/ UNCHANGED <<hintedKey, hinted>>
           \/ /\ hintedKey' = HintTtl
              /\ \/ hinted' = [attempt |-> current, since |-> 0]
                 \/ hampered' /\ hinted' = hinted,
           \/ stopped' = stopped
           \/ /\ hintedKey > 0
              /\ stopped' = stopped \cup {[attempt |-> current, hinted |-> hinted.attempt,
                                           since |-> hinted.since]}
    PROVE  HintInv' /\ HintsTyped' /\ hintedKey' \in 0 .. HintTtl
<1>t. HintsTyped /\ hintedKey \in 0 .. HintTtl /\ current \in Launches /\ current \in Nat
      /\ current > 0
  BY DEF IntInv, FlagsTyped, WatchTyped, Launches
<1>1. hinted' \in [attempt : 0 .. current, since : Nat]
  BY <1>t DEF HintsTyped
<1>2. stopped' \subseteq [attempt : Launches, hinted : Nat, since : Nat]
  <2>1. hinted.attempt \in Nat /\ hinted.since \in Nat
    BY <1>t DEF HintsTyped
  <2>2. [attempt |-> current, hinted |-> hinted.attempt, since |-> hinted.since]
           \in [attempt : Launches, hinted : Nat, since : Nat]
    BY <1>t, <2>1
  <2> QED
    BY <1>t, <2>2 DEF HintsTyped
<1>3. ASSUME ~hampered'
      PROVE  /\ hintedKey' > 0 => hinted'.attempt # 0 /\ hinted'.since + debounce' >= Debounce
             /\ WarnedFirst'
  <2>1. hintedKey > 0 => hinted.attempt # 0 /\ hinted.since >= Debounce
    BY <1>3, <1>t, InterrogationAssumption DEF IntInv, HintInv, HintsTyped
  <2>2. hintedKey' > 0 => hinted'.attempt # 0 /\ hinted'.since + debounce' >= Debounce
    BY <1>1, <1>3, <1>t, <2>1, InterrogationAssumption DEF HintsTyped
  <2>3. ASSUME NEW k \in stopped'
        PROVE  k.since >= Debounce /\ k.hinted \in 1..k.attempt /\ (k.attempt = 1 => k.hinted = 1)
    <3>1. CASE k \in stopped
      BY <1>3, <3>1 DEF IntInv, HintInv, WarnedFirst
    <3>2. CASE k \notin stopped
      BY <1>t, <2>1, <2>3, <3>2 DEF HintsTyped
    <3> QED
      BY <3>1, <3>2
  <2> QED
    BY <2>2, <2>3 DEF WarnedFirst
<1> QED
  BY <1>1, <1>2, <1>3, <1>t, InterrogationAssumption DEF HintInv, HintsTyped

LEMMA SweepEntrySteps == ASSUME IntInv, SweepEntry PROVE IntInv'
<1>1. PICK n \in toSweep :
         /\ toSweep' = toSweep \ {n}
         /\ \/ Judgeable(n) /\ debounce = 0 /\ Interrogate(n)
            \/ /\ Judgeable(n) => debounce > 0
               /\ age[n] <= Timeout /\ UNCHANGED <<up, handles>> /\ NoMishap
               /\ UNCHANGED <<debounce, hintedKey, hinted, stopped>>
            \/ TimeOut(n)
  BY DEF SweepEntry
<1>2. UNCHANGED <<current, entries, age, tail, sweepBegun, stuckFor>>
  BY DEF SweepEntry
<1>a. WatchTyped /\ FlagsTyped /\ HintsTyped /\ sweepBegun
  BY <1>1 DEF IntInv
<1>t. WatchTyped /\ FlagsTyped /\ HintsTyped /\ n \in Launches /\ n \in Nat /\ current \in Nat
      /\ sweepBegun
  <2>1. current \in 1 .. MaxWorkers /\ n \in 1 .. current /\ MaxWorkers \in Nat
    BY <1>a, InterrogationAssumption DEF WatchTyped, Launches
  <2> QED
    BY <1>a, <2>1 DEF Launches
<1>3. CASE Judgeable(n) /\ debounce = 0 /\ Interrogate(n)
  <2>1. /\ debounce' = Debounce /\ handles' \subseteq handles
        /\ up' \in BOOLEAN /\ (up' => up)
        /\ mishaps' \in Nat /\ hampered' \in BOOLEAN /\ (hampered => hampered')
        /\ Stuck /\ up' /\ ~hampered' /\ n = current /\ n \in handles =>
              hintedKey = 0 /\ hintedKey' = HintTtl
    BY <1>3, <1>t, Judging
  <2>2. HintInv' /\ HintsTyped' /\ hintedKey' \in 0 .. HintTtl
    <3> HIDE DEF Stuck
    <3> QED
      BY <1>2, <1>3, <1>t, Judging, HintKept
  <2>3. WatchTyped' /\ FlagsTyped'
    BY <1>1, <1>2, <1>t, <2>1, <2>2, InterrogationAssumption DEF WatchTyped, FlagsTyped
  <2>4. ASSUME up', Untroubled' PROVE SweepInv' /\ StuckInv'
    <3>1. up /\ Untroubled /\ current \in handles
      BY <1>2, <2>1, <2>4 DEF Untroubled
    <3>2. SweepInv /\ StuckInv
      BY <3>1 DEF IntInv
    <3>3. SweepInv'
      BY <1>1, <1>2, <1>3, <3>2 DEF SweepInv, Judgeable
    <3>4. ASSUME stuckFor > 0
          PROVE  /\ Stuck' /\ age'[current] > InterrogateAfter
                 /\ hintedKey' > debounce' /\ stuckFor' + debounce' <= 2 * Debounce
                 /\ debounce' > 0
      <4>1. age[current] > 0 /\ n = current
        BY <1>1, <1>t, <3>2, <3>4, InterrogationAssumption
           DEF SweepInv, StuckInv, FlagsTyped, WatchTyped
      <4>2. ~hampered' /\ Stuck
        BY <2>4, <3>2, <3>4 DEF Untroubled, StuckInv
      <4>3. hintedKey = 0 /\ hintedKey' = HintTtl
        BY <2>1, <2>4, <3>1, <4>1, <4>2
      <4>4. stuckFor <= Debounce
        BY <1>3, <1>t, <3>2, <3>4, <4>3 DEF StuckInv, FlagsTyped
      <4>5. stuckFor' + debounce' <= 2 * Debounce
        BY <1>2, <1>t, <2>1, <4>4, InterrogationAssumption DEF FlagsTyped
      <4>6. Stuck'
        BY <1>2, <4>2 DEF Stuck
      <4> QED
        BY <1>2, <2>1, <3>2, <3>4, <4>3, <4>5, <4>6, InterrogationAssumption DEF StuckInv
    <3> QED
      BY <1>2, <3>3, <3>4 DEF StuckInv
  <2> QED
    BY <1>2, <1>t, <2>1, <2>2, <2>3, <2>4 DEF IntInv
<1>4. CASE /\ Judgeable(n) => debounce > 0
           /\ age[n] <= Timeout /\ UNCHANGED <<up, handles>> /\ NoMishap
           /\ UNCHANGED <<debounce, hintedKey, hinted, stopped>>
  <2>1. UNCHANGED <<up, handles, mishaps, hampered, debounce, hintedKey, hinted, stopped>>
    BY <1>4 DEF NoMishap
  <2>2. WatchTyped' /\ FlagsTyped' /\ HintsTyped' /\ HintInv'
    BY <1>1, <1>2, <1>t, <2>1 DEF IntInv, WatchTyped, FlagsTyped, HintsTyped, HintInv, WarnedFirst
  <2>3. ASSUME up, Untroubled PROVE SweepInv' /\ StuckInv'
    <3>1. SweepInv /\ StuckInv
      BY <2>3 DEF IntInv
    <3>2. SweepInv'
      BY <1>1, <1>2, <1>4, <3>1 DEF SweepInv
    <3>3. ASSUME stuckFor > 0, n = current PROVE debounce > 0
      BY <1>4, <3>1, <3>3 DEF StuckInv, Judgeable
    <3>4. StuckInv'
      BY <1>1, <1>2, <1>t, <2>1, <3>1, <3>3 DEF StuckInv, Stuck
    <3> QED
      BY <3>2, <3>4
  <2>4. Untroubled' = Untroubled
    BY <1>2, <2>1 DEF Untroubled
  <2> QED
    BY <1>2, <1>t, <2>1, <2>2, <2>3, <2>4 DEF IntInv
<1>5. CASE TimeOut(n)
  <2>1. /\ age[n] > Timeout /\ UNCHANGED <<debounce, hintedKey, hinted, stopped>>
        /\ handles' = handles \ {n} /\ up' \in BOOLEAN /\ (up' => up)
        /\ mishaps' \in Nat /\ hampered' \in BOOLEAN /\ (hampered => hampered')
        /\ up' /\ ~hampered' => ~(n = current /\ n \in handles)
    BY <1>5, <1>t, Stopping DEF TimeOut
  <2>2. WatchTyped' /\ FlagsTyped' /\ HintsTyped' /\ HintInv'
    BY <1>1, <1>2, <1>t, <2>1 DEF IntInv, WatchTyped, FlagsTyped, HintsTyped, HintInv, WarnedFirst
  <2>3. ASSUME up', Untroubled' PROVE SweepInv' /\ StuckInv'
    <3>1. up /\ Untroubled /\ current \in handles /\ n # current
      BY <1>2, <2>1, <2>3 DEF Untroubled
    <3>2. SweepInv /\ StuckInv
      BY <3>1 DEF IntInv
    <3> QED
      BY <1>1, <1>2, <2>1, <3>1, <3>2 DEF SweepInv, StuckInv, Stuck
  <2> QED
    BY <1>2, <1>t, <2>1, <2>2, <2>3 DEF IntInv
<1> QED
  BY <1>1, <1>3, <1>4, <1>5

LEMMA TickSteps == ASSUME IntInv, Tick PROVE IntInv'
<1>1. /\ sweepBegun /\ toSweep = {} /\ sweepBegun' = FALSE
      /\ hinted' = [hinted EXCEPT !.since = Later(@, HintTtl)]
      /\ debounce' = Sooner(debounce) /\ hintedKey' = Sooner(hintedKey)
      /\ stuckFor' = IF up /\ Stuck /\ Judgeable(current) THEN Later(stuckFor, Timeout) ELSE 0
      /\ UNCHANGED <<current, up, entries, handles, tail, toSweep, mishaps, stopped, hampered>>
  BY DEF Tick
<1>t. WatchTyped /\ FlagsTyped /\ HintsTyped
  BY DEF IntInv
<1>2. /\ age' \in [Launches -> Nat] /\ \A n \in Launches : n > current => age'[n] = 0
      /\ age'[current] = Later(age[current], Timeout + 2)
      /\ age[current] \in Nat /\ current \in Launches /\ current \in Nat
  <2>1. /\ age' = [n \in Launches |-> IF n <= current THEN Later(age[n], Timeout + 2) ELSE 0]
        /\ current \in Launches /\ current \in Nat
    BY <1>t DEF Tick, WatchTyped, FlagsTyped, Launches
  <2>2. \A n \in Launches : n \in Nat /\ age[n] \in Nat /\ Later(age[n], Timeout + 2) \in Nat
    BY <1>t DEF FlagsTyped, Later, Launches
  <2> QED
    BY <2>1, <2>2
<1>3. /\ debounce' \in 0 .. Debounce /\ hintedKey' \in 0 .. HintTtl /\ stuckFor' \in Nat
      /\ stuckFor' <= stuckFor + 1 /\ debounce' + 1 >= debounce
      /\ debounce > 0 => debounce' = debounce - 1
      /\ hintedKey > 0 => hintedKey' = hintedKey - 1
      /\ hintedKey = 0 => hintedKey' = 0
      /\ debounce \in Nat /\ hintedKey \in Nat /\ stuckFor \in Nat
      /\ debounce = 0 => debounce' = 0
  <2>1. debounce \in 0 .. Debounce /\ hintedKey \in 0 .. HintTtl /\ stuckFor \in Nat
    BY <1>t DEF FlagsTyped
  <2>2. stuckFor' = 0 \/ stuckFor' = Later(stuckFor, Timeout)
    BY <1>1
  <2>3. debounce' = Sooner(debounce) /\ hintedKey' = Sooner(hintedKey)
    BY <1>1
  <2> QED
    BY <2>1, <2>2, <2>3, InterrogationAssumption DEF Sooner, Later
<1>4. /\ hinted'.attempt = hinted.attempt /\ hinted'.since = Later(hinted.since, HintTtl)
      /\ hinted.since \in Nat /\ hinted' \in [attempt : 0 .. current, since : Nat]
  <2>1. hinted.since \in Nat /\ Later(hinted.since, HintTtl) \in Nat
    BY <1>t DEF HintsTyped, Later
  <2> QED
    BY <1>1, <1>t, <2>1 DEF HintsTyped
<1>5. WatchTyped' /\ FlagsTyped' /\ HintsTyped'
  <2>1. WatchTyped'
    BY <1>1, <1>t DEF WatchTyped
  <2>2. FlagsTyped'
    BY <1>1, <1>2, <1>3, <1>t DEF FlagsTyped
  <2>3. HintsTyped'
    BY <1>1, <1>4, <1>t DEF HintsTyped
  <2> QED
    BY <2>1, <2>2, <2>3
<1>6. HintInv'
  <2>1. SUFFICES ASSUME ~hampered
                 PROVE  /\ hintedKey' > 0 =>
                              hinted'.attempt # 0 /\ hinted'.since + debounce' >= Debounce
                        /\ WarnedFirst'
    BY <1>1 DEF HintInv
  <2>2. /\ hintedKey > 0 => hinted.attempt # 0 /\ hinted.since + debounce >= Debounce
        /\ WarnedFirst
    BY <2>1 DEF IntInv, HintInv
  <2>3. ASSUME hintedKey' > 0
        PROVE  hinted'.attempt # 0 /\ hinted'.since + debounce' >= Debounce
    <3>1. hinted.attempt # 0 /\ hinted.since + debounce >= Debounce
      BY <1>3, <2>2, <2>3
    <3> QED
      BY <1>3, <1>4, <3>1, InterrogationAssumption DEF Later
  <2> QED
    BY <1>1, <2>2, <2>3 DEF WarnedFirst
<1>7. ASSUME up', Untroubled' PROVE SweepInv' /\ StuckInv'
  <2>1. up /\ Untroubled
    BY <1>1, <1>7 DEF Untroubled
  <2>2. SweepInv /\ StuckInv /\ age[current] <= Timeout
    BY <1>1, <2>1 DEF IntInv, SweepInv
  <2>3. SweepInv'
    <3>1. age'[current] <= Timeout + 1
      BY <1>2, <2>2, InterrogationAssumption DEF Later
    <3> QED
      BY <1>1, <3>1 DEF SweepInv
  <2>4. ASSUME stuckFor' > 0
        PROVE  /\ Stuck' /\ age'[current] > InterrogateAfter
               /\ \/ stuckFor' + debounce' <= Debounce
                  \/ hintedKey' > debounce' /\ stuckFor' + debounce' <= 2 * Debounce
    <3>1. Stuck /\ Judgeable(current)
      BY <1>1, <2>4
    <3>2. Stuck'
      BY <1>1, <3>1 DEF Stuck
    <3>3. age'[current] > InterrogateAfter
      BY <1>2, <3>1, InterrogationAssumption DEF Judgeable, Later
    <3>4. CASE stuckFor = 0
      <4>1. debounce' < Debounce /\ stuckFor' <= 1
        BY <1>3, <3>4, <1>t, InterrogationAssumption DEF FlagsTyped
      <4> QED
        BY <1>3, <3>2, <3>3, <4>1, InterrogationAssumption
    <3>5. CASE stuckFor > 0
      <4>1. debounce > 0
        BY <1>1, <2>2, <3>5 DEF StuckInv
      <4>2. debounce' = debounce - 1
        BY <1>3, <4>1
      <4>3. \/ stuckFor + debounce <= Debounce
            \/ hintedKey > debounce /\ stuckFor + debounce <= 2 * Debounce
        BY <2>2, <3>5 DEF StuckInv
      <4> QED
        BY <1>3, <3>2, <3>3, <4>1, <4>2, <4>3, InterrogationAssumption
    <3> QED
      BY <1>3, <3>4, <3>5
  <2> QED
    BY <1>1, <2>3, <2>4 DEF StuckInv
<1>8. (up' => current' \in entries') /\ (~sweepBegun' => toSweep' = {})
  BY <1>1 DEF IntInv
<1> QED
  BY <1>5, <1>6, <1>7, <1>8 DEF IntInv

\* A sweep begins, the worker acts or exits, or a tool kills it.
LEMMA OtherSteps ==
    ASSUME IntInv, StartSweep \/ WorkerActs \/ Exits \/ KillTool
    PROVE  IntInv'
<1>t. WatchTyped /\ FlagsTyped /\ HintsTyped /\ current \in Launches
  BY DEF IntInv, WatchTyped
<1>1. CASE StartSweep
  <2>1. /\ ~sweepBegun /\ sweepBegun' = TRUE /\ toSweep' = entries
        /\ UNCHANGED <<current, up, entries, handles, age, tail, debounce, hintedKey, mishaps,
                       hinted, stopped, stuckFor, hampered>>
    BY <1>1 DEF StartSweep
  <2>2. WatchTyped' /\ FlagsTyped' /\ HintsTyped' /\ HintInv' /\ (up' => current' \in entries')
    BY <1>t, <2>1 DEF IntInv, WatchTyped, FlagsTyped, HintsTyped, HintInv, WarnedFirst
  <2>3. ASSUME up', Untroubled' PROVE SweepInv' /\ StuckInv'
    <3>1. up /\ Untroubled /\ toSweep' = {current}
      BY <2>1, <2>3 DEF Untroubled
    <3> QED
      BY <2>1, <3>1 DEF IntInv, SweepInv, StuckInv, Stuck
  <2> QED
    BY <2>1, <2>2, <2>3 DEF IntInv
<1>2. CASE WorkerActs
  <2>1. /\ stuckFor' = IF InterrogateTranscript(tail') = "stuck" THEN stuckFor ELSE 0
        /\ UNCHANGED <<current, up, entries, handles, age, debounce, hintedKey, toSweep,
                       sweepBegun, mishaps, hinted, stopped, hampered>>
    BY <1>2 DEF WorkerActs
  <2>2. stuckFor' > 0 => stuckFor' = stuckFor /\ Stuck'
    BY <2>1 DEF Stuck
  <2>3. WatchTyped' /\ FlagsTyped' /\ HintsTyped' /\ HintInv' /\ (up' => current' \in entries')
    BY <1>t, <2>1 DEF IntInv, WatchTyped, FlagsTyped, HintsTyped, HintInv, WarnedFirst
  <2>4. ASSUME up', Untroubled' PROVE SweepInv' /\ StuckInv'
    <3>1. SweepInv /\ StuckInv
      BY <2>1, <2>4 DEF IntInv, Untroubled
    <3> QED
      BY <2>1, <2>2, <3>1 DEF SweepInv, StuckInv
  <2> QED
    BY <2>1, <2>3, <2>4 DEF IntInv
<1>3. CASE Exits
  <2>1. /\ up' = FALSE /\ entries' = entries \ {current}
        /\ UNCHANGED <<current, handles, age, tail, debounce, hintedKey, toSweep, sweepBegun,
                       mishaps, hinted, stopped, stuckFor, hampered>>
    BY <1>3 DEF Exits
  <2> QED
    BY <1>t, <2>1 DEF IntInv, WatchTyped, FlagsTyped, HintsTyped, HintInv, WarnedFirst
<1>4. CASE KillTool
  <2>1. /\ StopWorker(current)
        /\ UNCHANGED <<current, entries, age, tail, debounce, hintedKey, toSweep, sweepBegun,
                       hinted, stopped, stuckFor>>
    BY <1>4 DEF KillTool, KillProcess
  <2>2. /\ handles' = handles \ {current} /\ up' \in BOOLEAN /\ (up' => up)
        /\ mishaps' \in Nat /\ hampered' \in BOOLEAN /\ (hampered => hampered')
    BY <1>t, <2>1, Stopping
  <2>3. WatchTyped' /\ FlagsTyped' /\ HintsTyped' /\ HintInv' /\ (up' => current' \in entries')
    BY <1>t, <2>1, <2>2 DEF IntInv, WatchTyped, FlagsTyped, HintsTyped, HintInv, WarnedFirst
  <2>4. ~Untroubled'
    BY <2>1, <2>2 DEF Untroubled
  <2> QED
    BY <2>1, <2>3, <2>4 DEF IntInv
<1> QED
  BY <1>1, <1>2, <1>3, <1>4

LEMMA NextAttemptSteps == ASSUME IntInv, NextAttempt PROVE IntInv'
<1>1. /\ ~up /\ current < MaxWorkers /\ current' = current + 1 /\ up' = TRUE
      /\ entries' = entries \cup {current + 1} /\ handles' = handles \cup {current + 1}
      /\ stuckFor' = 0
      /\ UNCHANGED <<age, debounce, hintedKey, toSweep, sweepBegun, mishaps, hinted, stopped,
                     hampered>>
  BY DEF NextAttempt
<1>2. WatchTyped /\ FlagsTyped /\ HintsTyped /\ current \in Nat /\ current > 0
      /\ MaxWorkers \in Nat /\ current + 1 \in Launches
  BY <1>1, InterrogationAssumption DEF IntInv, WatchTyped, Launches
<1>3. \A n \in 1 .. current : n \in 1 .. current + 1
  BY <1>2
<1>4. WatchTyped'
  BY <1>1, <1>2, <1>3 DEF WatchTyped
<1>5. FlagsTyped'
  <2>1. \A n \in Launches : n > current + 1 => n > current
    BY <1>2 DEF Launches
  <2> QED
    BY <1>1, <1>2, <2>1 DEF FlagsTyped
<1>6. HintsTyped'
  <2>1. hinted.attempt \in 0 .. current + 1
    BY <1>2 DEF HintsTyped
  <2> QED
    BY <1>1, <1>2, <2>1 DEF HintsTyped
<1>7. HintInv'
  BY <1>1 DEF IntInv, HintInv, WarnedFirst
<1>8. age'[current'] = 0
  BY <1>1, <1>2 DEF FlagsTyped
<1>9. SweepInv' /\ StuckInv'
  BY <1>1, <1>8, InterrogationAssumption DEF SweepInv, StuckInv
<1> QED
  BY <1>1, <1>4, <1>5, <1>6, <1>7, <1>9 DEF IntInv

LEMMA InterrogationSteps == IntInv /\ [InterrogationNext]_interrogationVars => IntInv'
<1> SUFFICES ASSUME IntInv, [InterrogationNext]_interrogationVars PROVE IntInv'
  OBVIOUS
<1>1. CASE UNCHANGED interrogationVars
  BY <1>1 DEF interrogationVars, IntInv, WatchTyped, FlagsTyped, HintsTyped, HintInv, WarnedFirst,
     Untroubled, SweepInv, StuckInv, Stuck
<1> QED
  BY <1>1, TickSteps, SweepEntrySteps, OtherSteps, NextAttemptSteps DEF InterrogationNext

\* For any pace of sweeps, flags and timeouts and any number of attempts: a worker that is killed as
\* stuck was hinted at an interval of judgement earlier, or an attempt before it was, and one that
\* is stuck, or out of time, is not left running for long.
THEOREM StuckAreAlwaysWarnedThenStopped == InterrogationSpec => []StuckAreWarnedThenStopped
<1>1. IntInv => StuckAreWarnedThenStopped
  <2> SUFFICES ASSUME IntInv PROVE WarnedFirst /\ StoppedInTime
    BY DEF StuckAreWarnedThenStopped
  <2>1. WarnedFirst
    BY DEF IntInv, HintInv, WarnedFirst
  <2>2. ASSUME up, Untroubled PROVE stuckFor <= 2 * Debounce /\ age[current] <= Timeout + 1
    <3>1. SweepInv /\ StuckInv /\ debounce \in Nat /\ stuckFor \in Nat /\ Debounce \in Nat
      BY <2>2, InterrogationAssumption DEF IntInv, FlagsTyped
    <3> QED
      BY <3>1 DEF SweepInv, StuckInv
  <2> QED
    BY <2>1, <2>2 DEF StoppedInTime
<1> QED
  BY <1>1, InterrogationInitially, InterrogationSteps, PTL DEF InterrogationSpec

=============================================================================
