------------------------- MODULE Coordination_proofs ------------------------
(*****************************************************************************)
(* Proofs about what engines, sessions and calls share: the leader's lease,  *)
(* the locks on files and the test services in Redis, the graphs that are    *)
(* edited while they run, and the working clone in which branches are        *)
(* merged. For any number of engines, sessions, services, tasks and calls at *)
(* a time (in the clone, one at a time), and any durations that the          *)
(* assumptions allow: one engine leads, a session has the locks it counts    *)
(* on, a test service lives as long as the lease it was granted, no task is  *)
(* forgotten and no work is lost.                                            *)
(*                                                                           *)
(* A part per module, each with the argument for its inductive invariant.    *)
(*****************************************************************************)
EXTENDS LeaderLease, FileLocks, TestServices, GraphEdits, MergeClone, FiniteSetTheorems, TLAPS

-----------------------------------------------------------------------------
\* The leader's lease. A leader owns the key, and what is left of the lease outlasts what it
\* waits for: until its next beat and the longest duration of the call made then, or until
\* the end of the call under way.

\* A call under way when the engine's interval runs ends before the next beat.
EndsInTime(e) ==
    mode[e] = "up" /\ request[e] # "none" => timer[e] = deadline[e] + Renew - Delay

\* Who has just started or is gone believes nothing, and asks to acquire.
CallFits(e) ==
    /\ mode[e] \in {"down", "starting"} => ~believes[e]
    /\ mode[e] = "starting" => request[e] # "none"
    /\ mode[e] = "down" => request[e] = "none"
    /\ request[e] = "release" => mode[e] = "stopping"
    /\ request[e] \in {"acquire", "denied"} => ~Leads(e)

Outlasts(e) ==
    /\ Leads(e) => leaseOwner = e
    /\ Leads(e) /\ request[e] = "none" => leaseLeft > timer[e] + Delay
    /\ Leads(e) /\ request[e] = "renew" => leaseLeft > deadline[e]
    /\ request[e] = "granted" => leaseOwner = e /\ leaseLeft >= Lease - Delay + deadline[e]

EngineInv(e) == EndsInTime(e) /\ CallFits(e) /\ Outlasts(e)

EInv == LeaseTypeOK /\ \A e \in Engines : EngineInv(e)

-----------------------------------------------------------------------------
LEMMA LeaseInitially == LeaseInit => EInv
  BY LeaseAssumption
  DEF LeaseInit, EInv, LeaseTypeOK, Requests, EngineInv, EndsInTime, CallFits, Outlasts, Leads

\* What another engine does to the key leaves a leader's lease alone.
LEMMA Bystander ==
    ASSUME NEW f \in Engines, EngineInv(f),
           mode'[f] = mode[f], believes'[f] = believes[f], timer'[f] = timer[f],
           request'[f] = request[f], deadline'[f] = deadline[f],
           leaseOwner = f => leaseOwner' = f /\ leaseLeft' = leaseLeft
    PROVE  EngineInv(f)'
  BY DEF EngineInv, EndsInTime, CallFits, Outlasts, Leads

LEMMA LeaseSteps == EInv /\ [LeaseNext]_leaseVars => EInv'
<1> SUFFICES ASSUME EInv, [LeaseNext]_leaseVars PROVE EInv'
  OBVIOUS
<1> USE LeaseAssumption DEF EInv, LeaseTypeOK, Requests
<1>1. CASE Pass
  <2>1. LeaseTypeOK'
    BY <1>1 DEF Pass, Down
  <2>2. ASSUME NEW e \in Engines PROVE EngineInv(e)'
    <3>1. /\ mode'[e] = mode[e] /\ believes'[e] = believes[e] /\ request'[e] = request[e]
          /\ mode[e] = "up" => timer[e] > 0 /\ timer'[e] = timer[e] - 1
          /\ mode[e] # "up" => timer'[e] = timer[e]
          /\ request[e] # "none" => deadline[e] > 0 /\ deadline'[e] = deadline[e] - 1
          /\ request[e] = "none" => deadline'[e] = deadline[e]
      BY <1>1 DEF Pass
    <3>2. EngineInv(e)
      OBVIOUS
    <3>3. leaseLeft > 1 => leaseOwner' = leaseOwner /\ leaseLeft' = leaseLeft - 1
      BY <1>1 DEF Pass, Down
    <3>4. EndsInTime(e)' /\ CallFits(e)'
      BY <3>1, <3>2 DEF EngineInv, EndsInTime, CallFits, Leads
    <3>5. mode[e] # "starting" \/ ~Leads(e)
      BY <3>2 DEF EngineInv, CallFits, Leads
    <3>6. Leads(e) => mode[e] = "up"
      BY <3>2 DEF EngineInv, CallFits, Leads
    <3>7. Outlasts(e)'
      <4>1. Leads(e)' <=> Leads(e)
        BY <3>1 DEF Leads
      <4>2. request[e] = "granted" \/ Leads(e) =>
              leaseOwner' = leaseOwner /\ leaseLeft' = leaseLeft - 1
        <5>1. CASE request[e] = "granted"
          BY <3>1, <3>2, <3>3, <5>1 DEF EngineInv, Outlasts
        <5>2. CASE Leads(e) /\ request[e] # "granted"
          BY <3>1, <3>2, <3>3, <3>6, <5>2 DEF EngineInv, Outlasts, CallFits
        <5> QED
          BY <5>1, <5>2
      <4> QED
        BY <3>1, <3>2, <3>6, <4>1, <4>2 DEF EngineInv, Outlasts
    <3> QED
      BY <3>4, <3>7 DEF EngineInv
  <2> QED
    BY <2>1, <2>2
<1>2. ASSUME NEW e \in Engines, Start(e) PROVE EInv'
  <2>1. LeaseTypeOK'
    BY <1>2 DEF Start, Send
  <2>2. \A f \in Engines \ {e} : EngineInv(f)'
    BY <1>2, Bystander DEF Start, Send
  <2>3. EngineInv(e)'
    BY <1>2 DEF Start, Send, EngineInv, EndsInTime, CallFits, Outlasts, Leads
  <2> QED
    BY <2>1, <2>2, <2>3
<1>3. ASSUME NEW e \in Engines, Beat(e) PROVE EInv'
  <2>1. LeaseTypeOK'
    BY <1>3 DEF Beat, Send, Call
  <2>2. \A f \in Engines \ {e} : EngineInv(f)'
    BY <1>3, Bystander DEF Beat, Send
  <2>3. EngineInv(e)'
    <3>1. request[e] = "none"
      BY <1>3 DEF Beat, EngineInv, EndsInTime
    <3>2. /\ mode[e] = "up" /\ timer[e] = 0 /\ timer'[e] = Renew /\ deadline'[e] = Delay
          /\ request'[e] = (IF believes[e] THEN "renew" ELSE "acquire")
          /\ UNCHANGED <<leaseOwner, leaseLeft, believes, mode>>
      BY <1>3, <3>1 DEF Beat, Send, Call
    <3> QED
      BY <3>1, <3>2 DEF EngineInv, EndsInTime, CallFits, Outlasts, Leads
  <2> QED
    BY <2>1, <2>2, <2>3
<1>4. ASSUME NEW e \in Engines, Execute(e) PROVE EInv'
  <2>1. LeaseTypeOK'
    BY <1>4 DEF Execute
  <2>2. \A f \in Engines \ {e} : EngineInv(f)'
    BY <1>4, Bystander DEF Execute, Grants
  <2>3. EngineInv(e)'
    <3>1. CASE Grants(e)
      BY <1>4, <3>1 DEF Execute, EngineInv, EndsInTime, CallFits, Outlasts, Leads
    <3>2. CASE ~Grants(e)
      BY <1>4, <3>2 DEF Execute, Grants, EngineInv, EndsInTime, CallFits, Outlasts, Leads
    <3> QED
      BY <3>1, <3>2
  <2> QED
    BY <2>1, <2>2, <2>3
<1>5. ASSUME NEW e \in Engines, NEW b \in BOOLEAN, b => request[e] = "granted",
             request[e] \in {"acquire", "renew", "granted", "denied"},
             believes' = [believes EXCEPT ![e] = b], request' = [request EXCEPT ![e] = "none"],
             Settled(e), UNCHANGED <<leaseOwner, leaseLeft, deadline>>
      PROVE  EInv'
  <2>1. LeaseTypeOK'
    BY <1>5 DEF Settled
  <2>2. \A f \in Engines \ {e} : EngineInv(f)'
    BY <1>5, Bystander DEF Settled
  <2>3. EngineInv(e)'
    <3>1. EngineInv(e) /\ request'[e] = "none" /\ believes'[e] = b
      BY <1>5
    <3>2. CASE mode[e] = "starting"
      <4>1. mode'[e] = "up" /\ timer'[e] = Renew
        BY <1>5, <3>2 DEF Settled
      <4> QED
        BY <1>5, <3>1, <4>1 DEF EngineInv, EndsInTime, CallFits, Outlasts, Leads
    <3>3. CASE mode[e] # "starting"
      <4>1. mode'[e] = mode[e] /\ timer'[e] = timer[e]
        BY <1>5, <3>3 DEF Settled
      <4> QED
        BY <1>5, <3>1, <3>3, <4>1 DEF EngineInv, EndsInTime, CallFits, Outlasts, Leads
    <3> QED
      BY <3>2, <3>3
  <2> QED
    BY <2>1, <2>2, <2>3
<1>6. ASSUME NEW e \in Engines, Answer(e) PROVE EInv'
  BY <1>5, <1>6 DEF Answer
<1>7. ASSUME NEW e \in Engines, CallFails(e) PROVE EInv'
  BY <1>5, <1>7 DEF CallFails, AfterError
<1>8. ASSUME NEW e \in Engines, Stop(e) \/ SendRelease(e) PROVE EInv'
  <2>1. LeaseTypeOK'
    BY <1>8 DEF Stop, SendRelease, Send
  <2>2. \A f \in Engines \ {e} : EngineInv(f)'
    BY <1>8, Bystander DEF Stop, SendRelease, Send
  <2>3. EngineInv(e)'
    BY <1>8 DEF Stop, SendRelease, Send, EngineInv, EndsInTime, CallFits, Outlasts, Leads
  <2> QED
    BY <2>1, <2>2, <2>3
<1>9. ASSUME NEW e \in Engines, Release(e) \/ Die(e) PROVE EInv'
  <2>1. /\ \/ leaseOwner = e /\ leaseOwner' = Nobody /\ leaseLeft' = 0
           \/ leaseOwner = e /\ leaseOwner' = Departed /\ leaseLeft' = leaseLeft
           \/ leaseOwner' = leaseOwner /\ leaseLeft' = leaseLeft
           \/ leaseOwner \in {e, Nobody} /\ leaseOwner' = Departed /\ leaseLeft' = Lease
        /\ believes' = [believes EXCEPT ![e] = FALSE] /\ mode' = [mode EXCEPT ![e] = "down"]
        /\ request' = [request EXCEPT ![e] = "none"] /\ UNCHANGED <<timer, deadline>>
    BY <1>9 DEF Release, Die, Grants
  <2>2. LeaseTypeOK'
    BY <2>1
  <2>3. ASSUME NEW f \in Engines \ {e} PROVE EngineInv(f)'
    <3>1. leaseOwner = f => leaseOwner' = f /\ leaseLeft' = leaseLeft
      BY <2>1
    <3>2. /\ mode'[f] = mode[f] /\ believes'[f] = believes[f] /\ timer'[f] = timer[f]
          /\ request'[f] = request[f] /\ deadline'[f] = deadline[f]
      BY <2>1
    <3> QED
      BY <3>1, <3>2, Bystander
  <2>4. EngineInv(e)'
    BY <2>1 DEF EngineInv, EndsInTime, CallFits, Outlasts, Leads
  <2> QED
    BY <2>2, <2>3, <2>4
<1>10. CASE UNCHANGED leaseVars
  BY <1>10, Bystander DEF leaseVars
<1> QED
  BY <1>1, <1>2, <1>3, <1>4, <1>6, <1>7, <1>8, <1>9, <1>10 DEF LeaseNext

-----------------------------------------------------------------------------
\* The lease's owner, times and calls stay within their ranges (engine/leader.ts).
THEOREM LeaseIsWellTyped == LeaseSpec => []LeaseTypeOK
  <1>1. EInv => LeaseTypeOK
    BY DEF EInv
  <1> QED
    BY LeaseInitially, LeaseSteps, <1>1, PTL DEF LeaseSpec

\* At most one engine that is not on its way out takes itself for the leader, whatever calls are
\* late, fail or lose their answers and whatever processes die, as long as a call's duration is
\* less than the interval and than half of what the lease leaves beyond it (engine/leader.ts:38).
THEOREM AlwaysOneLeader == LeaseSpec => []OneLeader
  <1>1. EInv => OneLeader
    BY DEF EInv, OneLeader, EngineInv, Outlasts
  <1> QED
    BY LeaseInitially, LeaseSteps, <1>1, PTL DEF LeaseSpec


-----------------------------------------------------------------------------
\* File locks. That a session has the locks it counts on is not inductive alone: a deletion
\* takes whatever is there. What a release has read and nobody has changed since is still its
\* session's, and a session does not count on what one of its own releases is at.

ReleaseStates ==
    [session : Sessions \cup {Free}, todo : SUBSET Paths, path : Paths \cup {Free}, stale : BOOLEAN]

ReadIsOwned ==
    \A r \in Releases : release[r].path # Free /\ ~release[r].stale
                          => lockOwner[release[r].path] = release[r].session

ReleasedIsNotCounted ==
    \A r \in Releases : \A s \in Sessions : release[r].session = s =>
        counted[s] \cap (release[r].todo \cup {release[r].path}) = {}

LInv == LocksTypeOK /\ ReadIsOwned /\ ReleasedIsNotCounted /\ LocksAreKept

-----------------------------------------------------------------------------
LEMMA LocksInitially == LocksInit => LInv
  BY LocksAssumption
  DEF LocksInit, LInv, LocksTypeOK, ReadIsOwned, ReleasedIsNotCounted, LocksAreKept, NoRelease

\* A change of keys makes what was read of them stale, and nothing else.
LEMMA Overtaken ==
    ASSUME LocksTypeOK, NEW changed \in SUBSET Paths
    PROVE  /\ Overtake(changed) \in [Releases -> ReleaseStates]
           /\ \A r \in Releases :
                /\ Overtake(changed)[r].session = release[r].session
                /\ Overtake(changed)[r].todo = release[r].todo
                /\ Overtake(changed)[r].path = release[r].path
                /\ ~Overtake(changed)[r].stale =>
                      ~release[r].stale /\ release[r].path \notin changed
  BY DEF LocksTypeOK, Overtake, ReleaseStates

LEMMA LocksSteps == LInv /\ [LocksNext]_lockVars => LInv'
<1> SUFFICES ASSUME LInv, [LocksNext]_lockVars PROVE LInv'
  OBVIOUS
<1> USE LocksAssumption DEF LInv, ReleaseStates
<1>1. ASSUME NEW s \in Sessions, NEW paths \in SUBSET Paths, AcquireLocks(s, paths) PROVE LInv'
  <2>1. /\ \A p \in paths : lockOwner[p] \in {s, Free}
        /\ lockOwner' = [p \in Paths |-> IF p \in paths THEN s ELSE lockOwner[p]]
        /\ counted' = [counted EXCEPT ![s] = @ \cup (paths \ BeingReleased(s))]
        /\ overtaken' = overtaken \ ({s} \X paths) /\ release' = Overtake(paths)
    BY <1>1 DEF AcquireLocks, Available
  <2>2. LocksTypeOK'
    <3>1. release' \in [Releases -> ReleaseStates]
      BY <2>1, Overtaken
    <3> QED
      BY <2>1, <3>1 DEF LocksTypeOK
  <2>3. ReadIsOwned'
    BY <2>1, Overtaken DEF LocksTypeOK, ReadIsOwned
  <2>4. ReleasedIsNotCounted'
    <3> SUFFICES ASSUME NEW r \in Releases, NEW t \in Sessions, release[r].session = t
                 PROVE counted'[t] \cap (release[r].todo \cup {release[r].path}) = {}
      BY <2>1, Overtaken DEF ReleasedIsNotCounted
    <3>1. t = s => release[r].todo \cup {release[r].path} \subseteq BeingReleased(s)
      BY DEF BeingReleased
    <3> QED
      BY <2>1, <3>1 DEF LocksTypeOK, ReleasedIsNotCounted
  <2>5. LocksAreKept'
    <3> SUFFICES ASSUME NEW t \in Sessions, NEW p \in counted'[t]
                 PROVE lockOwner'[p] = t \/ <<t, p>> \in overtaken'
      BY DEF LocksAreKept
    <3>1. CASE p \in paths /\ t = s
      BY <2>1, <3>1
    <3>2. CASE p \notin paths \/ t # s
      <4>1. p \in counted[t] /\ p \in Paths
        BY <2>1, <3>2 DEF LocksTypeOK
      <4>2. lockOwner[p] = t => p \notin paths
        BY <2>1, <3>2
      <4>3. <<t, p>> \in overtaken => <<t, p>> \in overtaken'
        BY <2>1, <3>2
      <4> QED
        BY <2>1, <4>1, <4>2, <4>3 DEF LocksAreKept
    <3> QED
      BY <3>1, <3>2
  <2> QED
    BY <2>2, <2>3, <2>4, <2>5
<1>2. ASSUME NEW r \in Releases, NEW s \in Sessions, NEW paths \in SUBSET Paths,
             ReleaseLocks(r, s, paths)
      PROVE LInv'
  <2> DEFINE new == [NoRelease EXCEPT !.session = s, !.todo = paths]
  <2>1. /\ release' = [release EXCEPT ![r] = new]
        /\ counted' = [counted EXCEPT ![s] = @ \ paths]
        /\ overtaken' = overtaken \ ({s} \X paths) /\ lockOwner' = lockOwner
    BY <1>2 DEF ReleaseLocks
  <2>6. new \in ReleaseStates /\ new.session = s /\ new.todo = paths /\ new.path = Free
    BY DEF NoRelease
  <2> HIDE DEF new
  <2>2. LocksTypeOK'
    BY <2>1, <2>6 DEF LocksTypeOK
  <2>3. ReadIsOwned'
    BY <2>1, <2>6 DEF LocksTypeOK, ReadIsOwned
  <2>4. ReleasedIsNotCounted'
    <3> SUFFICES ASSUME NEW q \in Releases, NEW t \in Sessions, release'[q].session = t
                 PROVE counted'[t] \cap (release'[q].todo \cup {release'[q].path}) = {}
      BY DEF ReleasedIsNotCounted
    <3>1. CASE q = r
      <4>1. release'[q].todo = paths /\ release'[q].path = Free /\ t = s
        BY <2>1, <2>6, <3>1 DEF LocksTypeOK
      <4>2. counted'[t] \subseteq Paths \ paths
        BY <2>1, <4>1 DEF LocksTypeOK
      <4> QED
        BY <4>1, <4>2
    <3>2. CASE q # r
      <4>1. release'[q] = release[q] /\ counted'[t] \subseteq counted[t]
        BY <2>1, <3>2 DEF LocksTypeOK
      <4> QED
        BY <4>1 DEF ReleasedIsNotCounted
    <3> QED
      BY <3>1, <3>2
  <2>5. LocksAreKept'
    <3> SUFFICES ASSUME NEW t \in Sessions, NEW p \in counted'[t]
                 PROVE lockOwner'[p] = t \/ <<t, p>> \in overtaken'
      BY DEF LocksAreKept
    <3>1. p \in counted[t] /\ (t # s \/ p \notin paths)
      BY <2>1, <2>6 DEF LocksTypeOK
    <3>2. <<t, p>> \in overtaken => <<t, p>> \in overtaken'
      BY <2>1, <3>1
    <3> QED
      BY <2>1, <3>1, <3>2 DEF LocksAreKept
  <2> QED
    BY <2>2, <2>3, <2>4, <2>5
<1>3. ASSUME NEW r \in Releases, NEW p \in Paths, ReadOwner(r, p) PROVE LInv'
  <2> DEFINE rest == [release[r] EXCEPT !.todo = @ \ {p}]
  <2>1. /\ release[r].path = Free /\ p \in release[r].todo
        /\ UNCHANGED <<lockOwner, counted, overtaken>>
    BY <1>3 DEF ReadOwner
  <2>2. /\ rest \in ReleaseStates /\ rest.session = release[r].session
        /\ rest.todo \subseteq release[r].todo /\ rest.path = Free
    BY <2>1 DEF LocksTypeOK
  <2>3. PICK new \in ReleaseStates :
           /\ release' = [release EXCEPT ![r] = new]
           /\ new.session \in {Free, release[r].session} /\ new.todo \subseteq release[r].todo
           /\ \/ new.path = Free
              \/ new.path = p /\ lockOwner[p] = new.session /\ new.session = release[r].session
    <3>1. CASE lockOwner[p] = release[r].session
      <4>1. release' = [release EXCEPT ![r] = [rest EXCEPT !.path = p]]
        <5> HIDE DEF ReleaseStates, LInv
        <5> QED
          BY <1>3, <3>1 DEF ReadOwner, IsOwn
      <4>2. /\ [rest EXCEPT !.path = p] \in ReleaseStates /\ [rest EXCEPT !.path = p].path = p
            /\ [rest EXCEPT !.path = p].session = rest.session
            /\ [rest EXCEPT !.path = p].todo = rest.todo
        BY <2>2
      <4> HIDE DEF rest
      <4> QED
        BY <2>2, <3>1, <4>1, <4>2
    <3>2. CASE lockOwner[p] # release[r].session
      <4>1. \/ release' = [release EXCEPT ![r] = NoRelease]
            \/ release' = [release EXCEPT ![r] = rest]
        BY <1>3, <3>2 DEF ReadOwner, IsOwn
      <4>2. NoRelease \in ReleaseStates /\ NoRelease.path = Free /\ NoRelease.session = Free
              /\ NoRelease.todo = {}
        BY DEF NoRelease
      <4> HIDE DEF rest
      <4> QED
        BY <2>2, <4>1, <4>2
    <3> QED
      BY <3>1, <3>2
  <2>4. LocksTypeOK'
    BY <2>1, <2>3 DEF LocksTypeOK
  <2>5. ReadIsOwned'
    BY <2>1, <2>3 DEF LocksTypeOK, ReadIsOwned
  <2>7. ReleasedIsNotCounted'
    <3> SUFFICES ASSUME NEW q \in Releases, NEW t \in Sessions, release'[q].session = t
                 PROVE counted[t] \cap (release'[q].todo \cup {release'[q].path}) = {}
      BY <2>1 DEF ReleasedIsNotCounted
    <3>1. CASE q = r
      <4>1. release[r].session = t /\ release'[q].todo \subseteq release[r].todo
              /\ release'[q].path \in {Free, p}
        BY <2>3, <3>1 DEF LocksTypeOK
      <4>2. Free \notin counted[t] /\ p \in release[r].todo
        BY <2>1 DEF LocksTypeOK
      <4> QED
        BY <4>1, <4>2 DEF ReleasedIsNotCounted
    <3>2. CASE q # r
      BY <2>3, <3>2 DEF LocksTypeOK, ReleasedIsNotCounted
    <3> QED
      BY <3>1, <3>2
  <2>6. LocksAreKept'
    BY <2>1 DEF LocksAreKept
  <2> QED
    BY <2>4, <2>5, <2>6, <2>7
<1>4. ASSUME NEW r \in Releases, DeleteLock(r) PROVE LInv'
  <2> DEFINE p == release[r].path
             done == IF release[r].todo = {} THEN NoRelease
                     ELSE [release[r] EXCEPT !.path = Free, !.stale = FALSE]
  <2>1. /\ p # Free /\ p \in Paths
        /\ lockOwner' = [lockOwner EXCEPT ![p] = Free]
        /\ overtaken' = IF release[r].stale THEN overtaken \cup {<<lockOwner[p], p>>} ELSE overtaken
        /\ release' = [Overtake({p}) EXCEPT ![r] = done] /\ counted' = counted
    BY <1>4 DEF DeleteLock, LocksTypeOK
  <2>2. done \in ReleaseStates
          /\ done.path = Free /\ done.todo \subseteq release[r].todo
          /\ done.session \in {Free, release[r].session}
    BY DEF LocksTypeOK, NoRelease
  <2>3. /\ release' \in [Releases -> ReleaseStates]
        /\ release'[r] = done
        /\ \A q \in Releases \ {r} :
              /\ release'[q].session = release[q].session /\ release'[q].todo = release[q].todo
              /\ release'[q].path = release[q].path
              /\ ~release'[q].stale => ~release[q].stale /\ release[q].path # p
    BY <2>1, <2>2, Overtaken
  <2> HIDE DEF done
  <2>4. LocksTypeOK'
    <3>1. lockOwner[p] \in Sessions \cup {Free} /\ lockOwner' \in [Paths -> Sessions \cup {Free}]
      BY <2>1 DEF LocksTypeOK
    <3>2. overtaken' \subseteq (Sessions \cup {Free}) \X Paths
      BY <2>1, <3>1 DEF LocksTypeOK
    <3> QED
      BY <2>1, <2>3, <3>1, <3>2 DEF LocksTypeOK
  <2>5. ReadIsOwned'
    BY <2>1, <2>2, <2>3 DEF LocksTypeOK, ReadIsOwned
  <2>6. ReleasedIsNotCounted'
    <3> SUFFICES ASSUME NEW q \in Releases, NEW t \in Sessions, release'[q].session = t
                 PROVE counted[t] \cap (release'[q].todo \cup {release'[q].path}) = {}
      BY <2>1 DEF ReleasedIsNotCounted
    <3>1. CASE q = r
      <4>1. /\ release[r].session = t /\ release'[q].todo \subseteq release[r].todo
            /\ release'[q].path = Free
        BY <2>2, <2>3, <3>1
      <4>2. Free \notin counted[t]
        BY DEF LocksTypeOK
      <4> QED
        BY <4>1, <4>2 DEF ReleasedIsNotCounted
    <3>2. CASE q # r
      BY <2>3, <3>2 DEF ReleasedIsNotCounted
    <3> QED
      BY <3>1, <3>2
  <2>7. LocksAreKept'
    <3> SUFFICES ASSUME NEW t \in Sessions, NEW x \in counted[t]
                 PROVE lockOwner'[x] = t \/ <<t, x>> \in overtaken'
      BY <2>1 DEF LocksAreKept
    <3>1. CASE x = p /\ lockOwner[p] = t
      <4>1. release[r].stale
        BY <2>1, <3>1 DEF ReadIsOwned, ReleasedIsNotCounted
      <4> QED
        BY <2>1, <3>1, <4>1
    <3>2. CASE x # p \/ lockOwner[p] # t
      <4>1. lockOwner[x] = t \/ <<t, x>> \in overtaken
        BY DEF LocksAreKept
      <4>2. x \in Paths /\ overtaken \subseteq overtaken'
        BY <2>1 DEF LocksTypeOK
      <4> QED
        BY <2>1, <3>2, <4>1, <4>2 DEF LocksTypeOK
    <3> QED
      BY <3>1, <3>2
  <2> QED
    BY <2>4, <2>5, <2>6, <2>7
<1>5. ASSUME NEW r \in Releases, ReleaseFails(r) PROVE LInv'
  BY <1>5 DEF ReleaseFails, NoRelease, LocksTypeOK, ReadIsOwned, ReleasedIsNotCounted, LocksAreKept
<1>6. ASSUME NEW p \in Paths, ExpireLock(p) PROVE LInv'
  <2>1. /\ lockOwner' = [lockOwner EXCEPT ![p] = Free] /\ lockOwner[p] \in Sessions
        /\ counted' = [counted EXCEPT ![lockOwner[p]] = @ \ {p}]
        /\ release' = Overtake({p}) /\ overtaken' = overtaken
    BY <1>6 DEF ExpireLock, LocksTypeOK
  <2>2. LocksTypeOK'
    <3>1. release' \in [Releases -> ReleaseStates]
      BY <2>1, Overtaken
    <3> QED
      BY <2>1, <3>1 DEF LocksTypeOK
  <2>3. ReadIsOwned'
    BY <2>1, Overtaken DEF LocksTypeOK, ReadIsOwned
  <2>4. ReleasedIsNotCounted'
    <3> SUFFICES ASSUME NEW q \in Releases, NEW t \in Sessions, release[q].session = t
                 PROVE counted'[t] \cap (release[q].todo \cup {release[q].path}) = {}
      <4>1. \A q \in Releases : /\ release'[q].session = release[q].session
                                /\ release'[q].todo = release[q].todo
                                /\ release'[q].path = release[q].path
        BY <2>1, Overtaken
      <4> QED
        BY <4>1 DEF ReleasedIsNotCounted
    <3> QED
      BY <2>1 DEF LocksTypeOK, ReleasedIsNotCounted
  <2>5. LocksAreKept'
    BY <2>1 DEF LocksTypeOK, LocksAreKept
  <2> QED
    BY <2>2, <2>3, <2>4, <2>5
<1>7. CASE UNCHANGED lockVars
  BY <1>7 DEF lockVars, LocksTypeOK, ReadIsOwned, ReleasedIsNotCounted, LocksAreKept
<1> QED
  BY <1>1, <1>2, <1>3, <1>4, <1>5, <1>6, <1>7 DEF LocksNext, ReleaseAllForSession

\* A session that counts on a lock has it, however acquisitions, the releases of several commands
\* each, their failures and the ends of locks interleave, save for a lock that a release deleted
\* on a reading from before it was acquired (file-locks.ts:106).
THEOREM LocksAreAlwaysKept == LocksSpec => []LocksAreKept
<1>1. LInv => LocksAreKept
  BY DEF LInv
<1> QED
  BY LocksInitially, LocksSteps, <1>1, PTL DEF LocksSpec


-----------------------------------------------------------------------------
\* Test services. Calls are about services that were written to Redis; a removal takes the
\* pod, then the cluster's service, then the hash, so the record goes last. The lease on
\* record is no shorter than the one granted, as a lone extension writes over what it has
\* read.

LEMMA MaxOfTwo ==
    ASSUME NEW a \in Nat, NEW b \in Nat
    PROVE  Max({a, b}) \in Nat /\ Max({a, b}) >= a /\ Max({a, b}) >= b
<1>1. \E m \in {a, b} : \A y \in {a, b} : m >= y
  OBVIOUS
<1>2. Max({a, b}) \in {a, b} /\ \A y \in {a, b} : Max({a, b}) >= y
  BY <1>1 DEF Max
<1> QED
  BY <1>2

Persisted(s) == s \in Services /\ starting[s] \in {"list", "started"}

RemovalStands(c) ==
    /\ c.step # "none" => Persisted(c.service)
    /\ c.step \in {"service", "hash"} =>
          "pod" \notin cluster[c.service] \/ c.service \in abandoned
    /\ c.step = "hash" =>
          "service" \notin cluster[c.service] \/ c.service \in abandoned

\* Calls are about services that were persisted, and a removal goes through its objects in turn.
CallsInv ==
    /\ \A s \in Services : hash[s].whole => Persisted(s)
    /\ \A x \in Extenders : extender[x].step # "none" => Persisted(extender[x].service)
    /\ \A x \in Removers : RemovalStands(remover[x])

\* The lease on record is no shorter than the one granted, and a lone extension writes over
\* what it has read.
LeasesInv ==
    /\ \A x \in Removers : remover[x].since <= clock
    /\ Cardinality(Extenders) = 1 =>
          /\ \A s \in Services : hash[s].whole => granted[s] <= hash[s].lease
          /\ \A x \in Extenders :
                LET c == extender[x]
                IN c.step = "write" /\ hash[c.service].whole => c.read.lease = hash[c.service].lease

SvcInv == ServicesTypeOK /\ CallsInv /\ LeasesInv /\ ServicesAreKept

LEMMA ServicesInitially == ServicesInit => SvcInv
<1> SUFFICES ASSUME ServicesInit PROVE SvcInv
  OBVIOUS
<1> USE ServicesAssumption DEF ServicesInit
<1>1. Away \in CallType /\ Away.step = "none" /\ Away.since = 0 /\ NoHash \in HashType
      /\ NoHash.whole = FALSE
  BY DEF Away, NoHash, CallType, HashType
<1>2. ServicesTypeOK
  <2>1. clock \in 1 .. MaxTime /\ losses \in 0 .. MaxLosses
    OBVIOUS
  <2>2. hash \in [Services -> HashType]
    BY <1>1
  <2>3. extender \in [Extenders -> CallType] /\ remover \in [Removers -> CallType]
    BY <1>1
  <2> QED
    BY <2>1, <2>2, <2>3 DEF ServicesTypeOK
<1>3. CallsInv
  BY <1>1 DEF CallsInv, RemovalStands
<1>4. LeasesInv
  BY <1>1 DEF LeasesInv
<1>5. ServicesAreKept
  BY <1>1 DEF ServicesAreKept, LeaseHonouredAlone, LeaseHonoured, ServicesAreKnown
<1> QED
  BY <1>2, <1>3, <1>4, <1>5 DEF SvcInv
-----------------------------------------------------------------------------
\* A change of statuses alone keeps what the records say of leases.
StatusesMove ==
    /\ hash' \in [Services -> HashType]
    /\ \A s \in Services : hash'[s].whole = hash[s].whole /\ hash'[s].lease = hash[s].lease

LEMMA StatusMoves ==
    ASSUME ServicesTypeOK, NEW s \in Services,
           NEW status \in {"none", "starting", "ready", "stopped", "expired"},
           hash' = [hash EXCEPT ![s].status = status]
    PROVE  StatusesMove
<1> DEFINE record == [hash[s] EXCEPT !.status = status]
<1>1. hash[s] \in HashType
  BY DEF ServicesTypeOK
<1>2. record \in HashType /\ record.whole = hash[s].whole /\ record.lease = hash[s].lease
  BY <1>1 DEF HashType
<1>3. hash' = [hash EXCEPT ![s] = record]
  OBVIOUS
<1> HIDE DEF record
<1> QED
  BY <1>2, <1>3 DEF ServicesTypeOK, StatusesMove

\* A step of one extension, WriteLease apart.
LEMMA ExtenderMoves ==
    ASSUME SvcInv, NEW x \in Extenders, NEW after \in CallType,
           extender' = [extender EXCEPT ![x] = after],
           after.step # "none" => Persisted(after.service),
           after.step = "write" => after.read.lease = hash[after.service].lease,
           StatusesMove,
           UNCHANGED <<clock, graphEnded, starting, leaseAsked, cluster, listed, remover, granted,
                       abandoned, losses>>
    PROVE  SvcInv'
<1>1. \A y \in Extenders : extender'[y] = IF y = x THEN after ELSE extender[y]
  BY DEF SvcInv, ServicesTypeOK
<1>2. ServicesTypeOK'
  BY DEF SvcInv, ServicesTypeOK, StatusesMove
<1>3. CallsInv'
  BY <1>1 DEF SvcInv, CallsInv, RemovalStands, Persisted, StatusesMove
<1>4. LeasesInv'
  <2> SUFFICES ASSUME Cardinality(Extenders) = 1
               PROVE  /\ \A s \in Services : hash'[s].whole => granted[s] <= hash'[s].lease
                      /\ \A y \in Extenders :
                            extender'[y].step = "write" /\ hash'[extender'[y].service].whole =>
                               extender'[y].read.lease = hash'[extender'[y].service].lease
    BY DEF SvcInv, LeasesInv
  <2>1. \A s \in Services : hash'[s].whole => granted[s] <= hash'[s].lease
    BY DEF SvcInv, LeasesInv, StatusesMove
  <2>2. ASSUME NEW y \in Extenders, extender'[y].step = "write",
               hash'[extender'[y].service].whole
        PROVE  extender'[y].read.lease = hash'[extender'[y].service].lease
    <3>1. CASE y = x
      <4>1. extender'[y] = after /\ after.service \in Services
        BY <1>1, <2>2, <3>1 DEF Persisted
      <4> QED
        BY <2>2, <4>1 DEF StatusesMove
    <3>2. CASE y # x
      <4>1. extender'[y] = extender[y] /\ extender[y].service \in Services
        BY <1>1, <2>2, <3>2 DEF SvcInv, CallsInv, Persisted
      <4> QED
        BY <2>2, <4>1 DEF SvcInv, LeasesInv, StatusesMove
    <3> QED
      BY <3>1, <3>2
  <2> QED
    BY <2>1, <2>2
<1>5. ServicesAreKept'
  BY DEF SvcInv, ServicesAreKept, LeaseHonouredAlone, LeaseHonoured, ServicesAreKnown, StatusesMove
<1> QED
  BY <1>2, <1>3, <1>4, <1>5 DEF SvcInv

\* A step of one stop or sweep, DeleteHash apart.
LEMMA RemoverMoves ==
    ASSUME SvcInv, NEW x \in Removers, NEW after \in CallType,
           remover' = [remover EXCEPT ![x] = after],
           after.step # "none" => Persisted(after.service),
           after.since <= clock,
           after.step = "expire" /\ Cardinality(Extenders) = 1 => granted[after.service] < clock,
           after.step \in {"service", "hash"} =>
              "pod" \notin cluster'[after.service] \/ after.service \in abandoned',
           after.step = "hash" =>
              "service" \notin cluster'[after.service] \/ after.service \in abandoned',
           StatusesMove, cluster' \in [Services -> SUBSET {"pod", "service"}],
           \A s \in Services : cluster'[s] \subseteq cluster[s],
           abandoned \subseteq abandoned', abandoned' \subseteq Services,
           losses' \in 0 .. MaxLosses,
           UNCHANGED <<clock, graphEnded, starting, leaseAsked, listed, extender, granted>>
    PROVE  SvcInv'
<1>1. \A y \in Removers : remover'[y] = IF y = x THEN after ELSE remover[y]
  BY DEF SvcInv, ServicesTypeOK
<1>2. ServicesTypeOK'
  BY DEF SvcInv, ServicesTypeOK, StatusesMove
<1>3. CallsInv'
  <2>1. \A s \in Services : hash'[s].whole => Persisted(s)'
    BY DEF SvcInv, CallsInv, Persisted, StatusesMove
  <2>2. \A y \in Extenders : extender'[y].step # "none" => Persisted(extender[y].service)'
    BY DEF SvcInv, CallsInv, Persisted
  <2>3. ASSUME NEW y \in Removers PROVE RemovalStands(remover[y])'
    <3>1. CASE y = x
      <4>1. RemovalStands(after)'
        BY DEF RemovalStands, Persisted
      <4> QED
        BY <1>1, <3>1, <4>1 DEF RemovalStands, Persisted
    <3>2. CASE y # x
      <4>1. remover'[y] = remover[y]
        BY <1>1, <3>2
      <4>2. RemovalStands(remover[y])
        BY DEF SvcInv, CallsInv
      <4>3. remover[y].step # "none" => remover[y].service \in Services
        BY <4>2 DEF RemovalStands, Persisted
      <4> QED
        BY <4>1, <4>2, <4>3 DEF RemovalStands, Persisted
    <3> QED
      BY <3>1, <3>2
  <2> QED
    BY <2>1, <2>2, <2>3 DEF CallsInv
<1>4. LeasesInv'
  <2>1. \A y \in Removers : remover'[y].since <= clock
    BY <1>1 DEF SvcInv, LeasesInv
  <2>2. ASSUME Cardinality(Extenders) = 1, NEW y \in Extenders, extender[y].step = "write",
               hash'[extender[y].service].whole
        PROVE  extender[y].read.lease = hash'[extender[y].service].lease
    <3>1. extender[y].service \in Services
      BY <2>2 DEF SvcInv, CallsInv, Persisted
    <3> QED
      BY <2>2, <3>1 DEF SvcInv, LeasesInv, StatusesMove
  <2> QED
    BY <2>1, <2>2 DEF SvcInv, LeasesInv, StatusesMove
<1>5. ServicesAreKept'
  <2>1. LeaseHonouredAlone'
    BY <1>1 DEF SvcInv, ServicesAreKept, LeaseHonouredAlone, LeaseHonoured
  <2>2. ServicesAreKnown'
    BY DEF SvcInv, ServicesAreKept, ServicesAreKnown, StatusesMove
  <2> QED
    BY <2>1, <2>2 DEF ServicesAreKept
<1> QED
  BY <1>2, <1>3, <1>4, <1>5 DEF SvcInv

\* A step of startService, Persist apart.
LEMMA StartMoves ==
    ASSUME SvcInv, NEW s \in Services,
           NEW step \in {"pod", "service", "hash", "list", "started"},
           starting' = [starting EXCEPT ![s] = step],
           starting[s] \in {"list", "started"} => step = "started",
           cluster' \in [Services -> SUBSET {"pod", "service"}],
           \A t \in Services \ {s} : cluster'[t] = cluster[t],
           cluster'[s] # cluster[s] => starting[s] \in {"pod", "service"},
           abandoned \subseteq abandoned', abandoned' \subseteq Services,
           \/ step \in {"service", "hash"} \/ cluster'[s] = {} \/ hash[s].whole
           \/ s \in abandoned'
           \/ cluster'[s] = cluster[s] /\ starting[s] \notin {"service", "hash"},
           leaseAsked' \in [Services -> Nat], listed' \subseteq Services,
           losses' \in 0 .. MaxLosses,
           UNCHANGED <<clock, graphEnded, hash, extender, remover, granted>>
    PROVE  SvcInv'
<1>1. ServicesTypeOK'
  BY DEF SvcInv, ServicesTypeOK
<1>2. \A t \in Services : starting'[t] = IF t = s THEN step ELSE starting[t]
  BY DEF SvcInv, ServicesTypeOK
<1>3. \A t \in Services :
         Persisted(t) => Persisted(t)' /\ cluster'[t] = cluster[t]
  BY <1>2 DEF Persisted
<1>4. CallsInv'
  <2>1. ASSUME NEW y \in Removers PROVE RemovalStands(remover[y])'
    <3>1. RemovalStands(remover[y]) /\ remover'[y] = remover[y]
      BY DEF SvcInv, CallsInv
    <3>2. remover[y].step # "none" =>
             Persisted(remover[y].service) /\ remover[y].service \in Services
      BY <3>1 DEF RemovalStands, Persisted
    <3> QED
      BY <1>3, <3>1, <3>2 DEF RemovalStands, Persisted
  <2>2. \A y \in Extenders : extender[y].step # "none" => Persisted(extender[y].service)'
    <3>1. \A y \in Extenders : extender[y].step # "none" =>
             Persisted(extender[y].service) /\ extender[y].service \in Services
      BY DEF SvcInv, CallsInv, Persisted
    <3> QED
      BY <1>3, <3>1
  <2>3. \A t \in Services : hash[t].whole => Persisted(t)'
    BY <1>3 DEF SvcInv, CallsInv
  <2> QED
    BY <2>1, <2>2, <2>3 DEF CallsInv
<1>5. LeasesInv'
  BY DEF SvcInv, LeasesInv
<1>6. ServicesAreKnown'
  BY <1>2 DEF SvcInv, ServicesAreKept, ServicesAreKnown
<1>7. LeaseHonouredAlone'
  BY DEF SvcInv, ServicesAreKept, LeaseHonouredAlone, LeaseHonoured
<1> QED
  BY <1>1, <1>4, <1>5, <1>6, <1>7 DEF SvcInv, ServicesAreKept
-----------------------------------------------------------------------------
LEMMA ServicesSteps == SvcInv /\ [ServicesNext]_servicesVars => SvcInv'
<1> SUFFICES ASSUME SvcInv, [ServicesNext]_servicesVars PROVE SvcInv'
  OBVIOUS
<1> USE ServicesAssumption
<1>t. ServicesTypeOK /\ CallsInv /\ LeasesInv /\ ServicesAreKnown
  BY DEF SvcInv, ServicesAreKept
<1>a. /\ Away \in CallType /\ Away.step = "none" /\ Away.since = 0
      /\ NoHash \in HashType /\ NoHash.whole = FALSE
  BY DEF Away, NoHash, CallType, HashType
<1>b. ASSUME UNCHANGED hash PROVE StatusesMove
  BY <1>t, <1>b DEF StatusesMove, ServicesTypeOK
<1>s. ASSUME NEW s \in Services, hash[s].whole PROVE Persisted(s)
  BY <1>t, <1>s DEF CallsInv
<1>1. ASSUME NEW s \in Services,
             (\E ttl \in Ttls : BeginStart(s, ttl)) \/ CreatePod(s) \/ CreateService(s) \/ List(s)
      PROVE SvcInv'
  <2>1. ASSUME NEW ttl \in Ttls, BeginStart(s, ttl) PROVE SvcInv'
    <3>1. leaseAsked' \in [Services -> Nat]
      BY <1>t, <2>1 DEF BeginStart, ServicesTypeOK
    <3>2. /\ starting' = [starting EXCEPT ![s] = "pod"] /\ starting[s] = "none"
          /\ UNCHANGED <<clock, graphEnded, cluster, hash, listed, extender, remover, granted,
                         abandoned, losses>>
      BY <2>1 DEF BeginStart
    <3> QED
      BY <1>t, <3>1, <3>2, StartMoves DEF ServicesTypeOK
  <2>2. CASE CreatePod(s)
    BY <1>t, <2>2, StartMoves DEF CreatePod, ServicesTypeOK
  <2>3. CASE CreateService(s)
    BY <1>t, <2>3, StartMoves DEF CreateService, ServicesTypeOK
  <2>4. CASE List(s)
    BY <1>t, <2>4, StartMoves DEF List, ServicesTypeOK
  <2> QED
    BY <1>1, <2>1, <2>2, <2>3, <2>4
<1>2. ASSUME NEW s \in Services, StartFails(s) PROVE SvcInv'
  <2>1. /\ starting[s] \notin {"none", "started"}
        /\ starting' = [starting EXCEPT ![s] = "started"]
        /\ abandoned' = IF cluster[s] # {} /\ ~hash[s].whole THEN abandoned \cup {s} ELSE abandoned
        /\ losses < MaxLosses /\ losses' = losses + 1
        /\ UNCHANGED <<clock, graphEnded, leaseAsked, cluster, hash, listed, extender, remover,
                       granted>>
    BY <1>2 DEF StartFails, Lose
  <2>2. /\ abandoned \subseteq abandoned' /\ abandoned' \subseteq Services
        /\ cluster[s] = {} \/ hash[s].whole \/ s \in abandoned'
        /\ losses' \in 0 .. MaxLosses
    BY <1>t, <2>1 DEF ServicesTypeOK
  <2>3. /\ cluster' \in [Services -> SUBSET {"pod", "service"}]
        /\ leaseAsked' \in [Services -> Nat] /\ listed' \subseteq Services
    BY <1>t, <2>1 DEF ServicesTypeOK
  <2> QED
    BY <2>1, <2>2, <2>3, StartMoves
<1>3. ASSUME NEW s \in Services, Persist(s) PROVE SvcInv'
  <2> DEFINE record == [whole |-> TRUE, lease |-> leaseAsked[s], status |-> "starting"]
  <2>1. /\ starting[s] = "hash" /\ starting' = [starting EXCEPT ![s] = "list"]
        /\ hash' = [hash EXCEPT ![s] = record]
        /\ granted' = [granted EXCEPT ![s] = leaseAsked[s]]
        /\ UNCHANGED <<clock, graphEnded, leaseAsked, cluster, listed, extender, remover,
                       abandoned, losses>>
    BY <1>3 DEF Persist
  <2>2. record \in HashType /\ record.whole /\ record.lease = leaseAsked[s]
    BY <1>t DEF ServicesTypeOK, HashType
  <2> HIDE DEF record
  <2>3. ServicesTypeOK'
    BY <1>t, <2>1, <2>2 DEF ServicesTypeOK
  <2>4. ~Persisted(s) /\ \A t \in Services : Persisted(t) => Persisted(t)' /\ t # s
    BY <1>t, <2>1 DEF Persisted, ServicesTypeOK
  <2>5. \A t \in Services \ {s} : hash'[t] = hash[t] /\ granted'[t] = granted[t]
    BY <1>t, <2>1 DEF ServicesTypeOK
  <2>6. hash'[s] = record /\ granted'[s] = leaseAsked[s] /\ Persisted(s)'
    BY <1>t, <2>1 DEF ServicesTypeOK, Persisted
  <2>7. ASSUME NEW x \in Removers PROVE  \/ RemovalStands(remover[x])' /\ remover[x].service # s
                                         \/ remover[x].step = "none"
    <3>1. RemovalStands(remover[x]) /\ remover'[x] = remover[x]
      BY <1>t, <2>1 DEF CallsInv
    <3>2. remover[x].step # "none" => remover[x].service \in Services
      BY <3>1 DEF RemovalStands, Persisted
    <3> QED
      BY <2>1, <2>4, <3>1, <3>2 DEF RemovalStands
  <2>8. ASSUME NEW x \in Extenders, extender[x].step # "none"
        PROVE Persisted(extender[x].service)' /\ extender[x].service \in Services \ {s}
    <3>1. Persisted(extender[x].service)
      BY <1>t, <2>8 DEF CallsInv
    <3>2. extender[x].service \in Services
      BY <3>1 DEF Persisted
    <3> QED
      BY <2>1, <2>4, <3>1, <3>2
  <2>9. CallsInv'
    <3>1. \A t \in Services : hash'[t].whole => Persisted(t)'
      BY <1>t, <2>4, <2>5, <2>6 DEF CallsInv
    <3>2. \A x \in Removers : RemovalStands(remover[x])'
      BY <2>1, <2>7 DEF RemovalStands
    <3> QED
      BY <2>1, <2>8, <3>1, <3>2 DEF CallsInv
  <2>10. LeasesInv'
    <3>1. ASSUME Cardinality(Extenders) = 1, NEW t \in Services, hash'[t].whole
          PROVE granted'[t] <= hash'[t].lease
      <4>1. leaseAsked[s] \in Nat
        BY <1>t DEF ServicesTypeOK
      <4> QED
        BY <1>t, <2>2, <2>5, <2>6, <3>1, <4>1 DEF LeasesInv
    <3>2. ASSUME Cardinality(Extenders) = 1, NEW x \in Extenders, extender[x].step = "write",
                 hash'[extender[x].service].whole
          PROVE extender[x].read.lease = hash'[extender[x].service].lease
      BY <1>t, <2>5, <2>8, <3>2 DEF LeasesInv
    <3> QED
      BY <1>t, <2>1, <3>1, <3>2 DEF LeasesInv
  <2>11. LeaseHonouredAlone'
    BY <1>t, <2>1, <2>5, <2>7
    DEF SvcInv, ServicesAreKept, LeaseHonouredAlone, LeaseHonoured, CallsInv, RemovalStands,
        Persisted
  <2>12. ServicesAreKnown'
    <3>1. \A t \in Services \ {s} : starting'[t] = starting[t]
      BY <1>t, <2>1 DEF ServicesTypeOK
    <3> QED
      BY <1>t, <2>1, <2>2, <2>5, <2>6, <3>1 DEF ServicesAreKnown
  <2> QED
    BY <2>3, <2>9, <2>10, <2>11, <2>12 DEF SvcInv, ServicesAreKept
<1>4. ASSUME NEW x \in Extenders, NEW s \in Services, NEW ttl \in Ttls, LookUp(x, s, ttl)
      PROVE SvcInv'
  <2>1. PICK step \in {"phase", "extend"} :
           extender' = [extender EXCEPT ![x] =
               [Away EXCEPT !.service = s, !.ttl = ttl, !.step = step]]
    BY <1>4 DEF LookUp, Recall
  <2> DEFINE after == [Away EXCEPT !.service = s, !.ttl = ttl, !.step = step]
  <2>2. after \in CallType /\ after.step = step /\ after.service = s
    BY <1>a DEF CallType
  <2>3. hash[s].whole /\ UNCHANGED <<clock, graphEnded, starting, leaseAsked, cluster, hash, listed,
                                     remover, granted, abandoned, losses>>
    BY <1>4 DEF LookUp
  <2> HIDE DEF after
  <2>4. extender' = [extender EXCEPT ![x] = after]
    BY <2>1 DEF after
  <2> QED
    BY <1>b, <1>s, <2>2, <2>3, <2>4, ExtenderMoves
<1>5. ASSUME NEW x \in Extenders, AdvancePhase(x) PROVE SvcInv'
  <2> DEFINE after == [extender[x] EXCEPT !.step = "extend"]
             s == extender[x].service
  <2>1. /\ extender[x].step = "phase" /\ extender' = [extender EXCEPT ![x] = after]
        /\ hash' = Ready(s) \/ UNCHANGED hash
        /\ UNCHANGED <<clock, graphEnded, starting, leaseAsked, cluster, listed, remover,
                       granted, abandoned, losses>>
    BY <1>5 DEF AdvancePhase, Recall
  <2>2. /\ after \in CallType /\ after.step = "extend" /\ after.service = s
    BY <1>t DEF ServicesTypeOK, CallType
  <2>3. Persisted(s) /\ s \in Services
    BY <1>t, <2>1 DEF CallsInv, Persisted
  <2> HIDE DEF after, s
  <2>4. StatusesMove
    BY <1>b, <1>t, <2>1, <2>3, StatusMoves DEF Ready
  <2> QED
    BY <2>1, <2>2, <2>3, <2>4, ExtenderMoves
<1>6. ASSUME NEW x \in Extenders, ReadLease(x) PROVE SvcInv'
  <2> DEFINE s == extender[x].service
             after == [extender[x] EXCEPT !.step = "write", !.read = hash[s], !.since = clock]
  <2>1. /\ extender[x].step = "extend"
        /\ UNCHANGED <<clock, graphEnded, starting, leaseAsked, cluster, hash, listed, remover,
                       granted, abandoned, losses>>
    BY <1>6 DEF ReadLease
  <2>2. Persisted(s) /\ s \in Services
    BY <1>t, <2>1 DEF CallsInv, Persisted
  <2>3. hash[s] \in HashType /\ clock \in Nat /\ extender[x] \in CallType
    BY <1>t, <2>2 DEF ServicesTypeOK
  <2>4. after \in CallType /\ after.step = "write" /\ after.service = s /\ after.read = hash[s]
    BY <2>3 DEF CallType
  <2>5. \/ extender' = [extender EXCEPT ![x] = after]
        \/ extender' = [extender EXCEPT ![x] = Away]
    BY <1>6 DEF ReadLease, Recall
  <2> HIDE DEF after, s
  <2>6. CASE extender' = [extender EXCEPT ![x] = after]
    BY <1>b, <2>1, <2>2, <2>4, <2>6, ExtenderMoves
  <2>7. CASE extender' = [extender EXCEPT ![x] = Away]
    BY <1>a, <1>b, <2>1, <2>7, ExtenderMoves
  <2> QED
    BY <2>5, <2>6, <2>7
<1>7. ASSUME NEW x \in Extenders, WriteLease(x) PROVE SvcInv'
  <2> DEFINE c == extender[x]
             s == c.service
             asked == c.since + c.ttl
             record == [hash[s] EXCEPT !.lease = NewLease(c)]
             promised == IF granted[s] >= clock THEN Max({granted[s], asked}) ELSE granted[s]
  <2>1. /\ c.step = "write" /\ hash' = [hash EXCEPT ![s] = record]
        /\ granted' = [granted EXCEPT ![s] = promised]
        /\ extender' = [extender EXCEPT ![x] = Away]
        /\ UNCHANGED <<clock, graphEnded, starting, leaseAsked, cluster, listed, remover,
                       abandoned, losses>>
    BY <1>7 DEF WriteLease, Recall
  <2>2. Persisted(s) /\ s \in Services
    BY <1>t, <2>1 DEF CallsInv, Persisted
  <2>3. /\ c \in CallType /\ hash[s] \in HashType /\ granted[s] \in Nat /\ clock \in Nat
        /\ c.read.lease \in Nat /\ asked \in Nat
    <3>1. c \in CallType /\ hash[s] \in HashType /\ granted[s] \in Nat /\ clock \in Nat
      BY <1>t, <2>2 DEF ServicesTypeOK
    <3>2. c.read \in HashType /\ c.since \in Nat /\ c.ttl \in Ttls \cup {0}
      BY <3>1 DEF CallType
    <3>3. c.read.lease \in Nat
      BY <3>2 DEF HashType
    <3>4. \A ttl \in Ttls \cup {0} : ttl \in Nat
      BY ServicesAssumption
    <3>5. asked \in Nat
      <4> DEFINE since == c.since  ttl == c.ttl
      <4>1. since \in Nat /\ ttl \in Nat
        BY <3>2, <3>4
      <4> HIDE DEF since, ttl
      <4>2. since + ttl \in Nat
        BY <4>1
      <4> QED
        BY <4>2 DEF since, ttl
    <3> QED
      BY <3>1, <3>3, <3>5
  <2>4. NewLease(c) \in Nat /\ NewLease(c) >= c.read.lease /\ NewLease(c) >= asked
    BY <2>3, MaxOfTwo DEF NewLease
  <2>5. /\ record \in HashType /\ record.whole = hash[s].whole /\ record.lease = NewLease(c)
    BY <2>3, <2>4 DEF HashType
  <2>6. /\ promised \in Nat
        /\ granted[s] < clock => promised = granted[s]
        /\ granted[s] <= NewLease(c) => promised <= NewLease(c)
    <3>1. CASE granted[s] >= clock
      <4>1. Max({granted[s], asked}) \in {granted[s], asked} /\ promised = Max({granted[s], asked})
        <5>1. \E m \in {granted[s], asked} : \A y \in {granted[s], asked} : m >= y
          BY <2>3
        <5> QED
          BY <3>1, <5>1 DEF Max
      <4> QED
        BY <2>3, <2>4, <3>1, <4>1
    <3>2. CASE ~(granted[s] >= clock)
      BY <2>3, <3>2
    <3> QED
      BY <3>1, <3>2
  <2> HIDE DEF promised, record, asked
  <2>7. /\ \A t \in Services : hash'[t] = IF t = s THEN record ELSE hash[t]
        /\ \A t \in Services : granted'[t] = IF t = s THEN promised ELSE granted[t]
        /\ \A y \in Extenders : extender'[y] = IF y = x THEN Away ELSE extender[y]
    BY <1>t, <2>1 DEF ServicesTypeOK
  <2>8. ServicesTypeOK'
    <3>1. hash' \in [Services -> HashType] /\ granted' \in [Services -> Nat]
      BY <1>t, <2>1, <2>5, <2>6 DEF ServicesTypeOK
    <3>2. extender' \in [Extenders -> CallType]
      BY <1>a, <1>t, <2>1 DEF ServicesTypeOK
    <3> QED
      BY <1>t, <2>1, <3>1, <3>2 DEF ServicesTypeOK
  <2>9. CallsInv'
    <3>1. \A y \in Removers : RemovalStands(remover[y])'
      BY <1>t, <2>1 DEF CallsInv, RemovalStands, Persisted
    <3>2. \A t \in Services : hash'[t].whole => Persisted(t)'
      BY <1>t, <2>1, <2>5, <2>7 DEF CallsInv, Persisted
    <3>3. ASSUME NEW y \in Extenders, extender'[y].step # "none"
          PROVE Persisted(extender[y].service)'
      <4>1. extender'[y] = extender[y]
        BY <1>a, <2>7, <3>3
      <4> QED
        BY <1>t, <2>1, <3>3, <4>1 DEF CallsInv, Persisted
    <3> QED
      BY <3>1, <3>2, <3>3 DEF CallsInv
  <2>10. LeasesInv'
    <3>1. ASSUME Cardinality(Extenders) = 1, NEW t \in Services, hash'[t].whole
          PROVE granted'[t] <= hash'[t].lease
      <4>1. CASE t = s
        <5>1. granted[s] <= hash[s].lease /\ c.read.lease = hash[s].lease
          BY <1>t, <2>1, <2>2, <2>5, <2>7, <3>1, <4>1 DEF LeasesInv
        <5> QED
          BY <2>3, <2>4, <2>5, <2>6, <2>7, <4>1, <5>1
      <4>2. CASE t # s
        BY <1>t, <2>7, <3>1, <4>2 DEF LeasesInv
      <4> QED
        BY <4>1, <4>2
    <3>2. ASSUME Cardinality(Extenders) = 1, NEW y \in Extenders PROVE extender'[y].step # "write"
      <4>1. y = x
        BY <3>2, FS_Singleton
      <4> QED
        BY <1>a, <2>7, <4>1
    <3> QED
      BY <1>t, <2>1, <3>1, <3>2 DEF LeasesInv
  <2>11. ServicesAreKept'
    <3>1. LeaseHonouredAlone'
      <4> SUFFICES ASSUME Cardinality(Extenders) = 1, NEW y \in Removers,
                          remover[y].step = "expire"
                   PROVE  granted'[remover[y].service] < clock
        BY <2>1 DEF LeaseHonouredAlone, LeaseHonoured
      <4>1. granted[remover[y].service] < clock /\ remover[y].service \in Services
        BY <1>t DEF SvcInv, ServicesAreKept, LeaseHonouredAlone, LeaseHonoured, CallsInv,
                    RemovalStands, Persisted
      <4>2. granted'[remover[y].service] = granted[remover[y].service]
        BY <2>6, <2>7, <4>1
      <4> QED
        BY <4>1, <4>2
    <3>2. ServicesAreKnown'
      BY <1>t, <2>1, <2>5, <2>7 DEF ServicesAreKnown
    <3> QED
      BY <3>1, <3>2 DEF ServicesAreKept
  <2> QED
    BY <2>8, <2>9, <2>10, <2>11 DEF SvcInv
<1>8. ASSUME NEW x \in Removers, NEW s \in Services, BeginStop(x, s) \/ BeginSweep(x, s)
      PROVE SvcInv'
  <2>1. PICK step \in {"phase", "stop", "sweep"}, since \in {0, clock} :
           remover' = [remover EXCEPT ![x] =
               [Away EXCEPT !.service = s, !.step = step, !.since = since]]
    <3>1. CASE BeginStop(x, s)
      <4>1. PICK step \in {"phase", "stop"} :
               remover' = [remover EXCEPT ![x] = [Away EXCEPT !.service = s, !.step = step]]
        BY <3>1 DEF BeginStop, Remember
      <4>2. [Away EXCEPT !.service = s, !.step = step]
              = [Away EXCEPT !.service = s, !.step = step, !.since = 0]
        BY <1>a DEF CallType
      <4> QED
        BY <4>1, <4>2
    <3>2. CASE BeginSweep(x, s)
      BY <3>2 DEF BeginSweep, Remember
    <3> QED
      BY <1>8, <3>1, <3>2
  <2> DEFINE after == [Away EXCEPT !.service = s, !.step = step, !.since = since]
  <2>2. clock \in Nat
    BY <1>t DEF ServicesTypeOK
  <2>3. after \in CallType /\ after.step = step /\ after.service = s /\ after.since <= clock
    <3>1. since \in Nat /\ since <= clock
      BY <2>2
    <3> QED
      BY <1>a, <3>1 DEF CallType
  <2>4. hash[s].whole /\ UNCHANGED <<clock, graphEnded, starting, leaseAsked, cluster, hash, listed,
                                     extender, granted, abandoned, losses>>
    BY <1>8 DEF BeginStop, BeginSweep
  <2>5. remover' = [remover EXCEPT ![x] = after]
    BY <2>1
  <2> HIDE DEF after
  <2> QED
    BY <1>b, <1>s, <1>t, <2>3, <2>4, <2>5, RemoverMoves DEF ServicesTypeOK
<1>r. ASSUME NEW x \in Removers, NEW step \in {"stop", "expire", "pod", "service", "hash"}
      PROVE  /\ [remover[x] EXCEPT !.step = step] \in CallType
             /\ [remover[x] EXCEPT !.step = step].step = step
             /\ [remover[x] EXCEPT !.step = step].service = remover[x].service
             /\ [remover[x] EXCEPT !.step = step].since = remover[x].since
             /\ remover[x].since <= clock
             /\ remover[x].step # "none" =>
                   Persisted(remover[x].service) /\ remover[x].service \in Services
  BY <1>t DEF ServicesTypeOK, CallType, LeasesInv, CallsInv, RemovalStands, Persisted
<1>9. ASSUME NEW x \in Removers, StopAdvancesPhase(x) \/ StopMarks(x) \/ SweepMarks(x)
      PROVE SvcInv'
  <2> DEFINE s == remover[x].service
  <2>1. PICK step \in {"stop", "pod"} :
           remover' = [remover EXCEPT ![x] = [remover[x] EXCEPT !.step = step]]
    BY <1>9 DEF StopAdvancesPhase, StopMarks, SweepMarks, Mark, Remember
  <2>2. /\ remover[x].step # "none"
        /\ \/ UNCHANGED hash
           \/ \E status \in {"ready", "stopped", "expired"} :
                 hash' = [hash EXCEPT ![s].status = status]
        /\ UNCHANGED <<clock, graphEnded, starting, leaseAsked, cluster, listed, extender,
                       granted, abandoned, losses>>
    BY <1>9 DEF StopAdvancesPhase, StopMarks, SweepMarks, Mark, Ready
  <2>3. s \in Services /\ Persisted(s)
    BY <1>r, <2>2
  <2>4. StatusesMove
    BY <1>b, <1>t, <2>2, <2>3, StatusMoves
  <2> DEFINE after == [remover[x] EXCEPT !.step = step]
  <2>5. /\ after \in CallType /\ after.step = step /\ after.service = s
        /\ after.since = remover[x].since /\ remover[x].since <= clock
    <3>1. step \in {"stop", "expire", "pod", "service", "hash"}
      OBVIOUS
    <3> QED
      BY <1>r, <3>1
  <2>6. after.since <= clock
    BY <2>5
  <2>7. remover' = [remover EXCEPT ![x] = after]
    BY <2>1
  <2> HIDE DEF after, s
  <2> QED
    BY <1>t, <2>2, <2>3, <2>4, <2>5, <2>6, <2>7, RemoverMoves DEF ServicesTypeOK
<1>10. ASSUME NEW x \in Removers, SweepReads(x) PROVE SvcInv'
  <2> DEFINE s == remover[x].service
             after == [remover[x] EXCEPT !.step = "expire"]
  <2>1. /\ remover[x].step = "sweep"
        /\ \/ /\ hash[s].whole /\ hash[s].lease < remover[x].since
              /\ remover' = [remover EXCEPT ![x] = after]
           \/ remover' = [remover EXCEPT ![x] = Away]
        /\ UNCHANGED <<clock, graphEnded, starting, leaseAsked, cluster, hash, listed,
                       extender, granted, abandoned, losses>>
    BY <1>10 DEF SweepReads, Remember
  <2>2. /\ after \in CallType /\ after.step = "expire" /\ after.service = s
        /\ after.since <= clock /\ remover[x].since <= clock /\ s \in Services /\ Persisted(s)
    BY <1>r, <2>1
  <2>3. /\ clock \in Nat /\ granted[s] \in Nat /\ hash[s].lease \in Nat /\ remover[x].since \in Nat
    BY <1>t, <2>2 DEF ServicesTypeOK, HashType, CallType
  <2> HIDE DEF after, s
  <2>4. CASE remover' = [remover EXCEPT ![x] = after] /\ hash[s].whole
                /\ hash[s].lease < remover[x].since
    <3>1. Cardinality(Extenders) = 1 => granted[s] < clock
      BY <1>t, <2>2, <2>3, <2>4 DEF LeasesInv
    <3> QED
      BY <1>b, <1>t, <2>1, <2>2, <2>4, <3>1, RemoverMoves DEF ServicesTypeOK
  <2>5. CASE remover' = [remover EXCEPT ![x] = Away]
    <3>1. Away.since <= clock
      BY <1>a, <2>3
    <3> QED
      BY <1>a, <1>b, <1>t, <2>1, <2>5, <3>1, RemoverMoves DEF ServicesTypeOK
  <2> QED
    BY <2>1, <2>4, <2>5
<1>11. ASSUME NEW x \in Removers, NEW object \in {"pod", "service"}, DeleteObject(x, object)
       PROVE SvcInv'
  <2> DEFINE s == remover[x].service
             step == IF object = "pod" THEN "service" ELSE "hash"
             after == [remover[x] EXCEPT !.step = step]
  <2>1. /\ remover[x].step = object /\ remover' = [remover EXCEPT ![x] = after]
        /\ \/ /\ cluster' = [cluster EXCEPT ![s] = @ \ {object}]
              /\ UNCHANGED <<abandoned, losses>>
           \/ /\ losses < MaxLosses /\ losses' = losses + 1
              /\ abandoned' = abandoned \cup {s} /\ UNCHANGED cluster
        /\ UNCHANGED <<clock, graphEnded, starting, leaseAsked, hash, listed, extender, granted>>
    <3>1. /\ remover[x].step = object /\ NextRemoval(x)
          /\ \/ /\ cluster' = [cluster EXCEPT ![s] = @ \ {object}]
                /\ UNCHANGED <<abandoned, losses>>
             \/ /\ losses < MaxLosses /\ losses' = losses + 1
                /\ abandoned' = abandoned \cup {s} /\ UNCHANGED cluster
          /\ UNCHANGED <<clock, graphEnded, starting, leaseAsked, hash, listed, extender, granted>>
      BY <1>11 DEF DeleteObject, Lose
    <3>2. Removal[object] = step
      BY DEF Removal
    <3>3. remover' = [remover EXCEPT ![x] = after]
      BY <3>1, <3>2 DEF NextRemoval, Remember
    <3> QED
      BY <3>1, <3>3
  <2>2. /\ after \in CallType /\ after.step = step /\ after.service = s
        /\ after.since <= clock /\ s \in Services /\ Persisted(s)
    BY <1>r, <2>1
  <2>3. RemovalStands(remover[x])
    BY <1>t DEF CallsInv
  <2> HIDE DEF after, s
  <2>4. /\ cluster' \in [Services -> SUBSET {"pod", "service"}]
        /\ \A t \in Services : cluster'[t] \subseteq cluster[t]
        /\ object \notin cluster'[s] \/ s \in abandoned'
        /\ abandoned \subseteq abandoned' /\ abandoned' \subseteq Services
        /\ losses' \in 0 .. MaxLosses
    BY <1>t, <2>1, <2>2 DEF ServicesTypeOK
  <2>5. /\ step \in {"service", "hash"} => "pod" \notin cluster'[s] \/ s \in abandoned'
        /\ step = "hash" => "service" \notin cluster'[s] \/ s \in abandoned'
    BY <2>1, <2>2, <2>3, <2>4 DEF RemovalStands, s
  <2> QED
    BY <1>b, <2>1, <2>2, <2>4, <2>5, RemoverMoves
<1>12. ASSUME NEW x \in Removers, DeleteHash(x) PROVE SvcInv'
  <2> DEFINE s == remover[x].service
  <2>1. /\ remover[x].step = "hash" /\ remover' = [remover EXCEPT ![x] = Away]
        /\ hash' = [hash EXCEPT ![s] = NoHash] /\ listed' = listed \ {s}
        /\ UNCHANGED <<clock, graphEnded, starting, leaseAsked, cluster, extender, granted,
                       abandoned, losses>>
    BY <1>12 DEF DeleteHash, NextRemoval, Removal, Remember
  <2>2. s \in Services /\ Persisted(s) /\ RemovalStands(remover[x])
    BY <1>r, <1>t, <2>1 DEF CallsInv
  <2>3. cluster[s] = {} \/ s \in abandoned
    BY <1>t, <2>1, <2>2 DEF RemovalStands, ServicesTypeOK
  <2> HIDE DEF s
  <2>4. /\ \A t \in Services : hash'[t] = IF t = s THEN NoHash ELSE hash[t]
        /\ \A y \in Removers : remover'[y] = IF y = x THEN Away ELSE remover[y]
    BY <1>t, <2>1 DEF ServicesTypeOK
  <2>5. ServicesTypeOK'
    BY <1>a, <1>t, <2>1 DEF ServicesTypeOK
  <2>6. CallsInv'
    <3>1. ASSUME NEW y \in Removers PROVE RemovalStands(remover[y])'
      BY <1>a, <1>t, <2>1, <2>4 DEF CallsInv, RemovalStands, Persisted
    <3>2. \A t \in Services : hash'[t].whole => Persisted(t)'
      BY <1>a, <1>t, <2>1, <2>4 DEF CallsInv, Persisted
    <3>3. \A y \in Extenders : extender[y].step # "none" => Persisted(extender[y].service)'
      BY <1>t, <2>1 DEF CallsInv, Persisted
    <3> QED
      BY <2>1, <3>1, <3>2, <3>3 DEF CallsInv
  <2>7. LeasesInv'
    <3>1. \A y \in Removers : remover'[y].since <= clock
      BY <1>a, <1>t, <2>4 DEF LeasesInv, ServicesTypeOK
    <3>2. ASSUME NEW t \in Services, hash'[t].whole PROVE hash'[t] = hash[t]
      BY <1>a, <2>4, <3>2
    <3>3. ASSUME NEW y \in Extenders, extender[y].step = "write"
          PROVE  extender[y].service \in Services
      BY <1>t, <3>3 DEF CallsInv, Persisted
    <3> QED
      BY <1>t, <2>1, <3>1, <3>2, <3>3 DEF LeasesInv
  <2>8. ServicesAreKept'
    <3>1. LeaseHonouredAlone'
      BY <1>a, <2>1, <2>4 DEF SvcInv, ServicesAreKept, LeaseHonouredAlone, LeaseHonoured
    <3>2. ServicesAreKnown'
      BY <1>t, <2>1, <2>3, <2>4 DEF ServicesAreKnown
    <3> QED
      BY <3>1, <3>2 DEF ServicesAreKept
  <2> QED
    BY <2>5, <2>6, <2>7, <2>8 DEF SvcInv
<1>13. ASSUME NEW x \in Removers, RemoverDies(x) PROVE SvcInv'
  <2>1. /\ remover' = [remover EXCEPT ![x] = Away] /\ losses < MaxLosses /\ losses' = losses + 1
        /\ UNCHANGED <<clock, graphEnded, starting, leaseAsked, cluster, hash, listed, extender,
                       granted, abandoned>>
    BY <1>13 DEF RemoverDies, Remember, Lose
  <2>2. Away.since <= clock /\ losses' \in 0 .. MaxLosses
    BY <1>a, <1>t, <2>1 DEF ServicesTypeOK
  <2> QED
    BY <1>a, <1>b, <1>t, <2>1, <2>2, RemoverMoves DEF ServicesTypeOK
<1>14. CASE EndGraph \/ PassTime
  <2>1. /\ clock' \in {clock, clock + 1} /\ clock' <= MaxTime /\ graphEnded' \in BOOLEAN
        /\ UNCHANGED <<starting, leaseAsked, cluster, hash, listed, extender, remover, granted,
                       abandoned, losses>>
    <3>1. clock \in 1 .. MaxTime /\ graphEnded \in BOOLEAN
      BY <1>t DEF ServicesTypeOK
    <3>2. CASE EndGraph
      BY <3>1, <3>2 DEF EndGraph
    <3>3. CASE PassTime
      BY <3>1, <3>3 DEF PassTime
    <3> QED
      BY <1>14, <3>2, <3>3
  <2>2. ServicesTypeOK'
    BY <1>t, <2>1 DEF ServicesTypeOK
  <2>3. CallsInv'
    BY <1>t, <2>1 DEF CallsInv, RemovalStands, Persisted
  <2>4. \A n \in Int : (n <= clock => n <= clock') /\ (n < clock => n < clock')
    BY <1>t, <2>1 DEF ServicesTypeOK
  <2>5. LeasesInv'
    BY <1>t, <2>1, <2>4 DEF LeasesInv, ServicesTypeOK, CallType
  <2>6. LeaseHonouredAlone'
    <3>1. \A x \in Removers : remover[x].step = "expire" => granted[remover[x].service] \in Int
      BY <1>t DEF CallsInv, RemovalStands, Persisted, ServicesTypeOK
    <3> QED
      BY <2>1, <2>4, <3>1 DEF SvcInv, ServicesAreKept, LeaseHonouredAlone, LeaseHonoured
  <2>7. ServicesAreKnown'
    BY <1>t, <2>1 DEF ServicesAreKnown
  <2> QED
    BY <2>2, <2>3, <2>5, <2>6, <2>7 DEF SvcInv, ServicesAreKept
<1>15. CASE UNCHANGED servicesVars
  <2>1. UNCHANGED <<clock, graphEnded, starting, leaseAsked, cluster, hash, listed, extender,
                    remover, granted, abandoned, losses>>
    BY <1>15 DEF servicesVars
  <2>2. ServicesTypeOK'
    BY <1>t, <2>1 DEF ServicesTypeOK
  <2>3. CallsInv'
    BY <1>t, <2>1 DEF CallsInv, RemovalStands, Persisted
  <2>4. LeasesInv'
    BY <1>t, <2>1 DEF LeasesInv
  <2>5. ServicesAreKept'
    BY <2>1 DEF SvcInv, ServicesAreKept, LeaseHonouredAlone, LeaseHonoured, ServicesAreKnown
  <2> QED
    BY <2>2, <2>3, <2>4, <2>5 DEF SvcInv
<1> QED
  BY <1>1, <1>2, <1>3, <1>4, <1>5, <1>6, <1>7, <1>8, <1>9, <1>10, <1>11, <1>12, <1>13, <1>14, <1>15
  DEF ServicesNext

\* Whatever starts, extensions, stops and sweeps overlap and wherever they are cut short: no sweep
\* takes a service away before the lease it was granted has run out, when extensions come one at a
\* time, and what runs in the cluster has the record by which it is found (test-service-manager.ts).
THEOREM ServicesAreAlwaysKept == ServicesSpec => []ServicesAreKept
<1>1. SvcInv => ServicesAreKept
  BY DEF SvcInv
<1> QED
  BY ServicesInitially, ServicesSteps, <1>1, PTL DEF ServicesSpec


-----------------------------------------------------------------------------
\* Graphs that are edited. As long as no call was late and no running task was renamed, a
\* task that runs has a worker, a task that could start has a call on its way that will start
\* it, and while a merge is on its way the source stays as it was copied.
EditsSpec == EditsInit /\ [][EditsNext]_editVars

Calm == ~late /\ ~readdressed

IsTask(n) == n = Node(n.status, n.deps) /\ n.status \in {"pending", "running", "completed"}

NodesInv ==
    /\ DOMAIN nodes = EditedGraphs
    /\ \A g \in EditedGraphs :
          /\ IsFiniteSet(DOMAIN nodes[g])
          /\ \A t \in DOMAIN nodes[g] :
                IsTask(nodes[g][t]) /\ nodes[g][t].deps \subseteq DOMAIN nodes[g]

\* A call on its way: a task to be written, or written and to be started; or a merge.
IsAdd(c) ==
    /\ c = [of |-> "add", step |-> c.step, graph |-> c.graph, task |-> c.task, deps |-> c.deps]
    /\ c.step \in {"write", "start"} /\ c.graph \in EditedGraphs
    /\ c.deps \subseteq DOMAIN nodes[c.graph]
    /\ c.step = "start" => c.task \in DOMAIN nodes[c.graph]
IsMerge(c) ==
    /\ c = [of |-> "merge", step |-> c.step, copies |-> c.copies, bridge |-> c.bridge]
    /\ c.step \in MergeSteps
RecordsInv ==
    /\ DOMAIN edit = Editors
    /\ \A e \in Editors : edit[e] = NoEdit \/ IsAdd(edit[e]) \/ IsMerge(edit[e])

StatusInv ==
    /\ DOMAIN graphStatus = EditedGraphs
    /\ graphStatus[Target] \in {"active", "completed"}
    /\ graphStatus[Source] \in {"active", "completed", "merged"}
    /\ \A w \in running : w = <<w[1], w[2]>> /\ w[1] \in EditedGraphs

Merges(e) == edit[e].step \in MergeSteps
NamedIn(S) == \A t \in DOMAIN nodes[Source] : \E u \in S : u[1] = t[1]

\* The copies that are to be written are the source's tasks: one that runs has its worker there,
\* one that waits has something to wait for.
CopiesFit(c) ==
    /\ IsFiniteSet(DOMAIN c.copies) /\ NamedIn(DOMAIN c.copies)
    /\ \A p \in c.bridge : p[2] \in DOMAIN c.copies \cup DOMAIN nodes[Target]
    /\ \A t \in DOMAIN c.copies :
          /\ IsTask(c.copies[t]) /\ c.copies[t].deps \subseteq DOMAIN c.copies
          /\ c.copies[t].status = "running" =>
                t \in DOMAIN nodes[Source] /\ nodes[Source][t].status = "running"
          /\ c.copies[t].status = "pending" =>
                \E d \in c.copies[t].deps : c.copies[d].status # "completed"
CopiesWritten(c) ==
    /\ DOMAIN c.copies \subseteq DOMAIN nodes[Target] /\ NamedIn(DOMAIN nodes[Target])
    /\ \A p \in c.bridge : p[2] \in DOMAIN nodes[Target]

MergeInv ==
    /\ \A e \in Editors : Merges(e) =>
          /\ \A d \in Editors : /\ Merges(d) => d = e
                                /\ edit[d].step = "start" => edit[d].graph = Target
          /\ graphStatus[Target] = "active"
          /\ graphStatus[Source] = IF edit[e].step = "dispatch" THEN "merged" ELSE "active"
          /\ IF edit[e].step = "copy" THEN CopiesFit(edit[e]) ELSE CopiesWritten(edit[e])
    /\ graphStatus[Source] = "merged" => NamedIn(DOMAIN nodes[Target])

\* The worker of a running task reports for it, or will when the merge is done.
HasWorker(g, t) ==
    \/ <<g, t>> \in running
    \/ /\ g = Target /\ <<Source, t>> \in running
       /\ \/ graphStatus[Source] = "merged"
          \/ /\ \E e \in Editors : edit[e].step \in {"bridge", "mark"}
             /\ t \in DOMAIN nodes[Source] /\ nodes[Source][t].status = "running"

IsStarting(g, t) ==
    \E e \in Editors : edit[e].step = "start" /\ edit[e].graph = g /\ edit[e].task = t

TasksInv ==
    \A g \in EditedGraphs : graphStatus[g] = "active" =>
        /\ \E t \in DOMAIN nodes[g] : nodes[g][t].status # "completed"
        /\ \A t \in DOMAIN nodes[g] :
              /\ nodes[g][t].status = "running" => HasWorker(g, t)
              /\ nodes[g][t].status = "pending" /\ DepsReady(nodes[g], t) => IsStarting(g, t)

CalmInv == NodesInv /\ RecordsInv /\ StatusInv /\ MergeInv /\ TasksInv
EditsInv == Calm => CalmInv

LEMMA TwoGraphs == EditedGraphs = {Target, Source} /\ Target # Source
BY EditsAssumption DEF EditedGraphs

\* What the helpers make of a graph's tasks.
LEMMA PutIs ==
    ASSUME NEW tasks, NEW new
    PROVE  /\ DOMAIN Put(tasks, new) = DOMAIN tasks \cup DOMAIN new
           /\ \A t \in DOMAIN new : Put(tasks, new)[t] = new[t]
           /\ \A t \in DOMAIN tasks \ DOMAIN new : Put(tasks, new)[t] = tasks[t]
BY DEF Put

LEMMA NodeIs ==
    ASSUME NEW s, NEW D
    PROVE  Node(s, D).status = s /\ Node(s, D).deps = D
BY DEF Node

LEMMA StartedIs ==
    ASSUME NEW tasks, NEW ts \in SUBSET DOMAIN tasks
    PROVE  /\ DOMAIN Started(tasks, ts) = DOMAIN tasks
           /\ \A t \in ts : Started(tasks, ts)[t] = Node("running", tasks[t].deps)
           /\ \A t \in DOMAIN tasks \ ts : Started(tasks, ts)[t] = tasks[t]
<1> DEFINE new == [t \in ts |-> Node("running", tasks[t].deps)]
<1>1. Started(tasks, ts) = Put(tasks, new)
  BY DEF Started
<1>2. DOMAIN new = ts /\ \A t \in ts : new[t] = Node("running", tasks[t].deps)
  OBVIOUS
<1> HIDE DEF new
<1>3. /\ DOMAIN Put(tasks, new) = DOMAIN tasks \cup DOMAIN new
      /\ \A t \in DOMAIN new : Put(tasks, new)[t] = new[t]
      /\ \A t \in DOMAIN tasks \ DOMAIN new : Put(tasks, new)[t] = tasks[t]
  BY PutIs
<1> QED
  BY <1>1, <1>2, <1>3

\* A merge under way is not disturbed by what leaves the source alone.
LEMMA MergeKept ==
    ASSUME MergeInv,
           \A e \in Editors : Merges(e)' => edit'[e] = edit[e],
           \A e \in Editors : Merges(e) => \A d \in Editors :
              edit'[d].step = "start" => edit'[d].graph = Target,
           DOMAIN nodes[Target] \subseteq DOMAIN nodes'[Target],
           (\E e \in Editors : Merges(e)) =>
              nodes'[Source] = nodes[Source] /\ UNCHANGED graphStatus,
           graphStatus'[Source] = "merged" =>
              graphStatus[Source] = "merged" /\ DOMAIN nodes'[Source] = DOMAIN nodes[Source]
    PROVE  MergeInv'
<1>1. graphStatus'[Source] = "merged" => NamedIn(DOMAIN nodes[Target])'
  BY DEF MergeInv, NamedIn
<1>2. ASSUME NEW e \in Editors, Merges(e)'
      PROVE  /\ \A d \in Editors : /\ Merges(d)' => d = e
                                   /\ edit'[d].step = "start" => edit'[d].graph = Target
             /\ graphStatus'[Target] = "active"
             /\ graphStatus'[Source] = IF edit'[e].step = "dispatch" THEN "merged" ELSE "active"
             /\ IF edit'[e].step = "copy" THEN CopiesFit(edit[e])' ELSE CopiesWritten(edit[e])'
  <2>1. edit'[e] = edit[e] /\ Merges(e)
    BY <1>2 DEF Merges
  <2>2. nodes'[Source] = nodes[Source] /\ graphStatus' = graphStatus
    BY <2>1
  <2>3. \A d \in Editors : Merges(d)' => Merges(d)
    BY DEF Merges
  <2>5. NamedIn(DOMAIN nodes[Target]) => NamedIn(DOMAIN nodes[Target])'
    BY <2>2 DEF NamedIn
  <2>6. CopiesFit(edit[e]) => CopiesFit(edit[e])'
    BY <2>1, <2>2 DEF CopiesFit, NamedIn
  <2>7. CopiesWritten(edit[e]) => CopiesWritten(edit[e])'
    BY <2>1, <2>5 DEF CopiesWritten
  <2> QED
    BY <2>1, <2>2, <2>3, <2>6, <2>7 DEF MergeInv
<1> QED
  BY <1>1, <1>2 DEF MergeInv

\* Running tasks keep their workers.
LEMMA WorkersKept ==
    ASSUME running \subseteq running',
           graphStatus[Source] = "merged" => graphStatus'[Source] = "merged",
           (\E e \in Editors : edit[e].step \in {"bridge", "mark"}) =>
              /\ nodes'[Source] = nodes[Source]
              /\ \/ graphStatus'[Source] = "merged"
                 \/ \E e \in Editors : edit'[e].step \in {"bridge", "mark"},
           NEW h, NEW t, HasWorker(h, t)
    PROVE  HasWorker(h, t)'
<1>1. CASE <<h, t>> \in running
  BY <1>1 DEF HasWorker
<1>2. CASE h = Target /\ <<Source, t>> \in running /\ graphStatus[Source] = "merged"
  BY <1>2 DEF HasWorker
<1>3. CASE /\ h = Target /\ <<Source, t>> \in running
           /\ \E e \in Editors : edit[e].step \in {"bridge", "mark"}
           /\ t \in DOMAIN nodes[Source] /\ nodes[Source][t].status = "running"
  BY <1>3 DEF HasWorker
<1> QED
  BY <1>1, <1>2, <1>3 DEF HasWorker

\* A task that is started, or that has been: what it waits on has ended, and nothing else is told.
LEMMA Starting ==
    ASSUME NodesInv, StatusInv, TasksInv,
           NEW g \in EditedGraphs, NEW now \in SUBSET DOMAIN nodes[g],
           \A t \in now : nodes[g][t].status # "completed",
           nodes' = [nodes EXCEPT ![g] = Started(@, now)],
           running' = running \cup {<<g, t>> : t \in now},
           UNCHANGED graphStatus,
           \A e \in Editors : edit[e].step \in {"bridge", "mark"} => edit'[e] = edit[e],
           \A h \in EditedGraphs : \A t \in DOMAIN nodes[h] :
              IsStarting(h, t) /\ (h = g => t \notin now) /\ nodes[h][t].status = "pending"
              /\ DepsReady(nodes[h], t) => IsStarting(h, t)',
           (\E e \in Editors : edit[e].step \in {"bridge", "mark"}) => g = Target
    PROVE  /\ NodesInv' /\ StatusInv' /\ TasksInv'
           /\ \A h \in EditedGraphs : DOMAIN nodes'[h] = DOMAIN nodes[h]
           /\ \A h \in EditedGraphs \ {g} : nodes'[h] = nodes[h]
<1> DEFINE after == Started(nodes[g], now)
<1>1. /\ DOMAIN after = DOMAIN nodes[g]
      /\ \A t \in now : after[t] = Node("running", nodes[g][t].deps)
      /\ \A t \in DOMAIN nodes[g] \ now : after[t] = nodes[g][t]
  BY StartedIs
<1>2. /\ DOMAIN nodes' = EditedGraphs /\ nodes'[g] = after
      /\ \A h \in EditedGraphs \ {g} : nodes'[h] = nodes[h]
  BY DEF NodesInv
<1> HIDE DEF after
<1>3. \A h \in EditedGraphs : DOMAIN nodes'[h] = DOMAIN nodes[h]
  BY <1>1, <1>2
<1>4. \A t \in DOMAIN nodes[g] :
         /\ IsTask(after[t]) /\ after[t].deps = nodes[g][t].deps
         /\ after[t].status = "completed" <=> nodes[g][t].status = "completed"
         /\ t \in now => after[t].status = "running"
         /\ t \notin now => after[t] = nodes[g][t]
  <2> TAKE t \in DOMAIN nodes[g]
  <2>1. CASE t \in now
    BY <1>1, <2>1, NodeIs DEF IsTask
  <2>2. CASE t \notin now
    BY <1>1, <2>2 DEF NodesInv
  <2> QED
    BY <2>1, <2>2
<1>5. NodesInv'
  <2>1. ASSUME NEW h \in EditedGraphs
        PROVE  /\ IsFiniteSet(DOMAIN nodes'[h])
               /\ \A t \in DOMAIN nodes'[h] :
                     IsTask(nodes'[h][t]) /\ nodes'[h][t].deps \subseteq DOMAIN nodes'[h]
    <3>1. CASE h = g
      BY <1>1, <1>2, <1>4, <3>1 DEF NodesInv
    <3>2. CASE h # g
      BY <1>2, <3>2 DEF NodesInv
    <3> QED
      BY <3>1, <3>2
  <2> QED
    BY <1>2, <2>1 DEF NodesInv, IsTask
<1>6. StatusInv'
  <2>1. \A w \in running' : w = <<w[1], w[2]>> /\ w[1] \in EditedGraphs
    BY DEF StatusInv
  <2> QED
    BY <2>1 DEF StatusInv
<1>7. ASSUME NEW h \in EditedGraphs, NEW t, HasWorker(h, t)
      PROVE  HasWorker(h, t)'
  <2>1. (\E e \in Editors : edit[e].step \in {"bridge", "mark"}) =>
           /\ nodes'[Source] = nodes[Source]
           /\ \E e \in Editors : edit'[e].step \in {"bridge", "mark"}
    BY <1>2, TwoGraphs
  <2> QED
    BY <1>7, <2>1, WorkersKept
<1>8. TasksInv'
  <2> SUFFICES ASSUME NEW h \in EditedGraphs, graphStatus'[h] = "active"
               PROVE  /\ \E t \in DOMAIN nodes'[h] : nodes'[h][t].status # "completed"
                      /\ \A t \in DOMAIN nodes'[h] :
                            /\ nodes'[h][t].status = "running" => HasWorker(h, t)'
                            /\ nodes'[h][t].status = "pending" /\ DepsReady(nodes'[h], t)
                                  => IsStarting(h, t)'
    BY DEF TasksInv, DepsReady
  <2>1. \A t \in DOMAIN nodes[h] :
           /\ nodes'[h][t].deps = nodes[h][t].deps
           /\ nodes'[h][t].status = "completed" <=> nodes[h][t].status = "completed"
           /\ h = g /\ t \in now => nodes'[h][t].status = "running"
           /\ ~(h = g /\ t \in now) => nodes'[h][t] = nodes[h][t]
    BY <1>2, <1>4
  <2>2. \E t \in DOMAIN nodes'[h] : nodes'[h][t].status # "completed"
    BY <1>3, <2>1 DEF TasksInv
  <2>3. ASSUME NEW t \in DOMAIN nodes'[h], nodes'[h][t].status = "running"
        PROVE  HasWorker(h, t)'
    <3>1. CASE h = g /\ t \in now
      BY <3>1 DEF HasWorker
    <3>2. CASE ~(h = g /\ t \in now)
      <4>1. nodes[h][t].status = "running" /\ t \in DOMAIN nodes[h]
        BY <1>3, <2>1, <2>3, <3>2
      <4> QED
        BY <1>7, <4>1 DEF TasksInv
    <3> QED
      BY <3>1, <3>2
  <2>4. ASSUME NEW t \in DOMAIN nodes'[h], nodes'[h][t].status = "pending",
               DepsReady(nodes'[h], t)
        PROVE  IsStarting(h, t)'
    <3>1. t \in DOMAIN nodes[h] /\ ~(h = g /\ t \in now) /\ nodes[h][t].status = "pending"
      BY <1>3, <2>1, <2>4
    <3>2. DepsReady(nodes[h], t)
      BY <1>3, <2>1, <2>4, <3>1 DEF DepsReady
    <3>3. IsStarting(h, t)
      BY <3>1, <3>2 DEF TasksInv
    <3> QED
      BY <3>1, <3>2, <3>3
  <2> QED
    BY <2>2, <2>3, <2>4
<1> QED
  BY <1>2, <1>3, <1>5, <1>6, <1>8

\* The kinds of a record.
LEMMA RecordKinds ==
    ASSUME RecordsInv, NEW e \in Editors
    PROVE  /\ edit[e] = NoEdit => edit[e].step = "none"
           /\ edit[e].step = "none" => edit[e] = NoEdit
           /\ edit[e].step \in {"write", "start"} => IsAdd(edit[e])
           /\ Merges(e) => IsMerge(edit[e])
BY DEF RecordsInv, IsAdd, IsMerge, NoEdit, Merges, MergeSteps

LEMMA RecordsKept ==
    ASSUME RecordsInv, NEW e \in Editors, DOMAIN edit' = Editors,
           \A d \in Editors \ {e} : edit'[d] = edit[d],
           edit'[e] = NoEdit \/ IsAdd(edit[e])' \/ IsMerge(edit[e])',
           \A g \in EditedGraphs : DOMAIN nodes[g] \subseteq DOMAIN nodes'[g]
    PROVE  RecordsInv'
<1>1. ASSUME NEW d \in Editors, d # e
      PROVE  edit'[d] = NoEdit \/ IsAdd(edit[d])' \/ IsMerge(edit[d])'
  <2>1. edit'[d] = edit[d]
    BY <1>1
  <2>2. CASE edit[d] = NoEdit
    BY <2>1, <2>2
  <2>3. CASE IsAdd(edit[d])
    BY <2>1, <2>3 DEF IsAdd
  <2>4. CASE IsMerge(edit[d])
    BY <2>1, <2>4 DEF IsMerge
  <2> QED
    BY <2>2, <2>3, <2>4 DEF RecordsInv
<1> QED
  BY <1>1 DEF RecordsInv

LEMMA AddStartSteps ==
    ASSUME CalmInv, NEW e \in Editors, AddStart(e)
    PROVE  CalmInv'
<1> DEFINE c == edit[e]
           g == c.graph
           now == {t \in {c.task} : DepsReady(nodes[g], t)
                                      /\ nodes[g][t].status \in {"pending", "running"}}
<1>1. /\ c.step = "start" /\ nodes' = [nodes EXCEPT ![g] = Started(@, now)]
      /\ running' = running \cup {<<g, t>> : t \in now} /\ edit' = [edit EXCEPT ![e] = NoEdit]
      /\ UNCHANGED graphStatus
  BY DEF AddStart
<1>2. g \in EditedGraphs /\ c.task \in DOMAIN nodes[g]
  BY <1>1, RecordKinds DEF CalmInv, IsAdd
<1>3. now \subseteq DOMAIN nodes[g] /\ \A t \in now : nodes[g][t].status # "completed"
  BY <1>2
<1>4. /\ DOMAIN edit = Editors /\ edit'[e] = NoEdit /\ edit'[e].step = "none"
      /\ \A d \in Editors \ {e} : edit'[d] = edit[d]
  BY <1>1 DEF CalmInv, RecordsInv, NoEdit
<1>5. \A h \in EditedGraphs : \A t \in DOMAIN nodes[h] :
         IsStarting(h, t) /\ (h = g => t \notin now) /\ nodes[h][t].status = "pending"
         /\ DepsReady(nodes[h], t) => IsStarting(h, t)'
  <2> SUFFICES ASSUME NEW h \in EditedGraphs, NEW t \in DOMAIN nodes[h], IsStarting(h, t),
                      h = g => t \notin now, nodes[h][t].status = "pending",
                      DepsReady(nodes[h], t)
               PROVE  IsStarting(h, t)'
    OBVIOUS
  <2>1. ~(h = g /\ t = c.task)
    OBVIOUS
  <2> HIDE DEF now, c
  <2>2. PICK d \in Editors : edit[d].step = "start" /\ edit[d].graph = h /\ edit[d].task = t
    BY DEF IsStarting
  <2>3. d # e
    BY <2>1, <2>2 DEF c
  <2> QED
    BY <1>4, <2>2, <2>3 DEF IsStarting
<1>6. (\E d \in Editors : Merges(d)) => g = Target
  BY <1>1 DEF CalmInv, MergeInv
<1>7. \A d \in Editors : edit[d].step \in {"bridge", "mark"} => edit'[d] = edit[d] /\ Merges(d)
  BY <1>1, <1>4 DEF Merges, MergeSteps
<1> HIDE DEF now
<1>8. /\ NodesInv' /\ StatusInv' /\ TasksInv'
      /\ \A h \in EditedGraphs : DOMAIN nodes'[h] = DOMAIN nodes[h]
      /\ \A h \in EditedGraphs \ {g} : nodes'[h] = nodes[h]
  BY <1>1, <1>2, <1>3, <1>5, <1>6, <1>7, Starting DEF CalmInv
<1>9. RecordsInv'
  <2>1. DOMAIN edit' = Editors
    BY <1>1, <1>4
  <2> QED
    BY <1>4, <1>8, <2>1, RecordsKept DEF CalmInv
<1>10. MergeInv'
  <2>1. \A d \in Editors : Merges(d)' => edit'[d] = edit[d]
    BY <1>4 DEF Merges, MergeSteps
  <2>2. \A b \in Editors : Merges(b) => \A d \in Editors :
           edit'[d].step = "start" => edit'[d].graph = Target
    BY <1>4 DEF CalmInv, MergeInv
  <2> QED
    BY <1>1, <1>6, <1>8, <2>1, <2>2, MergeKept, TwoGraphs DEF CalmInv
<1> QED
  BY <1>8, <1>9, <1>10 DEF CalmInv

LEMMA MergeDispatchSteps ==
    ASSUME CalmInv, NEW e \in Editors, MergeDispatch(e)
    PROVE  CalmInv'
<1> DEFINE free == {t \in DOMAIN edit[e].copies :
                      edit[e].copies[t].status = "pending" /\ DepsReady(nodes[Target], t)}
           now == IF \E t \in free : nodes[Target][t].status = "completed" THEN {} ELSE free
<1>1. /\ edit[e].step = "dispatch" /\ nodes' = [nodes EXCEPT ![Target] = Started(@, now)]
      /\ running' = running \cup {<<Target, t>> : t \in now} /\ edit' = [edit EXCEPT ![e] = NoEdit]
      /\ UNCHANGED graphStatus
  BY DEF MergeDispatch
<1>2. /\ Merges(e) /\ DOMAIN edit[e].copies \subseteq DOMAIN nodes[Target]
      /\ \A d \in Editors : Merges(d) => d = e
  <2>1. Merges(e)
    BY <1>1 DEF Merges, MergeSteps
  <2> QED
    BY <1>1, <2>1 DEF CalmInv, MergeInv, CopiesWritten
<1>3. now \subseteq DOMAIN nodes[Target] /\ \A t \in now : nodes[Target][t].status # "completed"
  <2>1. now \subseteq free /\ \A t \in now : nodes[Target][t].status # "completed"
    OBVIOUS
  <2> QED
    BY <1>2, <2>1
<1> HIDE DEF now
<1>4. /\ DOMAIN edit = Editors /\ edit'[e] = NoEdit /\ edit'[e].step = "none"
      /\ \A d \in Editors \ {e} : edit'[d] = edit[d]
  BY <1>1 DEF CalmInv, RecordsInv, NoEdit
<1>5. \A h, t : IsStarting(h, t) => IsStarting(h, t)'
  BY <1>1, <1>4 DEF IsStarting
<1>6. \A d \in Editors : edit[d].step \notin {"bridge", "mark"}
  BY <1>1, <1>2 DEF Merges, MergeSteps
<1>7. Target \in EditedGraphs
  BY TwoGraphs
<1>8. /\ NodesInv' /\ StatusInv' /\ TasksInv'
      /\ \A h \in EditedGraphs : DOMAIN nodes'[h] = DOMAIN nodes[h]
      /\ \A h \in EditedGraphs \ {Target} : nodes'[h] = nodes[h]
  BY <1>1, <1>3, <1>5, <1>6, <1>7, Starting DEF CalmInv
<1>9. RecordsInv'
  <2>1. DOMAIN edit' = Editors
    BY <1>1, <1>4
  <2> QED
    BY <1>4, <1>8, <2>1, RecordsKept DEF CalmInv
<1>10. MergeInv'
  <2>1. \A d \in Editors : Merges(d)' => edit'[d] = edit[d]
    BY <1>4 DEF Merges, MergeSteps
  <2>2. \A b \in Editors : Merges(b) => \A d \in Editors :
           edit'[d].step = "start" => edit'[d].graph = Target
    BY <1>4 DEF CalmInv, MergeInv
  <2> QED
    BY <1>1, <1>8, <2>1, <2>2, MergeKept, TwoGraphs DEF CalmInv
<1> QED
  BY <1>8, <1>9, <1>10 DEF CalmInv

\* add_task and reject_task begin: what they will do is known in the record only.
LEMMA BeginAddSteps ==
    ASSUME CalmInv, NEW e \in Editors, AddTask(e) \/ RejectTask(e)
    PROVE  CalmInv'
<1>1. /\ edit[e].step = "none" /\ UNCHANGED <<graphStatus, nodes, running>>
      /\ \E c : edit' = [edit EXCEPT ![e] = c] /\ (c = NoEdit \/ (IsAdd(c) /\ c.step = "write"))
  <2>1. ASSUME NEW g \in EditedGraphs, NEW t, NEW deps, CanAdd(g, t, deps)
        PROVE  LET c == [of |-> "add", step |-> "write", graph |-> g, task |-> t, deps |-> deps]
               IN  IsAdd(c) /\ c.step = "write"
    BY <2>1 DEF IsAdd, CanAdd
  <2>2. CASE AddTask(e)
    <3>1. PICK g \in EditedGraphs, t \in NewTasks : \E deps \in SUBSET DOMAIN nodes[g] :
             /\ CanAdd(g, t, deps)
             /\ BeginEdit(e, [of |-> "add", step |-> "write", graph |-> g, task |-> t,
                              deps |-> deps])
      BY <2>2 DEF AddTask
    <3>2. PICK deps : /\ CanAdd(g, t, deps)
                      /\ BeginEdit(e, [of |-> "add", step |-> "write", graph |-> g, task |-> t,
                                       deps |-> deps])
      BY <3>1
    <3> DEFINE c == [of |-> "add", step |-> "write", graph |-> g, task |-> t, deps |-> deps]
    <3>3. IsAdd(c) /\ c.step = "write"
      BY <2>1, <3>2
    <3>4. edit[e].step = "none" /\ edit' = [edit EXCEPT ![e] = c]
      BY <3>2 DEF BeginEdit
    <3> HIDE DEF c
    <3> QED
      BY <2>2, <3>3, <3>4 DEF AddTask
  <2>3. CASE RejectTask(e)
    <3>1. PICK g \in EditedGraphs : \E t \in DOMAIN rejections[g] :
             BeginEdit(e, IF CanAdd(g, <<t[1], GetRejectionCount(g, t) + 1>>, {})
                          THEN [of |-> "add", step |-> "write", graph |-> g,
                                task |-> <<t[1], GetRejectionCount(g, t) + 1>>, deps |-> {}]
                          ELSE NoEdit)
      BY <2>3 DEF RejectTask
    <3>2. PICK t : BeginEdit(e, IF CanAdd(g, t, {})
                                THEN [of |-> "add", step |-> "write", graph |-> g, task |-> t,
                                      deps |-> {}]
                                ELSE NoEdit)
      BY <3>1
    <3> DEFINE c == [of |-> "add", step |-> "write", graph |-> g, task |-> t, deps |-> {}]
    <3>3. CanAdd(g, t, {}) => IsAdd(c) /\ c.step = "write"
      BY <2>1
    <3>4. /\ edit[e].step = "none"
          /\ edit' = [edit EXCEPT ![e] = IF CanAdd(g, t, {}) THEN c ELSE NoEdit]
      BY <3>2 DEF BeginEdit
    <3> HIDE DEF c
    <3> QED
      BY <2>3, <3>3, <3>4 DEF RejectTask
  <2> QED
    BY <2>2, <2>3
<1>2. PICK c : edit' = [edit EXCEPT ![e] = c] /\ (c = NoEdit \/ (IsAdd(c) /\ c.step = "write"))
  BY <1>1
<1>3. c.step \in {"none", "write"} /\ (c = NoEdit \/ IsAdd(c)')
  BY <1>1, <1>2 DEF NoEdit, IsAdd
<1>4. /\ DOMAIN edit' = Editors /\ edit'[e] = c /\ edit'[e].step \in {"none", "write"}
      /\ \A d \in Editors \ {e} : edit'[d] = edit[d]
  BY <1>2, <1>3 DEF CalmInv, RecordsInv
<1>5. RecordsInv'
  <2>1. \A g \in EditedGraphs : DOMAIN nodes[g] \subseteq DOMAIN nodes'[g]
    BY <1>1
  <2>2. edit'[e] = NoEdit \/ IsAdd(edit[e])'
    BY <1>3, <1>4 DEF IsAdd
  <2> QED
    BY <1>4, <2>1, <2>2, RecordsKept DEF CalmInv
<1>6. MergeInv'
  <2>1. \A d \in Editors : Merges(d)' => edit'[d] = edit[d]
    BY <1>4 DEF Merges, MergeSteps
  <2>2. \A b \in Editors : Merges(b) => \A d \in Editors :
           edit'[d].step = "start" => edit'[d].graph = Target
    BY <1>4 DEF CalmInv, MergeInv
  <2> QED
    BY <1>1, <2>1, <2>2, MergeKept DEF CalmInv
<1>7. TasksInv'
  <2>1. ASSUME NEW h \in EditedGraphs, NEW t, HasWorker(h, t) PROVE HasWorker(h, t)'
    <3>1. \A d \in Editors : edit[d].step \in {"bridge", "mark"} => edit'[d] = edit[d]
      BY <1>1, <1>4
    <3> QED
      BY <1>1, <2>1, <3>1, WorkersKept
  <2>2. \A h, t : IsStarting(h, t) => IsStarting(h, t)'
    BY <1>1, <1>4 DEF IsStarting
  <2>3. \A h, t : DepsReady(nodes'[h], t) => DepsReady(nodes[h], t)
    BY <1>1
  <2> QED
    BY <1>1, <2>1, <2>2, <2>3 DEF CalmInv, TasksInv
<1>8. NodesInv' /\ StatusInv'
  BY <1>1 DEF CalmInv, NodesInv, StatusInv, IsTask
<1> QED
  BY <1>5, <1>6, <1>7, <1>8 DEF CalmInv

LEMMA AddWriteSteps ==
    ASSUME CalmInv, NEW e \in Editors, AddWrite(e), ~late'
    PROVE  CalmInv'
<1> DEFINE c == edit[e]
           g == c.graph
           new == [t \in {c.task} |-> Node("pending", c.deps)]
<1>1. /\ c.step = "write" /\ c.of = "add" /\ nodes' = [nodes EXCEPT ![g] = Put(@, new)]
      /\ edit' = [edit EXCEPT ![e].step = "start"] /\ UNCHANGED <<graphStatus, running>>
      /\ late' = (late \/ MakesLate(g, FALSE) \/ graphStatus[g] # "active"
                        \/ c.task \in DOMAIN nodes[g])
  BY DEF AddWrite
<1>2. ~MakesLate(g, FALSE) /\ graphStatus[g] = "active" /\ c.task \notin DOMAIN nodes[g]
  BY <1>1
<1>3. IsAdd(c) /\ g \in EditedGraphs
  BY <1>1, RecordKinds DEF CalmInv, IsAdd
<1>4. /\ DOMAIN Put(nodes[g], new) = DOMAIN nodes[g] \cup {c.task}
      /\ Put(nodes[g], new)[c.task] = Node("pending", c.deps)
      /\ \A t \in DOMAIN nodes[g] : Put(nodes[g], new)[t] = nodes[g][t]
  <2>1. DOMAIN new = {c.task} /\ new[c.task] = Node("pending", c.deps)
    OBVIOUS
  <2> HIDE DEF new, c
  <2>2. /\ DOMAIN Put(nodes[g], new) = DOMAIN nodes[g] \cup DOMAIN new
        /\ \A t \in DOMAIN new : Put(nodes[g], new)[t] = new[t]
        /\ \A t \in DOMAIN nodes[g] \ DOMAIN new : Put(nodes[g], new)[t] = nodes[g][t]
    BY PutIs
  <2> QED
    BY <1>2, <2>1, <2>2 DEF c
<1>5. /\ DOMAIN nodes' = EditedGraphs /\ DOMAIN nodes'[g] = DOMAIN nodes[g] \cup {c.task}
      /\ nodes'[g][c.task] = Node("pending", c.deps)
      /\ \A t \in DOMAIN nodes[g] : nodes'[g][t] = nodes[g][t]
      /\ \A h \in EditedGraphs \ {g} : nodes'[h] = nodes[h]
  <2> HIDE DEF new
  <2> QED
    BY <1>1, <1>3, <1>4 DEF CalmInv, NodesInv
<1>6. /\ edit'[e] = [of |-> "add", step |-> "start", graph |-> g, task |-> c.task, deps |-> c.deps]
      /\ \A d \in Editors \ {e} : edit'[d] = edit[d]
  BY <1>1, <1>3 DEF CalmInv, RecordsInv, IsAdd
<1>c. /\ edit'[e].step = "start" /\ edit'[e].graph = g /\ edit'[e].task = c.task
  BY <1>6
<1>d. c.deps \subseteq DOMAIN nodes[g]
  BY <1>3 DEF IsAdd
<1>7. (\E d \in Editors : Merges(d)) => g = Target
  BY <1>2, <1>3, TwoGraphs DEF MakesLate, Merges
<1>8. \A h \in EditedGraphs : DOMAIN nodes[h] \subseteq DOMAIN nodes'[h]
  BY <1>5
<1>m. edit[e].step # "none" /\ edit[e].step \notin MergeSteps \cup {"start"}
  BY <1>1 DEF MergeSteps
<1>9. NodesInv'
  <2>1. ASSUME NEW h \in EditedGraphs
        PROVE  /\ IsFiniteSet(DOMAIN nodes'[h])
               /\ \A t \in DOMAIN nodes'[h] :
                     IsTask(nodes'[h][t]) /\ nodes'[h][t].deps \subseteq DOMAIN nodes'[h]
    <3>1. CASE h = g
      <4>1. IsFiniteSet(DOMAIN nodes'[g])
        BY <1>3, <1>5, FS_AddElement DEF CalmInv, NodesInv
      <4>2. IsTask(nodes'[g][c.task]) /\ nodes'[g][c.task].deps \subseteq DOMAIN nodes'[g]
        BY <1>5, <1>d, NodeIs DEF IsTask
      <4>3. \A t \in DOMAIN nodes[g] :
               IsTask(nodes'[g][t]) /\ nodes'[g][t].deps \subseteq DOMAIN nodes'[g]
        BY <1>3, <1>5 DEF CalmInv, NodesInv
      <4> HIDE DEF c
      <4> QED
        BY <1>5, <3>1, <4>1, <4>2, <4>3
    <3>2. CASE h # g
      BY <1>5, <3>2 DEF CalmInv, NodesInv
    <3> QED
      BY <3>1, <3>2
  <2> QED
    BY <1>5, <2>1 DEF NodesInv, IsTask
<1>10. StatusInv'
  BY <1>1 DEF CalmInv, StatusInv
<1>11. RecordsInv'
  <2>1. DOMAIN edit' = Editors /\ IsAdd(edit[e])'
    BY <1>1, <1>3, <1>5, <1>6, <1>d DEF IsAdd, CalmInv, RecordsInv
  <2> QED
    BY <1>6, <1>8, <2>1, RecordsKept DEF CalmInv
<1> HIDE DEF c
<1>12. MergeInv'
  <2>1. \A d \in Editors : Merges(d)' => edit'[d] = edit[d]
    BY <1>6, <1>c DEF Merges, MergeSteps
  <2>2. \A b \in Editors : Merges(b) => \A d \in Editors :
           edit'[d].step = "start" => edit'[d].graph = Target
    BY <1>6, <1>7, <1>c DEF CalmInv, MergeInv
  <2>3. /\ (\E d \in Editors : Merges(d)) => nodes'[Source] = nodes[Source]
        /\ graphStatus[Source] = "merged" => nodes'[Source] = nodes[Source]
    BY <1>2, <1>5, <1>7, TwoGraphs
  <2> QED
    BY <1>1, <1>8, <2>1, <2>2, <2>3, MergeKept, TwoGraphs DEF CalmInv
<1>13. TasksInv'
  <2>1. ASSUME NEW h \in EditedGraphs, NEW t, HasWorker(h, t) PROVE HasWorker(h, t)'
    <3>1. \A d \in Editors : edit[d].step \in {"bridge", "mark"} => edit'[d] = edit[d] /\ Merges(d)
      BY <1>6, <1>m DEF Merges, MergeSteps
    <3>2. (\E d \in Editors : Merges(d)) => nodes'[Source] = nodes[Source]
      BY <1>5, <1>7, TwoGraphs
    <3> QED
      BY <1>1, <2>1, <3>1, <3>2, WorkersKept
  <2>2. \A h, t : IsStarting(h, t) => IsStarting(h, t)'
    BY <1>6, <1>m DEF IsStarting
  <2> SUFFICES ASSUME NEW h \in EditedGraphs, graphStatus'[h] = "active"
               PROVE  /\ \E t \in DOMAIN nodes'[h] : nodes'[h][t].status # "completed"
                      /\ \A t \in DOMAIN nodes'[h] :
                            /\ nodes'[h][t].status = "running" => HasWorker(h, t)'
                            /\ nodes'[h][t].status = "pending" /\ DepsReady(nodes'[h], t)
                                  => IsStarting(h, t)'
    BY DEF TasksInv, DepsReady
  <2>3. CASE h # g
    <3>1. nodes'[h] = nodes[h] /\ graphStatus[h] = "active"
      BY <1>1, <1>5, <2>3
    <3> QED
      BY <2>1, <2>2, <3>1 DEF CalmInv, TasksInv
  <2>4. CASE h = g
    <3>x. PICK x : x = c.task
      OBVIOUS
    <3>1. nodes'[h][x].status = "pending" /\ IsStarting(h, x)'
      <4>1. nodes'[h][x].status = "pending"
        BY <1>5, <2>4, <3>x, NodeIs
      <4> QED
        BY <1>c, <2>4, <3>x, <4>1 DEF IsStarting
    <3>2. ASSUME NEW t \in DOMAIN nodes[h]
          PROVE  /\ nodes'[h][t].status = "running" => HasWorker(h, t)'
                 /\ nodes'[h][t].status = "pending" /\ DepsReady(nodes'[h], t)
                       => IsStarting(h, t)'
      <4>1. nodes'[h][t] = nodes[h][t] /\ nodes[h][t].deps \subseteq DOMAIN nodes[h]
        BY <1>5, <2>4 DEF CalmInv, NodesInv
      <4>2. DepsReady(nodes'[h], t) => DepsReady(nodes[h], t)
        BY <1>5, <2>4, <4>1 DEF DepsReady
      <4>3. /\ nodes[h][t].status = "running" => HasWorker(h, t)
            /\ nodes[h][t].status = "pending" /\ DepsReady(nodes[h], t) => IsStarting(h, t)
        BY <1>2, <2>4 DEF CalmInv, TasksInv
      <4> QED
        BY <2>1, <2>2, <4>1, <4>2, <4>3
    <3>3. DOMAIN nodes'[h] = DOMAIN nodes[h] \cup {x}
      BY <1>5, <2>4, <3>x
    <3>4. nodes'[h][x].status # "completed" /\ nodes'[h][x].status # "running"
      BY <3>1
    <3> QED
      BY <3>1, <3>2, <3>3, <3>4
  <2> QED
    BY <2>3, <2>4
<1> QED
  BY <1>9, <1>10, <1>11, <1>12, <1>13 DEF CalmInv

\* What the merge is about to write fits the source: no other call is on its way, so that every
\* task of the source that waits has something to wait for, whose copy has not ended either.
LEMMA MergeGraphsSteps ==
    ASSUME CalmInv, NEW e \in Editors, MergeGraphs(e), ~late', ~readdressed'
    PROVE  CalmInv'
<1> DEFINE S == DOMAIN nodes[Source]
           ours == DOMAIN Copies
           theirs == DOMAIN nodes[Target]
           merge(bridge) == [of |-> "merge", step |-> "copy", copies |-> Copies, bridge |-> bridge]
<1>1. /\ graphStatus[Source] = "active" /\ graphStatus[Target] = "active"
      /\ Cardinality(ours) = Cardinality(S)
      /\ readdressed' = (readdressed \/ \E t \in Renamed : nodes[Source][t].status = "running")
      /\ late' = (late \/ \E d \in Editors \ {e} : edit[d].step # "none")
      /\ UNCHANGED <<graphStatus, nodes, running>>
  BY DEF MergeGraphs
<1>2. PICK bridge \in {{}} \cup Bridges : BeginEdit(e, merge(bridge))
  BY DEF MergeGraphs
<1>3. /\ \A t \in Renamed : nodes[Source][t].status # "running"
      /\ \A d \in Editors : edit[d].step = "none"
  <2>1. edit[e].step = "none"
    BY <1>2 DEF BeginEdit
  <2>2. ~(\E t \in Renamed : nodes[Source][t].status = "running")
    BY <1>1, Zenon
  <2>3. ~(\E d \in Editors \ {e} : edit[d].step # "none")
    BY <1>1, Zenon
  <2> QED
    BY <2>1, <2>2, <2>3
<1>4. edit[e].step = "none" /\ edit' = [edit EXCEPT ![e] = merge(bridge)]
  BY <1>2 DEF BeginEdit
<1>5. \A p \in bridge : p[2] \in ours \cup theirs
  BY <1>2 DEF Bridges
<1>6. /\ IsFiniteSet(S)
      /\ \A t \in S : IsTask(nodes[Source][t]) /\ nodes[Source][t].deps \subseteq S
  BY TwoGraphs DEF CalmInv, NodesInv
<1>7. ours = {NewId(u) : u \in S}
  BY DEF Copies
<1>8. /\ IsFiniteSet(ours)
      /\ \A u, v \in S : NewId(u) = NewId(v) => u = v
  <2> DEFINE f == [u \in S |-> NewId(u)]
  <2>1. f \in Surjection(S, ours)
    BY <1>7 DEF Surjection
  <2>2. \A u \in S : f[u] = NewId(u)
    OBVIOUS
  <2> HIDE DEF f
  <2>3. IsFiniteSet(ours) /\ f \in Injection(S, ours)
    BY <1>1, <1>6, <2>1, FS_Surjection, FS_SurjSameCardinalityImpliesInj
  <2>4. \A u, v \in S : f[u] = f[v] => u = v
    BY <2>3 DEF Injection, IsInjective
  <2> QED
    BY <2>2, <2>3, <2>4
<1>9. \A t \in ours : OldId(t) \in S /\ NewId(OldId(t)) = t
  BY <1>7 DEF OldId
<1>10. \A u \in S : NewId(u) \in ours /\ OldId(NewId(u)) = u
  BY <1>7, <1>8, <1>9
<1>11. \A t \in ours : /\ Copies[t] = Node(Copies[t].status, Copies[t].deps)
                       /\ Copies[t].status = nodes[Source][OldId(t)].status
                       /\ Copies[t].deps = {NewId(d) : d \in nodes[Source][OldId(t)].deps}
  <2>1. \A t \in ours : Copies[t] = Node(nodes[Source][OldId(t)].status,
                                         {NewId(d) : d \in nodes[Source][OldId(t)].deps})
    BY DEF Copies
  <2> TAKE t \in ours
  <2>2. PICK s, D : s = nodes[Source][OldId(t)].status
                    /\ D = {NewId(d) : d \in nodes[Source][OldId(t)].deps}
    OBVIOUS
  <2>3. Copies[t] = Node(s, D)
    BY <2>1, <2>2
  <2>4. Copies[t].status = s /\ Copies[t].deps = D
    BY <2>3, NodeIs
  <2> QED
    BY <2>2, <2>3, <2>4
<1>12. \A u \in S : NewId(u)[1] = u[1] /\ (u \notin Renamed => NewId(u) = u)
  BY DEF NewId
<1>13. ASSUME NEW t \in ours
       PROVE  /\ IsTask(Copies[t]) /\ Copies[t].deps \subseteq ours
              /\ Copies[t].status = "running" => t \in S /\ nodes[Source][t].status = "running"
              /\ Copies[t].status = "pending" =>
                    \E d \in Copies[t].deps : Copies[d].status # "completed"
  <2>1. OldId(t) \in S /\ NewId(OldId(t)) = t
    BY <1>9
  <2>2. IsTask(Copies[t]) /\ Copies[t].deps \subseteq ours
    <3>1. /\ nodes[Source][OldId(t)].status \in {"pending", "running", "completed"}
          /\ nodes[Source][OldId(t)].deps \subseteq S
      BY <1>6, <2>1 DEF IsTask
    <3>2. \A d \in nodes[Source][OldId(t)].deps : NewId(d) \in ours
      BY <1>10, <3>1
    <3>3. Copies[t].deps \subseteq ours
      BY <1>11, <3>2
    <3>4. /\ Copies[t].status = nodes[Source][OldId(t)].status
          /\ Copies[t] = Node(Copies[t].status, Copies[t].deps)
      BY <1>11
    <3> QED
      BY <3>1, <3>2, <3>3, <3>4 DEF IsTask
  <2>3. ASSUME Copies[t].status = "running" PROVE t \in S /\ nodes[Source][t].status = "running"
    BY <1>3, <1>11, <1>12, <2>1, <2>3
  <2>4. ASSUME Copies[t].status = "pending"
        PROVE  \E d \in Copies[t].deps : Copies[d].status # "completed"
    <3>1. nodes[Source][OldId(t)].status = "pending"
      BY <1>11, <2>4
    <3>2. ~DepsReady(nodes[Source], OldId(t))
      <4>1. ~IsStarting(Source, OldId(t))
        BY <1>3 DEF IsStarting
      <4> QED
        BY <1>1, <1>6, <2>1, <3>1, <4>1, TwoGraphs DEF CalmInv, TasksInv
    <3>3. PICK d \in nodes[Source][OldId(t)].deps : nodes[Source][d].status # "completed"
      BY <1>6, <2>1, <3>2 DEF DepsReady
    <3>4. d \in S
      BY <1>6, <2>1, <3>3
    <3>5. NewId(d) \in Copies[t].deps /\ Copies[NewId(d)].status = nodes[Source][d].status
      BY <1>10, <1>11, <3>3, <3>4
    <3> QED
      BY <3>3, <3>5
  <2> QED
    BY <2>2, <2>3, <2>4
<1>14. /\ edit'[e] = merge(bridge) /\ edit'[e].copies = Copies /\ edit'[e].bridge = bridge
       /\ edit'[e].step = "copy" /\ \A d \in Editors \ {e} : edit'[d] = edit[d]
  BY <1>4 DEF CalmInv, RecordsInv
<1>15. RecordsInv'
  <2>1. DOMAIN edit' = Editors /\ IsMerge(edit[e])'
    BY <1>4, <1>14 DEF IsMerge, MergeSteps, CalmInv, RecordsInv
  <2> QED
    BY <1>1, <1>14, <2>1, RecordsKept DEF CalmInv
<1>16. CopiesFit(edit[e])'
  <2>1. \A t \in S : \E u \in ours : u[1] = t[1]
    BY <1>10, <1>12
  <2>2. nodes' = nodes
    BY <1>1
  <2> QED
    <3>1. DOMAIN nodes'[Source] = S /\ DOMAIN nodes'[Target] = theirs
      BY <1>6, <2>2
    <3> QED
      BY <1>5, <1>8, <1>13, <1>14, <2>1, <2>2, <3>1 DEF CopiesFit, NamedIn, IsTask
<1>17. MergeInv'
  <2>1. \A d \in Editors : Merges(d)' => d = e
    BY <1>3, <1>14 DEF Merges, MergeSteps
  <2>2. \A d \in Editors : edit'[d].step # "start"
    BY <1>3, <1>14
  <2> QED
    BY <1>1, <1>14, <1>16, <2>1, <2>2 DEF CalmInv, MergeInv
<1>18. TasksInv'
  <2>1. ASSUME NEW h, NEW t, HasWorker(h, t) PROVE HasWorker(h, t)'
    BY <1>1, <1>3, <2>1, WorkersKept
  <2>2. \A h, t : ~IsStarting(h, t)
    BY <1>3 DEF IsStarting
  <2>3. \A h, t : DepsReady(nodes'[h], t) => DepsReady(nodes[h], t)
    BY <1>1
  <2> QED
    BY <1>1, <2>1, <2>2, <2>3 DEF CalmInv, TasksInv
<1>19. NodesInv' /\ StatusInv'
  BY <1>1 DEF CalmInv, NodesInv, StatusInv, IsTask
<1> QED
  BY <1>15, <1>17, <1>18, <1>19 DEF CalmInv

LEMMA MergeCopySteps ==
    ASSUME CalmInv, NEW e \in Editors, MergeCopy(e), ~late'
    PROVE  CalmInv'
<1> DEFINE c == edit[e]
           copies == c.copies
           tasks == nodes[Target]
<1>1. /\ c.step = "copy" /\ nodes' = [nodes EXCEPT ![Target] = Put(@, copies)]
      /\ edit' = [edit EXCEPT ![e].step = "bridge"] /\ UNCHANGED <<graphStatus, running>>
      /\ late' = (late \/ DOMAIN copies \cap DOMAIN tasks # {})
  BY DEF MergeCopy
<1>2. DOMAIN copies \cap DOMAIN tasks = {}
  BY <1>1
<1>3. /\ Merges(e) /\ IsMerge(c) /\ CopiesFit(c) /\ \A d \in Editors : Merges(d) => d = e
      /\ graphStatus[Target] = "active" /\ graphStatus[Source] = "active"
      /\ \A d \in Editors : edit[d].step = "start" => edit[d].graph = Target
  <2>1. Merges(e)
    BY <1>1 DEF Merges, MergeSteps
  <2> QED
    BY <1>1, <2>1, RecordKinds DEF CalmInv, MergeInv
<1>4. /\ DOMAIN nodes' = EditedGraphs /\ DOMAIN nodes'[Target] = DOMAIN tasks \cup DOMAIN copies
      /\ \A t \in DOMAIN copies : nodes'[Target][t] = copies[t]
      /\ \A t \in DOMAIN tasks : nodes'[Target][t] = tasks[t]
      /\ nodes'[Source] = nodes[Source]
  <2>1. /\ DOMAIN Put(tasks, copies) = DOMAIN tasks \cup DOMAIN copies
        /\ \A t \in DOMAIN copies : Put(tasks, copies)[t] = copies[t]
        /\ \A t \in DOMAIN tasks \ DOMAIN copies : Put(tasks, copies)[t] = tasks[t]
    BY PutIs
  <2>2. /\ DOMAIN nodes' = EditedGraphs /\ nodes'[Target] = Put(tasks, copies)
        /\ nodes'[Source] = nodes[Source]
    BY <1>1, TwoGraphs DEF CalmInv, NodesInv
  <2> HIDE DEF tasks, copies
  <2> QED
    BY <1>2, <2>1, <2>2
<1>5. /\ edit'[e] = [of |-> "merge", step |-> "bridge", copies |-> copies, bridge |-> c.bridge]
      /\ DOMAIN edit' = Editors /\ \A d \in Editors \ {e} : edit'[d] = edit[d]
  BY <1>1, <1>3 DEF CalmInv, RecordsInv, IsMerge
<1>6. edit'[e].step = "bridge" /\ edit'[e].copies = copies /\ edit'[e].bridge = c.bridge
  BY <1>5
<1>7. NodesInv'
  <2>1. IsFiniteSet(DOMAIN nodes'[Target])
    <3>1. IsFiniteSet(DOMAIN tasks) /\ IsFiniteSet(DOMAIN copies)
      BY <1>3, TwoGraphs DEF CalmInv, NodesInv, CopiesFit
    <3> HIDE DEF tasks, copies
    <3> QED
      BY <1>4, <3>1, FS_Union
  <2>2. ASSUME NEW t \in DOMAIN nodes'[Target]
        PROVE  IsTask(nodes'[Target][t]) /\ nodes'[Target][t].deps \subseteq DOMAIN nodes'[Target]
    <3>1. CASE t \in DOMAIN copies
      BY <1>3, <1>4, <3>1 DEF CopiesFit
    <3>2. CASE t \in DOMAIN tasks
      BY <1>4, <3>2, TwoGraphs DEF CalmInv, NodesInv
    <3> QED
      BY <1>4, <3>1, <3>2
  <2>3. /\ IsFiniteSet(DOMAIN nodes'[Source])
        /\ \A t \in DOMAIN nodes'[Source] :
              IsTask(nodes'[Source][t]) /\ nodes'[Source][t].deps \subseteq DOMAIN nodes'[Source]
    BY <1>4, TwoGraphs DEF CalmInv, NodesInv
  <2> QED
    BY <1>4, <2>1, <2>2, <2>3, TwoGraphs DEF NodesInv, IsTask
<1>8. StatusInv'
  BY <1>1 DEF CalmInv, StatusInv
<1>9. RecordsInv'
  <2>1. IsMerge(edit[e])'
    BY <1>5, <1>6 DEF IsMerge, MergeSteps
  <2>2. \A h \in EditedGraphs : DOMAIN nodes[h] \subseteq DOMAIN nodes'[h]
    BY <1>4, TwoGraphs
  <2> QED
    BY <1>5, <2>1, <2>2, RecordsKept DEF CalmInv
<1>10. MergeInv'
  <2>1. CopiesWritten(edit[e])'
    BY <1>3, <1>4, <1>6 DEF CopiesFit, CopiesWritten, NamedIn
  <2>2. \A d \in Editors : /\ Merges(d)' => d = e
                           /\ edit'[d].step = "start" => edit'[d].graph = Target
    BY <1>3, <1>5, <1>6 DEF Merges
  <2> QED
    BY <1>1, <1>3, <1>6, <2>1, <2>2 DEF MergeInv
<1>11. TasksInv'
  <2>1. ASSUME NEW h \in EditedGraphs, NEW t, HasWorker(h, t) PROVE HasWorker(h, t)'
    <3>1. \A d \in Editors : edit[d].step \notin {"bridge", "mark"}
      BY <1>1, <1>3 DEF Merges, MergeSteps
    <3> QED
      BY <1>1, <2>1, <3>1, WorkersKept
  <2>2. \A h, t : IsStarting(h, t) => IsStarting(h, t)'
    BY <1>1, <1>5 DEF IsStarting
  <2>3. /\ \E t \in DOMAIN tasks : tasks[t].status # "completed"
        /\ \A t \in DOMAIN tasks :
              /\ tasks[t].status = "running" => HasWorker(Target, t)
              /\ tasks[t].status = "pending" /\ DepsReady(tasks, t) => IsStarting(Target, t)
    BY <1>3, TwoGraphs DEF CalmInv, TasksInv
  <2>4. ASSUME NEW t \in DOMAIN tasks
        PROVE  /\ nodes'[Target][t].status = "running" => HasWorker(Target, t)'
               /\ nodes'[Target][t].status = "pending" /\ DepsReady(nodes'[Target], t)
                     => IsStarting(Target, t)'
    <3>1. tasks[t].deps \subseteq DOMAIN tasks
      BY TwoGraphs DEF CalmInv, NodesInv
    <3>2. DepsReady(nodes'[Target], t) => DepsReady(tasks, t)
      BY <1>4, <3>1 DEF DepsReady
    <3> QED
      BY <1>4, <2>1, <2>2, <2>3, <3>2, TwoGraphs
  <2>5. ASSUME NEW t \in DOMAIN copies
        PROVE  /\ nodes'[Target][t].status = "running" => HasWorker(Target, t)'
               /\ nodes'[Target][t].status = "pending" => ~DepsReady(nodes'[Target], t)
    <3>1. ASSUME copies[t].status = "running" PROVE HasWorker(Target, t)'
      <4>1. t \in DOMAIN nodes[Source] /\ nodes[Source][t].status = "running"
        BY <1>3, <3>1 DEF CopiesFit
      <4>2. HasWorker(Source, t)
        BY <1>3, <4>1, TwoGraphs DEF CalmInv, TasksInv
      <4>3. <<Source, t>> \in running
        BY <4>2, TwoGraphs DEF HasWorker
      <4> QED
        BY <1>1, <1>4, <1>6, <4>1, <4>3 DEF HasWorker
    <3>2. ASSUME copies[t].status = "pending" PROVE ~DepsReady(nodes'[Target], t)
      <4>1. PICK d \in copies[t].deps : copies[d].status # "completed"
        BY <1>3, <3>2 DEF CopiesFit
      <4>2. d \in DOMAIN copies
        BY <1>3, <4>1 DEF CopiesFit
      <4> QED
        BY <1>4, <4>1, <4>2 DEF DepsReady
    <3> QED
      BY <1>4, <3>1, <3>2
  <2>6. /\ \E t \in DOMAIN nodes'[Target] : nodes'[Target][t].status # "completed"
        /\ \A t \in DOMAIN nodes'[Target] :
              /\ nodes'[Target][t].status = "running" => HasWorker(Target, t)'
              /\ nodes'[Target][t].status = "pending" /\ DepsReady(nodes'[Target], t)
                    => IsStarting(Target, t)'
    BY <1>4, <2>3, <2>4, <2>5
  <2>7. /\ \E t \in DOMAIN nodes'[Source] : nodes'[Source][t].status # "completed"
        /\ \A t \in DOMAIN nodes'[Source] :
              /\ nodes'[Source][t].status = "running" => HasWorker(Source, t)'
              /\ nodes'[Source][t].status = "pending" /\ DepsReady(nodes'[Source], t)
                    => IsStarting(Source, t)'
    BY <1>3, <1>4, <2>1, <2>2, TwoGraphs DEF CalmInv, TasksInv
  <2> QED
    BY <2>6, <2>7, TwoGraphs DEF TasksInv, DepsReady
<1> QED
  BY <1>7, <1>8, <1>9, <1>10, <1>11 DEF CalmInv

LEMMA MergeBridgeSteps ==
    ASSUME CalmInv, NEW e \in Editors, MergeBridge(e)
    PROVE  CalmInv'
<1> DEFINE c == edit[e]
           tasks == nodes[Target]
           more(t) == {p[2] : p \in {q \in c.bridge : q[1] = t}}
<1>1. /\ c.step = "bridge" /\ edit' = [edit EXCEPT ![e].step = "mark"]
      /\ nodes' = [nodes EXCEPT ![Target] = Bridged(@, c.bridge)]
      /\ UNCHANGED <<graphStatus, running>>
  BY DEF MergeBridge
<1>2. /\ Merges(e) /\ IsMerge(c) /\ CopiesWritten(c) /\ \A d \in Editors : Merges(d) => d = e
      /\ graphStatus[Target] = "active" /\ graphStatus[Source] = "active"
      /\ \A d \in Editors : edit[d].step = "start" => edit[d].graph = Target
  <2>1. Merges(e)
    BY <1>1 DEF Merges, MergeSteps
  <2> QED
    BY <1>1, <2>1, RecordKinds DEF CalmInv, MergeInv
<1>3. /\ edit'[e] = [of |-> "merge", step |-> "mark", copies |-> c.copies, bridge |-> c.bridge]
      /\ DOMAIN edit' = Editors /\ \A d \in Editors \ {e} : edit'[d] = edit[d]
  BY <1>1, <1>2 DEF CalmInv, RecordsInv, IsMerge
<1>4. edit'[e].step = "mark" /\ edit'[e].copies = c.copies /\ edit'[e].bridge = c.bridge
  BY <1>3
<1>5. \A t : more(t) \subseteq DOMAIN tasks
  BY <1>2 DEF CopiesWritten
<1>b. Bridged(tasks, c.bridge) = [t \in DOMAIN tasks |-> [tasks[t] EXCEPT !.deps = @ \cup more(t)]]
  BY DEF Bridged
<1> HIDE DEF more
<1>6. /\ DOMAIN nodes' = EditedGraphs /\ DOMAIN nodes'[Target] = DOMAIN tasks
      /\ \A t \in DOMAIN tasks :
            nodes'[Target][t] = Node(tasks[t].status, tasks[t].deps \cup more(t))
      /\ nodes'[Source] = nodes[Source]
  <2>1. /\ DOMAIN nodes' = EditedGraphs
        /\ nodes'[Target] = [t \in DOMAIN tasks |-> [tasks[t] EXCEPT !.deps = @ \cup more(t)]]
        /\ nodes'[Source] = nodes[Source]
    <3>1. /\ DOMAIN nodes' = EditedGraphs /\ nodes'[Target] = Bridged(tasks, c.bridge)
          /\ nodes'[Source] = nodes[Source]
      BY <1>1, TwoGraphs DEF CalmInv, NodesInv
    <3> QED
      BY <1>b, <3>1
  <2>2. ASSUME NEW t \in DOMAIN tasks
        PROVE  [tasks[t] EXCEPT !.deps = @ \cup more(t)]
                  = Node(tasks[t].status, tasks[t].deps \cup more(t))
    <3>1. tasks[t] = [status |-> tasks[t].status, deps |-> tasks[t].deps]
      BY TwoGraphs DEF CalmInv, NodesInv, IsTask, Node
    <3> HIDE DEF tasks
    <3> QED
      BY <3>1 DEF Node
  <2> QED
    BY <2>1, <2>2
<1>7. \A t \in DOMAIN tasks : /\ nodes'[Target][t].status = tasks[t].status
                             /\ nodes'[Target][t].deps = tasks[t].deps \cup more(t)
  <2> TAKE t \in DOMAIN tasks
  <2>1. PICK s, D : s = tasks[t].status /\ D = tasks[t].deps \cup more(t)
    OBVIOUS
  <2>2. nodes'[Target][t] = Node(s, D)
    BY <1>6, <2>1
  <2> QED
    BY <2>1, <2>2, NodeIs
<1>8. \A h \in EditedGraphs : DOMAIN nodes'[h] = DOMAIN nodes[h]
  BY <1>6, TwoGraphs
<1>9. NodesInv'
  <2>1. ASSUME NEW t \in DOMAIN nodes'[Target]
        PROVE  IsTask(nodes'[Target][t]) /\ nodes'[Target][t].deps \subseteq DOMAIN nodes'[Target]
    <3>1. IsTask(tasks[t]) /\ tasks[t].deps \subseteq DOMAIN tasks
      BY <1>6, TwoGraphs DEF CalmInv, NodesInv
    <3> QED
      BY <1>5, <1>6, <1>7, <3>1 DEF IsTask
  <2>2. /\ IsFiniteSet(DOMAIN nodes'[Source]) /\ IsFiniteSet(DOMAIN nodes'[Target])
        /\ \A t \in DOMAIN nodes'[Source] :
              IsTask(nodes'[Source][t]) /\ nodes'[Source][t].deps \subseteq DOMAIN nodes'[Source]
    BY <1>6, TwoGraphs DEF CalmInv, NodesInv
  <2> QED
    BY <1>6, <2>1, <2>2, TwoGraphs DEF NodesInv, IsTask
<1>10. StatusInv'
  BY <1>1 DEF CalmInv, StatusInv
<1>11. RecordsInv'
  <2>1. IsMerge(edit[e])'
    BY <1>3, <1>4 DEF IsMerge, MergeSteps
  <2> QED
    BY <1>3, <1>8, <2>1, RecordsKept DEF CalmInv
<1>12. MergeInv'
  <2>1. CopiesWritten(edit[e])'
    BY <1>2, <1>4, <1>6 DEF CopiesWritten, NamedIn
  <2>2. \A d \in Editors : /\ Merges(d)' => d = e
                           /\ edit'[d].step = "start" => edit'[d].graph = Target
    BY <1>2, <1>3, <1>4 DEF Merges
  <2> QED
    BY <1>1, <1>2, <1>4, <2>1, <2>2 DEF MergeInv
<1>13. TasksInv'
  <2>1. ASSUME NEW h \in EditedGraphs, NEW t, HasWorker(h, t) PROVE HasWorker(h, t)'
    BY <1>1, <1>4, <1>6, <2>1, WorkersKept
  <2>2. \A h, t : IsStarting(h, t) => IsStarting(h, t)'
    BY <1>1, <1>3 DEF IsStarting
  <2>3. ASSUME NEW h \in EditedGraphs, NEW t \in DOMAIN nodes[h]
        PROVE  /\ nodes'[h][t].status = nodes[h][t].status
               /\ DepsReady(nodes'[h], t) => DepsReady(nodes[h], t)
    <3>1. CASE h = Source
      BY <1>6, <3>1
    <3>2. CASE h = Target
      BY <1>6, <1>7, <3>2 DEF DepsReady
    <3> QED
      BY <3>1, <3>2, TwoGraphs
  <2> SUFFICES ASSUME NEW h \in EditedGraphs, graphStatus'[h] = "active"
               PROVE  /\ \E t \in DOMAIN nodes'[h] : nodes'[h][t].status # "completed"
                      /\ \A t \in DOMAIN nodes'[h] :
                            /\ nodes'[h][t].status = "running" => HasWorker(h, t)'
                            /\ nodes'[h][t].status = "pending" /\ DepsReady(nodes'[h], t)
                                  => IsStarting(h, t)'
    BY DEF TasksInv, DepsReady
  <2>4. /\ \E t \in DOMAIN nodes[h] : nodes[h][t].status # "completed"
        /\ \A t \in DOMAIN nodes[h] :
              /\ nodes[h][t].status = "running" => HasWorker(h, t)
              /\ nodes[h][t].status = "pending" /\ DepsReady(nodes[h], t) => IsStarting(h, t)
    BY <1>1 DEF CalmInv, TasksInv
  <2> QED
    BY <1>8, <2>1, <2>2, <2>3, <2>4
<1> QED
  BY <1>9, <1>10, <1>11, <1>12, <1>13 DEF CalmInv

LEMMA MergeMarkSteps ==
    ASSUME CalmInv, NEW e \in Editors, MergeMark(e)
    PROVE  CalmInv'
<1> DEFINE c == edit[e]
<1>1. /\ c.step = "mark" /\ edit' = [edit EXCEPT ![e].step = "dispatch"]
      /\ graphStatus' = [graphStatus EXCEPT ![Source] = "merged"] /\ UNCHANGED <<nodes, running>>
  BY DEF MergeMark
<1>2. /\ Merges(e) /\ IsMerge(c) /\ CopiesWritten(c) /\ \A d \in Editors : Merges(d) => d = e
      /\ graphStatus[Target] = "active"
      /\ \A d \in Editors : edit[d].step = "start" => edit[d].graph = Target
  <2>1. Merges(e)
    BY <1>1 DEF Merges, MergeSteps
  <2> QED
    BY <1>1, <2>1, RecordKinds DEF CalmInv, MergeInv
<1>3. /\ edit'[e] = [of |-> "merge", step |-> "dispatch", copies |-> c.copies, bridge |-> c.bridge]
      /\ DOMAIN edit' = Editors /\ \A d \in Editors \ {e} : edit'[d] = edit[d]
  BY <1>1, <1>2 DEF CalmInv, RecordsInv, IsMerge
<1>4. edit'[e].step = "dispatch" /\ edit'[e].copies = c.copies /\ edit'[e].bridge = c.bridge
  BY <1>3
<1>5. /\ DOMAIN graphStatus' = EditedGraphs /\ graphStatus'[Source] = "merged"
      /\ graphStatus'[Target] = graphStatus[Target]
  BY <1>1, TwoGraphs DEF CalmInv, StatusInv
<1>6. NodesInv' /\ StatusInv'
  BY <1>1, <1>5 DEF CalmInv, NodesInv, StatusInv, IsTask
<1>7. RecordsInv'
  <2>1. IsMerge(edit[e])'
    BY <1>3, <1>4 DEF IsMerge, MergeSteps
  <2> QED
    BY <1>1, <1>3, <2>1, RecordsKept DEF CalmInv
<1>8. MergeInv'
  <2>1. CopiesWritten(edit[e])' /\ NamedIn(DOMAIN nodes[Target])'
    BY <1>1, <1>2, <1>4 DEF CopiesWritten, NamedIn
  <2>2. \A d \in Editors : /\ Merges(d)' => d = e
                           /\ edit'[d].step = "start" => edit'[d].graph = Target
    BY <1>2, <1>3, <1>4 DEF Merges
  <2> QED
    BY <1>2, <1>4, <1>5, <2>1, <2>2 DEF MergeInv
<1>9. TasksInv'
  <2>1. ASSUME NEW t, HasWorker(Target, t) PROVE HasWorker(Target, t)'
    BY <1>1, <1>5, <2>1, WorkersKept
  <2>2. \A t : IsStarting(Target, t) => IsStarting(Target, t)'
    BY <1>1, <1>3 DEF IsStarting
  <2>3. \A t : DepsReady(nodes'[Target], t) => DepsReady(nodes[Target], t)
    BY <1>1
  <2>4. /\ \E t \in DOMAIN nodes[Target] : nodes[Target][t].status # "completed"
        /\ \A t \in DOMAIN nodes[Target] :
              /\ nodes[Target][t].status = "running" => HasWorker(Target, t)
              /\ nodes[Target][t].status = "pending" /\ DepsReady(nodes[Target], t)
                    => IsStarting(Target, t)
    BY <1>2, TwoGraphs DEF CalmInv, TasksInv
  <2> SUFFICES /\ \E t \in DOMAIN nodes'[Target] : nodes'[Target][t].status # "completed"
               /\ \A t \in DOMAIN nodes'[Target] :
                     /\ nodes'[Target][t].status = "running" => HasWorker(Target, t)'
                     /\ nodes'[Target][t].status = "pending" /\ DepsReady(nodes'[Target], t)
                           => IsStarting(Target, t)'
    BY <1>5, TwoGraphs DEF TasksInv, DepsReady
  <2> QED
    BY <1>1, <2>1, <2>2, <2>3, <2>4
<1> QED
  BY <1>6, <1>7, <1>8, <1>9 DEF CalmInv

LEMMA ReportSteps ==
    ASSUME CalmInv, NEW w \in running, OnTaskCompleted(w), ~late'
    PROVE  CalmInv'
<1>1. PICK g, t : /\ g \in EditedGraphs /\ g = AddressOf(w)[1] /\ t = AddressOf(w)[2]
                  /\ \/ w = <<g, t>>
                     \/ w = <<Source, t>> /\ g = Target /\ graphStatus[Source] = "merged"
                  /\ graphStatus[g] # "merged"
  <2>1. w = <<w[1], w[2]>> /\ w[1] \in {Target, Source}
    BY TwoGraphs DEF CalmInv, StatusInv
  <2>2. graphStatus[Target] # "merged"
    BY DEF CalmInv, StatusInv
  <2>3. CASE graphStatus[w[1]] = "merged"
    <3>1. w[1] = Source /\ AddressOf(w) = <<Target, w[2]>>
      BY <2>1, <2>2, <2>3 DEF AddressOf
    <3> QED
      BY <2>1, <2>2, <2>3, <3>1, TwoGraphs
  <2>4. CASE graphStatus[w[1]] # "merged"
    BY <2>1, <2>4, TwoGraphs DEF AddressOf
  <2> QED
    BY <2>3, <2>4
<1> DEFINE tasks == nodes[g]
           ended == Reported(tasks, t)
           next == Unblocked(ended, t)
           after == Started(ended, next)
           ends == \A u \in DOMAIN after : after[u].status = "completed"
<1>2. /\ UNCHANGED edit
      /\ \/ /\ t \notin DOMAIN tasks \/ tasks[t].status = "completed"
            /\ running' = running \ {w} /\ UNCHANGED <<graphStatus, nodes>>
         \/ /\ t \in DOMAIN tasks
            /\ nodes' = [nodes EXCEPT ![g] = after]
            /\ running' = (running \ {w}) \cup {<<g, u>> : u \in next}
            /\ graphStatus' = IF ends /\ graphStatus[g] = "active"
                              THEN [graphStatus EXCEPT ![g] = "completed"] ELSE graphStatus
            /\ ~MakesLate(g, ends)
  <2> HIDE DEF after, ends, next
  <2>1. CASE t \notin DOMAIN tasks \/ tasks[t].status = "completed"
    BY <1>1, <2>1 DEF OnTaskCompleted
  <2>2. CASE ~(t \notin DOMAIN tasks \/ tasks[t].status = "completed")
    <3>1. /\ nodes' = [nodes EXCEPT ![g] = after]
          /\ running' = (running \ {w}) \cup {<<g, u>> : u \in next}
          /\ graphStatus' = IF ends /\ graphStatus[g] = "active"
                            THEN [graphStatus EXCEPT ![g] = "completed"] ELSE graphStatus
          /\ late' = (late \/ MakesLate(g, ends)) /\ UNCHANGED edit
      BY <1>1, <2>2 DEF OnTaskCompleted, ends, after, next
    <3> QED
      BY <2>2, <3>1
  <2> QED
    BY <2>1, <2>2
<1>3. CASE /\ t \notin DOMAIN tasks \/ tasks[t].status = "completed"
           /\ running' = running \ {w} /\ UNCHANGED <<graphStatus, nodes>>
  <2>1. NodesInv' /\ RecordsInv' /\ MergeInv'
    BY <1>2, <1>3 DEF CalmInv, NodesInv, RecordsInv, MergeInv, IsTask, IsAdd, IsMerge, Merges,
                      CopiesFit, CopiesWritten, NamedIn
  <2>2. StatusInv'
    BY <1>3 DEF CalmInv, StatusInv
  <2>3. ASSUME NEW h \in EditedGraphs, NEW u \in DOMAIN nodes[h], graphStatus[h] = "active",
               nodes[h][u].status = "running"
        PROVE  HasWorker(h, u)'
    <3>1. HasWorker(h, u)
      BY <2>3 DEF CalmInv, TasksInv
    <3>2. CASE <<h, u>> \in running
      <4>1. <<h, u>> # w
        BY <1>1, <1>3, <2>3, TwoGraphs
      <4> QED
        BY <1>3, <3>2, <4>1 DEF HasWorker
    <3>3. CASE h = Target /\ <<Source, u>> \in running /\ graphStatus[Source] = "merged"
      <4>1. <<Source, u>> # w
        BY <1>1, <1>3, <2>3, <3>3, TwoGraphs
      <4> QED
        BY <1>3, <3>3, <4>1 DEF HasWorker
    <3>4. CASE /\ h = Target /\ <<Source, u>> \in running
               /\ \E e \in Editors : edit[e].step \in {"bridge", "mark"}
               /\ u \in DOMAIN nodes[Source] /\ nodes[Source][u].status = "running"
      <4>1. graphStatus[Source] = "active"
        BY <3>4 DEF CalmInv, MergeInv, Merges, MergeSteps
      <4>2. <<Source, u>> # w
        BY <1>1, <1>3, <3>4, <4>1, TwoGraphs
      <4> QED
        BY <1>2, <1>3, <3>4, <4>2 DEF HasWorker
    <3> QED
      BY <3>1, <3>2, <3>3, <3>4 DEF HasWorker
  <2>4. \A h, u : IsStarting(h, u) => IsStarting(h, u)'
    BY <1>2 DEF IsStarting
  <2>5. \A h, u : DepsReady(nodes'[h], u) => DepsReady(nodes[h], u)
    BY <1>3
  <2>6. TasksInv'
    BY <1>3, <2>3, <2>4, <2>5 DEF CalmInv, TasksInv
  <2> QED
    BY <2>1, <2>2, <2>6 DEF CalmInv
<1>4. CASE /\ t \in DOMAIN tasks
           /\ nodes' = [nodes EXCEPT ![g] = after]
           /\ running' = (running \ {w}) \cup {<<g, u>> : u \in next}
           /\ graphStatus' = IF ends /\ graphStatus[g] = "active"
                             THEN [graphStatus EXCEPT ![g] = "completed"] ELSE graphStatus
           /\ ~MakesLate(g, ends)
  <2>1. /\ DOMAIN ended = DOMAIN tasks /\ ended[t] = Node("completed", tasks[t].deps)
        /\ \A u \in DOMAIN tasks \ {t} : ended[u] = tasks[u]
    <3> DEFINE new == [u \in {t} |-> Node("completed", tasks[t].deps)]
    <3>1. /\ ended = Put(tasks, new) /\ DOMAIN new = {t}
          /\ new[t] = Node("completed", tasks[t].deps)
      BY DEF Reported
    <3>2. /\ DOMAIN Put(tasks, new) = DOMAIN tasks \cup DOMAIN new
          /\ \A u \in DOMAIN new : Put(tasks, new)[u] = new[u]
          /\ \A u \in DOMAIN tasks \ DOMAIN new : Put(tasks, new)[u] = tasks[u]
      BY PutIs
    <3> HIDE DEF new, ended
    <3> QED
      BY <1>4, <3>1, <3>2
  <2>2. ended[t].status = "completed" /\ ended[t].deps = tasks[t].deps
    BY <2>1, NodeIs
  <2> HIDE DEF ended
  <2>3. \A u : u \in next <=> /\ u \in DOMAIN tasks /\ u # t /\ tasks[u].status = "pending"
                            /\ t \in tasks[u].deps /\ DepsReady(ended, u)
    BY <2>1, <2>2 DEF Unblocked
  <2> HIDE DEF next
  <2>4. /\ DOMAIN after = DOMAIN tasks
        /\ \A u \in next : after[u] = Node("running", ended[u].deps)
        /\ \A u \in DOMAIN tasks \ next : after[u] = ended[u]
    <3>1. next \subseteq DOMAIN ended
      BY <2>1, <2>3
    <3> QED
      BY <2>1, <3>1, StartedIs
  <2> HIDE DEF after
  <2>5. \A u \in DOMAIN tasks : IsTask(tasks[u]) /\ tasks[u].deps \subseteq DOMAIN tasks
    BY <1>1 DEF CalmInv, NodesInv
  <2>6. ASSUME NEW u \in DOMAIN tasks
        PROVE  /\ IsTask(after[u]) /\ after[u].deps = tasks[u].deps
               /\ after[u].status = "completed" <=> u = t \/ tasks[u].status = "completed"
               /\ u \in next => after[u].status = "running"
               /\ u \notin next /\ u # t => after[u] = tasks[u]
    <3>1. CASE u \in next
      BY <2>1, <2>3, <2>4, <3>1, NodeIs DEF IsTask
    <3>2. CASE u = t
      BY <2>1, <2>2, <2>3, <2>4, <3>2 DEF IsTask
    <3>3. CASE u \notin next /\ u # t
      BY <2>1, <2>4, <2>5, <3>3
    <3> QED
      BY <3>1, <3>2, <3>3
  <2>7. /\ DOMAIN nodes' = EditedGraphs /\ nodes'[g] = after
        /\ \A h \in EditedGraphs \ {g} : nodes'[h] = nodes[h]
    BY <1>1, <1>4 DEF CalmInv, NodesInv
  <2>8. \A h \in EditedGraphs : DOMAIN nodes'[h] = DOMAIN nodes[h]
    BY <2>4, <2>7
  <2>9. /\ DOMAIN graphStatus' = EditedGraphs
        /\ \A h \in EditedGraphs : graphStatus'[h] = graphStatus[h]
                                  \/ (h = g /\ ends /\ graphStatus[g] = "active"
                                        /\ graphStatus'[h] = "completed")
        /\ ~ends => graphStatus' = graphStatus
        /\ ends /\ graphStatus[g] = "active" => graphStatus'[g] = "completed"
    <3> HIDE DEF ends
    <3> QED
      BY <1>1, <1>4 DEF CalmInv, StatusInv
  <2>10. (\E e \in Editors : Merges(e)) => g = Target /\ ~ends
    <3> HIDE DEF ends
    <3> QED
      BY <1>1, <1>4, TwoGraphs DEF MakesLate, Merges
  <2>11. NodesInv'
    <3>1. ASSUME NEW h \in EditedGraphs
          PROVE  /\ IsFiniteSet(DOMAIN nodes'[h])
                 /\ \A u \in DOMAIN nodes'[h] :
                       IsTask(nodes'[h][u]) /\ nodes'[h][u].deps \subseteq DOMAIN nodes'[h]
      <4>1. CASE h = g
        BY <2>4, <2>5, <2>6, <2>7, <4>1 DEF CalmInv, NodesInv
      <4>2. CASE h # g
        BY <2>7, <4>2 DEF CalmInv, NodesInv
      <4> QED
        BY <4>1, <4>2
    <3> QED
      BY <2>7, <3>1 DEF NodesInv, IsTask
  <2>12. StatusInv'
    <3>1. \A v \in running' : v = <<v[1], v[2]>> /\ v[1] \in EditedGraphs
      BY <1>1, <1>4 DEF CalmInv, StatusInv
    <3> QED
      BY <2>9, <3>1, TwoGraphs DEF CalmInv, StatusInv
  <2>13. RecordsInv'
    BY <1>2, <2>8 DEF CalmInv, RecordsInv, IsAdd, IsMerge
  <2>14. MergeInv'
    <3>1. (\E e \in Editors : Merges(e)) => nodes'[Source] = nodes[Source] /\ UNCHANGED graphStatus
      BY <2>7, <2>9, <2>10, TwoGraphs
    <3>2. graphStatus'[Source] = "merged" => graphStatus[Source] = "merged"
      BY <2>9, TwoGraphs
    <3> QED
      BY <1>2, <2>8, <3>1, <3>2, MergeKept, TwoGraphs DEF CalmInv, MergeInv, Merges
  <2>15. TasksInv'
    <3>1. \A h, u : IsStarting(h, u) => IsStarting(h, u)'
      BY <1>2 DEF IsStarting
    <3>2. ASSUME NEW h \in EditedGraphs, graphStatus'[h] = "active", h # g, NEW u,
                 HasWorker(h, u)
          PROVE  HasWorker(h, u)'
      <4>1. graphStatus[h] = "active"
        BY <2>9, <3>2
      <4>2. CASE <<h, u>> \in running
        <5>1. <<h, u>> # w
          BY <1>1, <3>2, <4>1
        <5> QED
          BY <1>4, <4>2, <5>1 DEF HasWorker
      <4>3. CASE h = Target /\ <<Source, u>> \in running /\ graphStatus[Source] = "merged"
        BY <1>1, <3>2, <4>3, TwoGraphs
      <4>4. CASE h = Target /\ \E e \in Editors : edit[e].step \in {"bridge", "mark"}
        BY <2>10, <3>2, <4>4 DEF Merges, MergeSteps
      <4> QED
        BY <3>2, <4>2, <4>3, <4>4 DEF HasWorker
    <3>3. ASSUME NEW u, u # t, HasWorker(g, u) PROVE HasWorker(g, u)'
      <4>1. <<g, u>> # w /\ <<Source, u>> # w
        BY <1>1, <3>3
      <4>2. CASE <<g, u>> \in running
        BY <1>4, <4>1, <4>2 DEF HasWorker
      <4>3. CASE g = Target /\ <<Source, u>> \in running /\ graphStatus[Source] = "merged"
        <5>1. graphStatus'[Source] = "merged" /\ <<Source, u>> \in running'
          BY <1>4, <2>9, <4>1, <4>3, TwoGraphs
        <5> QED
          BY <4>3, <5>1 DEF HasWorker
      <4>4. CASE /\ g = Target /\ <<Source, u>> \in running
                 /\ \E e \in Editors : edit[e].step \in {"bridge", "mark"}
                 /\ u \in DOMAIN nodes[Source] /\ nodes[Source][u].status = "running"
        <5>1. nodes'[Source] = nodes[Source] /\ <<Source, u>> \in running'
          BY <1>4, <2>7, <4>1, <4>4, TwoGraphs
        <5> QED
          BY <1>2, <4>4, <5>1 DEF HasWorker
      <4> QED
        BY <3>3, <4>2, <4>3, <4>4 DEF HasWorker
    <3> SUFFICES ASSUME NEW h \in EditedGraphs, graphStatus'[h] = "active"
                 PROVE  /\ \E u \in DOMAIN nodes'[h] : nodes'[h][u].status # "completed"
                        /\ \A u \in DOMAIN nodes'[h] :
                              /\ nodes'[h][u].status = "running" => HasWorker(h, u)'
                              /\ nodes'[h][u].status = "pending" /\ DepsReady(nodes'[h], u)
                                    => IsStarting(h, u)'
      BY DEF TasksInv, DepsReady
    <3>4. /\ graphStatus[h] = "active"
          /\ \E u \in DOMAIN nodes[h] : nodes[h][u].status # "completed"
          /\ \A u \in DOMAIN nodes[h] :
                /\ nodes[h][u].status = "running" => HasWorker(h, u)
                /\ nodes[h][u].status = "pending" /\ DepsReady(nodes[h], u) => IsStarting(h, u)
      <4>1. graphStatus[h] = "active"
        BY <2>9
      <4> QED
        BY <4>1 DEF CalmInv, TasksInv
    <3>5. CASE h # g
      <4>1. nodes'[h] = nodes[h]
        BY <2>7, <3>5
      <4> QED
        BY <3>1, <3>2, <3>4, <3>5, <4>1
    <3>6. CASE h = g
      <4>1. \E u \in DOMAIN nodes'[h] : nodes'[h][u].status # "completed"
        BY <2>7, <2>9, <3>4, <3>6
      <4>2. ASSUME NEW u \in DOMAIN tasks, after[u].status = "running" PROVE HasWorker(h, u)'
        <5>1. CASE u \in next
          BY <1>4, <3>6, <5>1 DEF HasWorker
        <5>2. CASE u \notin next
          <6>1. u # t /\ tasks[u].status = "running"
            BY <2>6, <4>2, <5>2
          <6> QED
            BY <3>3, <3>4, <3>6, <6>1
        <5> QED
          BY <5>1, <5>2
      <4>3. ASSUME NEW u \in DOMAIN tasks, after[u].status = "pending", DepsReady(after, u)
            PROVE  IsStarting(h, u)'
        <5>1. u # t /\ u \notin next /\ tasks[u].status = "pending" /\ after[u] = tasks[u]
          BY <2>6, <4>3
        <5>2. \A d \in tasks[u].deps :
                 d \in DOMAIN tasks /\ (d = t \/ tasks[d].status = "completed")
          BY <2>4, <2>6, <4>3, <5>1 DEF DepsReady
        <5>3. DepsReady(ended, u)
          BY <2>1, <2>2, <5>1, <5>2 DEF DepsReady
        <5>4. t \notin tasks[u].deps
          BY <2>3, <5>1, <5>3
        <5>5. DepsReady(nodes[h], u)
          BY <3>6, <5>2, <5>4 DEF DepsReady
        <5> QED
          BY <3>1, <3>4, <3>6, <5>1, <5>5
      <4> QED
        BY <2>4, <2>7, <3>6, <4>1, <4>2, <4>3
    <3> QED
      BY <3>5, <3>6
  <2> QED
    BY <2>11, <2>12, <2>13, <2>14, <2>15 DEF CalmInv
<1> QED
  BY <1>2, <1>3, <1>4

LEMMA EditsSteps ==
    ASSUME EditsInv, [EditsNext]_editVars
    PROVE  EditsInv'
<1> SUFFICES ASSUME Calm' PROVE CalmInv'
  BY DEF EditsInv
<1>1. CASE UNCHANGED editVars
  BY <1>1 DEF editVars, EditsInv, Calm, CalmInv, NodesInv, RecordsInv, StatusInv, MergeInv,
              TasksInv, IsTask, IsAdd, IsMerge, Merges, CopiesFit, CopiesWritten, NamedIn,
              HasWorker, IsStarting, DepsReady
<1>2. ASSUME EditsNext PROVE ~late /\ ~readdressed
  <2>1. late => late'
    BY <1>2, Zenon DEF EditsNext, OnTaskCompleted, AddTask, RejectTask, AddWrite, AddStart,
      MergeGraphs, MergeCopy, MergeBridge, MergeMark, MergeDispatch
  <2>2. readdressed => readdressed'
    BY <1>2, Zenon DEF EditsNext, OnTaskCompleted, AddTask, RejectTask, AddWrite, AddStart,
      MergeGraphs, MergeCopy, MergeBridge, MergeMark, MergeDispatch
  <2> QED
    BY <2>1, <2>2 DEF Calm
<1>3. ASSUME EditsNext PROVE CalmInv'
  BY <1>2, <1>3, ReportSteps, BeginAddSteps, AddWriteSteps, AddStartSteps, MergeGraphsSteps,
     MergeCopySteps, MergeBridgeSteps, MergeMarkSteps, MergeDispatchSteps
     DEF EditsNext, EditsInv, Calm
<1> QED
  BY <1>1, <1>3

LEMMA EditsBegin ==
    ASSUME EditsInit
    PROVE  CalmInv
<1>1. /\ DOMAIN graphStatus = EditedGraphs /\ \A g \in EditedGraphs : graphStatus[g] = "active"
      /\ DOMAIN edit = Editors /\ \A e \in Editors : edit[e] = NoEdit
      /\ \A e \in Editors : edit[e].step = "none"
  BY DEF EditsInit, NoEdit
<1>2. /\ DOMAIN nodes = EditedGraphs
      /\ \A g \in EditedGraphs :
            /\ DOMAIN nodes[g] = DOMAIN Declared[g]
            /\ \A t \in DOMAIN Declared[g] :
                  /\ nodes[g][t].deps = Declared[g][t] /\ IsTask(nodes[g][t])
                  /\ nodes[g][t].status = IF Declared[g][t] = {} THEN "running" ELSE "pending"
  <2>1. \A g \in EditedGraphs : \A t \in DOMAIN Declared[g] : nodes[g][t] =
           Node(IF Declared[g][t] = {} THEN "running" ELSE "pending", Declared[g][t])
    BY DEF EditsInit
  <2>2. DOMAIN nodes = EditedGraphs /\ \A g \in EditedGraphs : DOMAIN nodes[g] = DOMAIN Declared[g]
    BY DEF EditsInit
  <2>3. ASSUME NEW g \in EditedGraphs, NEW t \in DOMAIN Declared[g]
        PROVE  /\ nodes[g][t].deps = Declared[g][t] /\ IsTask(nodes[g][t])
               /\ nodes[g][t].status = IF Declared[g][t] = {} THEN "running" ELSE "pending"
    <3>1. PICK s : s = IF Declared[g][t] = {} THEN "running" ELSE "pending"
      OBVIOUS
    <3>2. nodes[g][t] = Node(s, Declared[g][t])
      BY <2>1, <3>1
    <3> QED
      BY <3>1, <3>2, NodeIs DEF IsTask
  <2> QED
    BY <2>2, <2>3
<1>3. \A g \in EditedGraphs : \A t \in DOMAIN Declared[g] :
         Declared[g][t] = {} => <<g, t>> \in running
  BY DEF EditsInit
<1>4. \A w \in running : w = <<w[1], w[2]>> /\ w[1] \in EditedGraphs
  BY DEF EditsInit
<1>5. NodesInv
  BY <1>2, EditsAssumption DEF NodesInv
<1>6. StatusInv
  BY <1>1, <1>4, TwoGraphs DEF StatusInv
<1>7. RecordsInv /\ MergeInv
  BY <1>1, TwoGraphs DEF RecordsInv, MergeInv, Merges, MergeSteps
<1>8. TasksInv
  <2> SUFFICES ASSUME NEW g \in EditedGraphs
               PROVE  /\ \E t \in DOMAIN nodes[g] : nodes[g][t].status # "completed"
                      /\ \A t \in DOMAIN nodes[g] :
                            /\ nodes[g][t].status = "running" => HasWorker(g, t)
                            /\ nodes[g][t].status = "pending" => ~DepsReady(nodes[g], t)
    BY DEF TasksInv
  <2>1. \A t \in DOMAIN nodes[g] : nodes[g][t].status # "completed"
    BY <1>2
  <2>2. DOMAIN nodes[g] # {}
    BY <1>2, EditsAssumption
  <2>3. ASSUME NEW t \in DOMAIN nodes[g], nodes[g][t].status = "running" PROVE HasWorker(g, t)
    BY <1>2, <1>3, <2>3 DEF HasWorker
  <2>4. ASSUME NEW t \in DOMAIN nodes[g], nodes[g][t].status = "pending"
        PROVE  ~DepsReady(nodes[g], t)
    <3>1. Declared[g][t] # {} /\ nodes[g][t].deps = Declared[g][t]
      BY <1>2, <2>4
    <3> QED
      BY <2>1, <3>1 DEF DepsReady
  <2> QED
    BY <2>1, <2>2, <2>3, <2>4
<1> QED
  BY <1>5, <1>6, <1>7, <1>8 DEF CalmInv

LEMMA EditsForgetNothing ==
    ASSUME EditsInv
    PROVE  NothingForgottenAlone
<1> SUFFICES ASSUME CalmInv, \A e \in Editors : edit[e].step = "none"
             PROVE  NothingForgotten
  BY DEF EditsInv, Calm, NothingForgottenAlone
<1>1. ASSUME NEW g \in EditedGraphs, graphStatus[g] = "active"
      PROVE  /\ \E t \in DOMAIN nodes[g] : nodes[g][t].status # "completed"
             /\ \A t \in DOMAIN nodes[g] :
                   /\ nodes[g][t].status = "running" => \E w \in running : AddressOf(w) = <<g, t>>
                   /\ nodes[g][t].status = "pending" => ~DepsReady(nodes[g], t)
  <2>1. \A h, t : ~IsStarting(h, t)
    BY DEF IsStarting
  <2>2. ASSUME NEW t, HasWorker(g, t) PROVE \E w \in running : AddressOf(w) = <<g, t>>
    <3>1. CASE <<g, t>> \in running
      BY <1>1, <3>1 DEF AddressOf
    <3>2. CASE g = Target /\ <<Source, t>> \in running /\ graphStatus[Source] = "merged"
      BY <3>2 DEF AddressOf
    <3> QED
      BY <2>2, <3>1, <3>2 DEF HasWorker
  <2> QED
    BY <1>1, <2>1, <2>2 DEF CalmInv, TasksInv
<1>2. graphStatus[Source] = "merged" =>
         \A t \in DOMAIN nodes[Source] : \E u \in DOMAIN nodes[Target] : u[1] = t[1]
  BY DEF CalmInv, MergeInv, NamedIn
<1> QED
  BY <1>1, <1>2 DEF NothingForgotten

\* However tasks are added, rejected and merged while workers report, for any graphs and any number
\* of calls, no task is forgotten but where a call was late or a running task got a new id.
THEOREM NothingIsForgottenAlone == EditsSpec => []NothingForgottenAlone
<1>1. EditsInit => EditsInv
  BY EditsBegin DEF EditsInv
<1>2. EditsInv /\ [EditsNext]_editVars => EditsInv'
  BY EditsSteps
<1>3. EditsInv => NothingForgottenAlone
  BY EditsForgetNothing
<1> QED
  BY <1>1, <1>2, <1>3, PTL DEF EditsSpec


-----------------------------------------------------------------------------
\* The working clone. From fetch to push the work that a call merges goes with it, in
\* FETCH_HEAD, in a remote-tracking branch or at the tip, until origin has it; a branch is
\* deleted only then. That holds because no other call moves the clone in between.
OneAtATime == \A c, d \in Callers : c = d

IsWork(commit) == NoTask \notin commit

CloneShape ==
    /\ clone = [cloned |-> clone.cloned, branch |-> clone.branch, heads |-> clone.heads,
                tracking |-> clone.tracking, fetchHead |-> clone.fetchHead,
                unmerged |-> clone.unmerged]
    /\ clone.branch \in Branches
    /\ DOMAIN clone.heads = Branches /\ DOMAIN clone.tracking = Branches

OriginInv ==
    /\ DOMAIN origin = Branches /\ IsWork(origin[Base])
    /\ \A b \in Branches : origin[b] = NoCommit \/ IsWork(origin[b])

\* Of a graph that is promoted every task is integrated, or a fix that never started.  A task's
\* work is on its own branch until it is integrated or discarded.
FateInv ==
    /\ DOMAIN fate = Tasks /\ DOMAIN promotion = Graphs
    /\ \A t \in Tasks : promotion[GraphOf[t]] # "none" => fate[t] \in {"working", "integrated"}
    /\ \A t \in Tasks \ lied :
          /\ \/ fate[t] \in {"working", "integrated", "discarded"}
             \/ t \in origin[TaskBranch(t)]
          /\ fate[t] = "conflict" => t \in origin[Conflict(t)]
          /\ fate[t] = "integrated" =>
                \/ t \in origin[Base]
                \/ t \in origin[Integration(GraphOf[t])] /\ promotion[GraphOf[t]] # "integrated"

MergeStepNames == {"ensure_clone", "fetch_base", "fetch_integration", "checkout", "fetch_task",
                   "note_head", "fast_forward", "auto_merge", "conflict", "push_conflict",
                   "reset", "reset_failed", "push", "note_pushed", "verify", "delete"}
PromoteSteps == MergeStepNames \ {"fetch_task", "note_head", "push_conflict", "reset",
                                  "reset_failed"}
ResolveSteps == {"ensure_clone", "fetch_integration", "fetch_conflict", "ancestor", "checkout",
                 "fast_forward", "push", "delete_conflict", "delete_task"}
DiscardSteps == {"ensure_clone", "delete_conflict", "delete_task"}
DiffSteps == {"ensure_clone", "fetch_integration"}

OfTask(k) == k.task \in Tasks /\ k.graph = GraphOf[k.task]
OfGraph(k) == k.task = NoTask /\ k.graph \in Graphs
IsCall(k) ==
    /\ k = [op |-> k.op, task |-> k.task, graph |-> k.graph, step |-> k.step,
            retry |-> k.retry, found |-> k.found, pre |-> k.pre, sha |-> k.sha]
    /\ \/ k = Idle
       \/ k.op = "merge" /\ k.step \in MergeStepNames /\ OfTask(k)
       \/ k.op = "resolve" /\ k.step \in ResolveSteps /\ OfTask(k)
       \/ k.op = "discard" /\ k.step \in DiscardSteps /\ OfTask(k)
       \/ k.op = "promote" /\ k.step \in PromoteSteps /\ OfGraph(k)
       \/ k.op = "diff" /\ k.step \in DiffSteps /\ OfGraph(k)
CallInv(c) ==
    /\ IsCall(call[c])
    /\ call[c].op \in {"merge", "resolve", "discard"} => fate[call[c].task] = "merging"
    /\ call[c].op = "promote" => promotion[call[c].graph] = "promoting"

\* What the clone is by the step of the one call that works in it.
Before == {"none", "ensure_clone", "fetch_base", "fetch_integration"}
InBranch == {"fetch_task", "note_head", "fast_forward", "auto_merge", "conflict",
             "push_conflict", "reset", "reset_failed", "push", "note_pushed"}
AfterNote == {"fast_forward", "auto_merge", "conflict", "push_conflict", "reset", "reset_failed"}
CloneFits(c) ==
    /\ call[c].step # "conflict" => clone.unmerged = NoCommit
    /\ clone.cloned => IsWork(clone.tracking[Base])
    /\ call[c].step \notin {"none", "ensure_clone"} => clone.cloned
    /\ call[c].step \in Before => ~call[c].found
    /\ call[c].found => IsWork(clone.tracking[Integ(c)])
    /\ call[c].step \in InBranch => clone.branch = Own(c) /\ IsWork(Tip)
    /\ call[c].op = "merge" =>
          /\ call[c].step \in AfterNote => IsWork(call[c].pre)
          /\ call[c].step \in {"note_head", "fast_forward", "auto_merge"} =>
                IsWork(clone.fetchHead)
          /\ call[c].step = "conflict" => IsWork(clone.unmerged)
    /\ call[c].op = "resolve" /\ call[c].step \in {"ancestor", "checkout", "fast_forward"} =>
          IsWork(clone.tracking[Conflict(call[c].task)])
    /\ call[c].op = "promote" /\ call[c].step \notin Before =>
          call[c].found /\ clone.tracking[Integ(c)] = origin[Integ(c)]

\* The work a call merges goes with it, from step to step.
WorkFits(c) ==
    /\ call[c].op = "promote" =>
          /\ call[c].step \in {"push", "note_pushed"} => origin[Integ(c)] \subseteq Tip
          /\ call[c].step = "verify" => origin[Integ(c)] \subseteq call[c].sha
          /\ call[c].step = "delete" => origin[Integ(c)] \subseteq origin[Base]
    /\ call[c].op = "merge" /\ call[c].task \notin lied =>
          /\ call[c].step \in {"note_head", "fast_forward", "auto_merge"} =>
                call[c].task \in clone.fetchHead
          /\ call[c].step = "conflict" => call[c].task \in clone.unmerged
          /\ call[c].step \in {"push_conflict", "push", "note_pushed"} => call[c].task \in Tip
          /\ call[c].step = "reset" => call[c].task \in origin[Conflict(call[c].task)]
          /\ call[c].step = "verify" => call[c].task \in call[c].sha
          /\ call[c].step = "delete" => call[c].task \in origin[Integ(c)]
    /\ call[c].op = "resolve" /\ call[c].task \notin lied =>
          /\ call[c].step \in {"ensure_clone", "fetch_integration", "fetch_conflict"} =>
                call[c].task \in origin[Conflict(call[c].task)]
          /\ call[c].step \in {"ancestor", "checkout", "fast_forward"} =>
                call[c].task \in clone.tracking[Conflict(call[c].task)]
          /\ call[c].step = "push" => call[c].task \in Tip
          /\ call[c].step \in {"delete_conflict", "delete_task"} =>
                call[c].task \in origin[Integ(c)]

CloneInv ==
    /\ CloneShape /\ OriginInv /\ FateInv /\ DOMAIN call = Callers
    /\ \A c \in Callers : CallInv(c) /\ CloneFits(c) /\ WorkFits(c)

-----------------------------------------------------------------------------

LEMMA BranchesAre ==
    /\ Base \in Branches
    /\ \A t \in Tasks : /\ TaskBranch(t) \in Branches /\ Conflict(t) \in Branches
                        /\ GraphOf[t] \in Graphs /\ t # NoTask
    /\ \A g \in Graphs : Integration(g) \in Branches
BY MergeCloneAssumption DEF Branches, Graphs, Works

LEMMA BranchesDiffer ==
    /\ \A x : Base # TaskBranch(x) /\ Base # Conflict(x) /\ Base # Integration(x)
    /\ \A x, y : /\ TaskBranch(x) # Conflict(y) /\ TaskBranch(x) # Integration(y)
                 /\ Conflict(x) # Integration(y)
                 /\ TaskBranch(x) = TaskBranch(y) => x = y
                 /\ Conflict(x) = Conflict(y) => x = y
                 /\ Integration(x) = Integration(y) => x = y
BY DEF Base, TaskBranch, Conflict, Integration

LEMMA IdleIs ==
    /\ Idle.op = "none" /\ Idle.task = NoTask /\ Idle.graph = NoTask /\ Idle.step = "none"
    /\ Idle.retry = 0 /\ Idle.found = FALSE /\ Idle.pre = NoCommit /\ Idle.sha = NoCommit
    /\ IsCall(Idle)
BY DEF Idle, IsCall

LEMMA FetchedIs ==
    ASSUME CloneShape, NEW b \in Branches, clone' = Fetched(b)
    PROVE  /\ CloneShape' /\ clone'.heads = clone.heads /\ clone'.branch = clone.branch
           /\ clone'.cloned = clone.cloned /\ clone'.unmerged = clone.unmerged
           /\ clone'.fetchHead = origin[b] /\ clone'.tracking[b] = origin[b]
           /\ \A d \in Branches \ {b} : clone'.tracking[d] = clone.tracking[d]
BY DEF CloneShape, Fetched

LEMMA CheckedOutIs ==
    ASSUME CloneShape, NEW b \in Branches, NEW x, clone' = CheckedOut(b, x)
    PROVE  /\ CloneShape' /\ clone'.branch = b /\ clone'.heads[b] = x
           /\ \A d \in Branches \ {b} : clone'.heads[d] = clone.heads[d]
           /\ clone'.tracking = clone.tracking /\ clone'.fetchHead = clone.fetchHead
           /\ clone'.cloned = clone.cloned /\ clone'.unmerged = clone.unmerged
BY DEF CloneShape, CheckedOut

LEMMA MovedToIs ==
    ASSUME CloneShape, NEW x, clone' = MovedTo(x)
    PROVE  /\ CloneShape' /\ clone'.branch = clone.branch /\ Tip' = x
           /\ clone'.tracking = clone.tracking /\ clone'.fetchHead = clone.fetchHead
           /\ clone'.cloned = clone.cloned /\ clone'.unmerged = NoCommit
BY DEF CloneShape, MovedTo, Tip

\* A call that goes on to another step.
SameButStep(k, l) ==
    /\ l.op = k.op /\ l.task = k.task /\ l.graph = k.graph /\ l.retry = k.retry
    /\ l.found = k.found /\ l.pre = k.pre /\ l.sha = k.sha
LEMMA GoesOn ==
    ASSUME DOMAIN call = Callers, NEW c \in Callers, CallInv(c), NEW s, Goto(c, s), Remain,
           \/ call[c].op = "merge" /\ s \in MergeStepNames
           \/ call[c].op = "resolve" /\ s \in ResolveSteps
           \/ call[c].op = "discard" /\ s \in DiscardSteps
           \/ call[c].op = "promote" /\ s \in PromoteSteps
    PROVE  /\ DOMAIN call' = Callers /\ CallInv(c)'
           /\ SameButStep(call[c], call'[c]) /\ call'[c].step = s
<1>1. call[c] # Idle
  BY IdleIs
<1>2. /\ DOMAIN call' = Callers /\ call'[c] = [call[c] EXCEPT !.step = s]
  BY DEF Goto
<1>3. call'[c] = [op |-> call[c].op, task |-> call[c].task, graph |-> call[c].graph, step |-> s,
                  retry |-> call[c].retry, found |-> call[c].found, pre |-> call[c].pre,
                  sha |-> call[c].sha]
  BY <1>2 DEF CallInv, IsCall
<1>4. SameButStep(call[c], call'[c]) /\ call'[c].step = s
  BY <1>3 DEF SameButStep
<1>5. IsCall(call'[c])
  BY <1>1, <1>3, <1>4 DEF CallInv, IsCall, SameButStep, OfTask, OfGraph
<1> QED
  BY <1>2, <1>4, <1>5 DEF CallInv, SameButStep, Remain

\* What is on a branch stays there.
Kept == \A b \in Branches : \A t \in Tasks : t \in origin[b] => t \in origin'[b]

LEMMA FateStays ==
    ASSUME FateInv, Kept, Remain, UNCHANGED lied
    PROVE  FateInv'
BY BranchesAre DEF FateInv, Kept, Remain

\* A call that returns without having done its work.
LEMMA GivesUp ==
    ASSUME FateInv, Kept, DOMAIN call = Callers, UNCHANGED lied,
           NEW c \in Callers, CallInv(c), call[c] # Idle, NEW s, Return(c, s),
           \/ s \in {"error", "transient"}
           \/ s = "conflict" /\ call[c].op = "promote"
           \/ /\ s = "conflict" /\ call[c].op = "merge"
              /\ call[c].task \in lied \/ call[c].task \in origin'[Conflict(call[c].task)]
    PROVE  FateInv' /\ DOMAIN call' = Callers /\ call'[c] = Idle /\ CallInv(c)'
<1>1. DOMAIN call' = Callers /\ call'[c] = Idle
  BY DEF Return
<1>2. CallInv(c)'
  BY <1>1, IdleIs DEF CallInv
<1>3. CASE call[c].op = "promote"
  <2>1. /\ promotion' = [promotion EXCEPT ![call[c].graph] = s] /\ UNCHANGED fate
        /\ promotion[call[c].graph] = "promoting" /\ call[c].graph \in Graphs
        /\ s \in {"error", "transient", "conflict"}
    BY <1>3 DEF Return, CallInv, IsCall, OfGraph
  <2>2. \A g \in Graphs : promotion'[g] # promotion[g] =>
           promotion[g] # "none" /\ promotion'[g] # "integrated"
    BY <2>1 DEF FateInv
  <2>3. DOMAIN promotion' = Graphs
    BY <2>1 DEF FateInv
  <2>4. \A t \in Tasks \ lied :
           /\ t \in origin[TaskBranch(t)] => t \in origin'[TaskBranch(t)]
           /\ t \in origin[Conflict(t)] => t \in origin'[Conflict(t)]
           /\ t \in origin[Base] => t \in origin'[Base]
           /\ t \in origin[Integration(GraphOf[t])] => t \in origin'[Integration(GraphOf[t])]
    BY BranchesAre DEF Kept
  <2> QED
    BY <1>1, <1>2, <2>1, <2>2, <2>3, <2>4, BranchesAre DEF FateInv
<1>4. CASE call[c].op # "promote"
  <2>1. /\ fate' = IF call[c].task = NoTask THEN fate ELSE [fate EXCEPT ![call[c].task] = s]
        /\ UNCHANGED promotion
    BY <1>4 DEF Return
  <2>2. CASE call[c].task = NoTask
    BY <1>1, <1>2, <2>1, <2>2, FateStays DEF Remain
  <2>3. CASE call[c].task # NoTask
    <3>1. call[c].task \in Tasks /\ fate[call[c].task] = "merging"
      BY <1>4, <2>3 DEF CallInv, IsCall, OfTask, OfGraph
    <3>2. /\ DOMAIN fate' = Tasks /\ fate'[call[c].task] = s
          /\ \A t \in Tasks \ {call[c].task} : fate'[t] = fate[t]
      BY <2>1, <2>3, <3>1 DEF FateInv
    <3>3. promotion[GraphOf[call[c].task]] = "none"
      BY <3>1 DEF FateInv
    <3>4. \A t \in Tasks \ lied :
             /\ t \in origin[TaskBranch(t)] => t \in origin'[TaskBranch(t)]
             /\ t \in origin[Conflict(t)] => t \in origin'[Conflict(t)]
             /\ t \in origin[Base] => t \in origin'[Base]
             /\ t \in origin[Integration(GraphOf[t])] => t \in origin'[Integration(GraphOf[t])]
      BY BranchesAre DEF Kept
    <3>5. s = "conflict" =>
             call[c].task \in lied \/ call[c].task \in origin'[Conflict(call[c].task)]
      BY <1>4
    <3>6. s \in {"error", "transient", "conflict"}
      OBVIOUS
    <3>7. DOMAIN promotion' = Graphs /\ promotion' = promotion /\ lied' = lied
      BY <2>1 DEF FateInv
    <3>8. \A t \in Tasks : promotion'[GraphOf[t]] # "none" => fate'[t] \in {"working", "integrated"}
      BY <3>2, <3>3, <3>7 DEF FateInv
    <3>9. ASSUME NEW t \in Tasks \ lied
          PROVE  /\ \/ fate'[t] \in {"working", "integrated", "discarded"}
                    \/ t \in origin'[TaskBranch(t)]
                 /\ fate'[t] = "conflict" => t \in origin'[Conflict(t)]
                 /\ fate'[t] = "integrated" =>
                       \/ t \in origin'[Base]
                       \/ /\ t \in origin'[Integration(GraphOf[t])]
                          /\ promotion'[GraphOf[t]] # "integrated"
      <4>1. CASE t = call[c].task
        BY <3>1, <3>2, <3>4, <3>5, <3>6, <4>1 DEF FateInv
      <4>2. CASE t # call[c].task
        BY <3>2, <3>4, <3>7, <4>2 DEF FateInv
      <4> QED
        BY <4>1, <4>2
    <3> QED
      BY <1>1, <1>2, <3>2, <3>7, <3>8, <3>9 DEF FateInv
  <2> QED
    BY <2>2, <2>3
<1> QED
  BY <1>3, <1>4

LEMMA IdleFits ==
    ASSUME NEW c, call'[c] = Idle, clone'.unmerged = NoCommit,
           clone'.cloned => IsWork(clone'.tracking[Base])
    PROVE  CloneFits(c)' /\ WorkFits(c)'
BY IdleIs DEF CloneFits, WorkFits, Before, InBranch

\* One caller is all there are.
LEMMA OneCaller ==
    ASSUME OneAtATime, NEW c \in Callers, DOMAIN call' = Callers, CloneShape', OriginInv', FateInv',
           CallInv(c)', CloneFits(c)', WorkFits(c)'
    PROVE  CloneInv'
<1>1. \A d \in Callers : d = c
  BY DEF OneAtATime
<1> QED
  BY <1>1 DEF CloneInv

LEMMA Quits ==
    ASSUME OneAtATime, CloneInv, NEW c \in Callers,
           call[c].step # "none", call[c].step # "conflict",
           NEW s \in {"error", "transient"}, Return(c, s), UNCHANGED <<origin, lied, clone>>
    PROVE  CloneInv'
<1>1. call[c] # Idle
  BY IdleIs
<1>2. FateInv' /\ DOMAIN call' = Callers /\ call'[c] = Idle /\ CallInv(c)'
  BY <1>1, GivesUp DEF CloneInv, Kept
<1>3. clone.unmerged = NoCommit /\ (clone.cloned => IsWork(clone.tracking[Base]))
  BY DEF CloneInv, CloneFits
<1>4. CloneShape' /\ OriginInv'
  BY DEF CloneInv, CloneShape, OriginInv
<1> QED
  BY <1>2, <1>3, <1>4, IdleFits, OneCaller

LEMMA EnsureCloneSteps ==
    ASSUME OneAtATime, CloneInv, NEW c \in Callers, EnsureClone(c)
    PROVE  CloneInv'
<1> DEFINE first == CASE call[c].op \in {"merge", "promote"} -> "fetch_base"
                      [] call[c].op = "discard" -> "delete_conflict"
                      [] OTHER -> "fetch_integration"
           fresh == [Fetched(Base) EXCEPT !.cloned = TRUE, !.branch = Base,
                     !.heads[Base] = origin[Base], !.fetchHead = NoCommit, !.tracking = origin]
<1>1. call[c].step = "ensure_clone" /\ UNCHANGED <<origin, lied>>
  BY DEF EnsureClone, Local
<1>2. \/ /\ Goto(c, first) /\ Remain /\ clone' = IF clone.cloned THEN clone ELSE fresh
      \/ Return(c, "error") /\ UNCHANGED clone
  BY Zenon DEF EnsureClone
<1>3. CASE Return(c, "error") /\ UNCHANGED clone
  BY <1>1, <1>3, Quits
<1>4. CASE Goto(c, first) /\ Remain /\ clone' = IF clone.cloned THEN clone ELSE fresh
  <2>1. /\ CloneShape' /\ clone'.cloned = TRUE /\ clone'.unmerged = clone.unmerged
        /\ clone.cloned => clone' = clone
        /\ ~clone.cloned => clone'.tracking = origin
    BY <1>4, BranchesAre DEF CloneInv, CloneShape, OriginInv, Fetched
  <2>2. OriginInv' /\ FateInv' /\ Kept
    BY <1>1, <1>4, FateStays DEF CloneInv, OriginInv, Kept
  <2>3. /\ call[c].op \in {"merge", "resolve", "discard", "promote", "diff"}
        /\ call[c].op = "diff" => call[c].task = NoTask
    BY <1>1, IdleIs DEF CloneInv, CallInv, IsCall, OfGraph
  <2>4. IsWork(clone'.tracking[Base])
    BY <2>1 DEF CloneInv, CloneFits, OriginInv
  <2>5. CASE call[c].op # "diff"
    <3>1. /\ DOMAIN call' = Callers /\ CallInv(c)'
          /\ SameButStep(call[c], call'[c]) /\ call'[c].step = first
      BY <1>4, <2>3, <2>5, GoesOn DEF CloneInv, MergeStepNames, PromoteSteps, ResolveSteps,
         DiscardSteps
    <3>2. CloneFits(c)' /\ WorkFits(c)'
      BY <1>1, <2>1, <2>3, <2>4, <3>1 DEF CloneInv, CloneFits, WorkFits, SameButStep, Before,
         InBranch, AfterNote
    <3> QED
      BY <2>1, <2>2, <3>1, <3>2, OneCaller
  <2>6. CASE call[c].op = "diff"
    <3>1. call'[c] = [call[c] EXCEPT !.step = "fetch_integration"] /\ DOMAIN call' = Callers
      BY <1>4, <2>6 DEF Goto, CloneInv
    <3>2. /\ SameButStep(call[c], call'[c]) /\ call'[c].step = "fetch_integration"
          /\ CallInv(c)'
      BY <3>1, <2>6, IdleIs DEF CloneInv, CallInv, IsCall, SameButStep, OfGraph, OfTask, DiffSteps
    <3>3. CloneFits(c)' /\ WorkFits(c)'
      BY <1>1, <2>1, <2>4, <2>6, <3>2 DEF CloneInv, CloneFits, WorkFits, SameButStep, Before,
         InBranch, AfterNote
    <3> QED
      BY <2>1, <2>2, <3>1, <3>2, <3>3, OneCaller
  <2> QED
    BY <2>5, <2>6
<1> QED
  BY <1>2, <1>3, <1>4

LEMMA FetchBaseSteps ==
    ASSUME OneAtATime, CloneInv, NEW c \in Callers, FetchBase(c)
    PROVE  CloneInv'
<1>1. /\ call[c].step = "fetch_base" /\ call[c].op \in {"merge", "promote"}
      /\ UNCHANGED <<origin, lied>>
  BY DEF FetchBase, At, Local
<1>2. \/ clone' = Fetched(Base) /\ Goto(c, "fetch_integration") /\ Remain
      \/ Return(c, "error") /\ UNCHANGED clone
  BY Zenon DEF FetchBase
<1>3. CASE Return(c, "error") /\ UNCHANGED clone
  BY <1>1, <1>3, Quits
<1>4. CASE clone' = Fetched(Base) /\ Goto(c, "fetch_integration") /\ Remain
  <2>1. /\ DOMAIN call' = Callers /\ CallInv(c)'
        /\ SameButStep(call[c], call'[c]) /\ call'[c].step = "fetch_integration"
    BY <1>1, <1>4, GoesOn DEF CloneInv, MergeStepNames, PromoteSteps
  <2>2. /\ CloneShape' /\ clone'.tracking[Base] = origin[Base]
        /\ clone'.cloned = clone.cloned /\ clone'.unmerged = clone.unmerged
    BY <1>4, FetchedIs, BranchesAre DEF CloneInv
  <2>3. OriginInv' /\ FateInv'
    BY <1>1, <1>4, FateStays DEF CloneInv, OriginInv, Kept
  <2>4. CloneFits(c)' /\ WorkFits(c)'
    BY <1>1, <2>1, <2>2 DEF CloneInv, OriginInv, CloneFits, WorkFits, SameButStep, Before,
       InBranch, AfterNote
  <2> QED
    BY <2>1, <2>2, <2>3, <2>4, OneCaller
<1> QED
  BY <1>2, <1>3, <1>4

LEMMA FetchIntegrationSteps ==
    ASSUME OneAtATime, CloneInv, NEW c \in Callers, FetchIntegration(c)
    PROVE  CloneInv'
<1> DEFINE next == CASE call[c].op \in {"merge", "promote"} -> "checkout"
                     [] call[c].op = "resolve" -> "fetch_conflict"
                     [] OTHER -> "none"
           found == origin[Integ(c)] # NoCommit
           goes == IF next = "none" THEN Idle ELSE [call[c] EXCEPT !.found = TRUE, !.step = next]
<1>1. call[c].step = "fetch_integration" /\ UNCHANGED <<origin, lied>>
  BY DEF FetchIntegration, Local
<1>2. \/ /\ found /\ clone' = Fetched(Integ(c)) /\ call' = [call EXCEPT ![c] = goes] /\ Remain
      \/ /\ UNCHANGED clone
         /\ CASE call[c].op = "promote" -> Return(c, "error")
              [] call[c].op = "diff" -> call' = [call EXCEPT ![c] = Idle] /\ Remain
              [] OTHER -> Goto(c, next) /\ Remain
  BY DEF FetchIntegration
<1>3. /\ call[c].op \in {"merge", "resolve", "promote", "diff"}
      /\ call[c].graph \in Graphs /\ Integ(c) \in Branches
      /\ Integ(c) # Base /\ clone.cloned /\ clone.unmerged = NoCommit
      /\ IsWork(clone.tracking[Base])
  BY <1>1, IdleIs, BranchesAre, BranchesDiffer DEF CloneInv, CallInv, IsCall, OfGraph, OfTask,
     Integ, DiscardSteps, CloneFits
<1>4. OriginInv'
  BY <1>1 DEF CloneInv, OriginInv
<1>5. CASE /\ found /\ clone' = Fetched(Integ(c)) /\ call' = [call EXCEPT ![c] = goes] /\ Remain
  <2>1. /\ CloneShape' /\ clone'.tracking[Integ(c)] = origin[Integ(c)]
        /\ clone'.tracking[Base] = clone.tracking[Base]
        /\ clone'.cloned = clone.cloned /\ clone'.unmerged = clone.unmerged
    BY <1>3, <1>5, FetchedIs, BranchesAre DEF CloneInv
  <2>2. IsWork(origin[Integ(c)]) /\ DOMAIN call' = Callers /\ call'[c] = goes
    BY <1>3, <1>5 DEF CloneInv, OriginInv
  <2>3. FateInv'
    BY <1>1, <1>5, FateStays DEF CloneInv, Kept
  <2>4. CASE call[c].op = "diff"
    <3>1. call'[c] = Idle
      BY <2>2, <2>4
    <3>2. CallInv(c)'
      BY <3>1, IdleIs DEF CallInv
    <3> QED
      BY <1>3, <1>4, <2>1, <2>2, <2>3, <3>1, <3>2, IdleFits, OneCaller
  <2>5. CASE call[c].op # "diff"
    <3>1. call'[c] = [op |-> call[c].op, task |-> call[c].task, graph |-> call[c].graph,
                      step |-> next, retry |-> call[c].retry, found |-> TRUE,
                      pre |-> call[c].pre, sha |-> call[c].sha]
      BY <1>3, <2>2, <2>5 DEF CloneInv, CallInv, IsCall
    <3>2. /\ call'[c].op = call[c].op /\ call'[c].task = call[c].task
          /\ call'[c].graph = call[c].graph /\ call'[c].step = next /\ call'[c].found = TRUE
      BY <3>1
    <3>3. CallInv(c)'
      <4>1. call[c] # Idle
        BY <1>1, IdleIs
      <4>2. IsCall(call[c])
        BY DEF CloneInv, CallInv
      <4>3. /\ call[c].op = "promote" => OfGraph(call'[c])
            /\ call[c].op \in {"merge", "resolve"} => OfTask(call'[c])
        BY <3>2, <4>1, <4>2 DEF IsCall, OfTask, OfGraph
      <4>4. call'[c] = [op |-> call'[c].op, task |-> call'[c].task, graph |-> call'[c].graph,
                        step |-> call'[c].step, retry |-> call'[c].retry,
                        found |-> call'[c].found, pre |-> call'[c].pre, sha |-> call'[c].sha]
        BY <3>1
      <4>5. IsCall(call'[c])
        BY <1>3, <2>5, <3>2, <4>3, <4>4 DEF IsCall, MergeStepNames, PromoteSteps, ResolveSteps
      <4> QED
        BY <1>5, <3>2, <4>5 DEF CloneInv, CallInv, Remain
    <3>4. CloneFits(c)'
      BY <1>1, <1>3, <2>1, <2>2, <2>5, <3>2 DEF CloneInv, CloneFits, Integ, Before, InBranch,
         AfterNote
    <3>5. WorkFits(c)'
      BY <1>1, <1>3, <2>5, <3>2 DEF CloneInv, WorkFits, Integ
    <3> QED
      BY <1>4, <2>1, <2>2, <2>3, <3>3, <3>4, <3>5, OneCaller
  <2> QED
    BY <2>4, <2>5
<1>6. CASE /\ UNCHANGED clone
           /\ CASE call[c].op = "promote" -> Return(c, "error")
                [] call[c].op = "diff" -> call' = [call EXCEPT ![c] = Idle] /\ Remain
                [] OTHER -> Goto(c, next) /\ Remain
  <2>1. CloneShape'
    BY <1>6 DEF CloneInv, CloneShape
  <2>2. CASE call[c].op = "promote"
    BY <1>1, <1>6, <2>2, Quits
  <2>3. CASE call[c].op = "diff"
    <3>1. call'[c] = Idle /\ DOMAIN call' = Callers /\ FateInv'
      BY <1>1, <1>6, <2>3, FateStays DEF CloneInv, Kept
    <3>2. CallInv(c)'
      BY <3>1, IdleIs DEF CallInv
    <3> QED
      BY <1>3, <1>4, <1>6, <2>1, <3>1, <3>2, IdleFits, OneCaller
  <2>4. CASE call[c].op \in {"merge", "resolve"}
    <3>1. Goto(c, next) /\ Remain
      BY <1>6, <2>4
    <3>2. /\ DOMAIN call' = Callers /\ CallInv(c)'
          /\ SameButStep(call[c], call'[c]) /\ call'[c].step = next
      BY <2>4, <3>1, GoesOn DEF CloneInv, MergeStepNames, ResolveSteps
    <3>3. FateInv'
      BY <1>1, <3>1, FateStays DEF CloneInv, Kept
    <3>4. CloneFits(c)' /\ WorkFits(c)'
      BY <1>1, <1>3, <1>6, <2>4, <3>2 DEF CloneInv, CloneFits, WorkFits, SameButStep, Before,
         InBranch, AfterNote
    <3> QED
      BY <1>4, <2>1, <3>2, <3>3, <3>4, OneCaller
  <2> QED
    BY <1>3, <2>2, <2>3, <2>4
<1> QED
  BY <1>2, <1>5, <1>6

LEMMA CheckoutSteps ==
    ASSUME OneAtATime, CloneInv, NEW c \in Callers, Checkout(c)
    PROVE  CloneInv'
<1> DEFINE start == IF call[c].op = "promote" THEN Base
                    ELSE IF call[c].found THEN Integ(c)
                    ELSE IF call[c].op = "merge" THEN Base ELSE Conflict(call[c].task)
           next == IF call[c].op = "merge" THEN "fetch_task"
                   ELSE IF call[c].op = "promote" \/ call[c].found THEN "fast_forward"
                   ELSE "push"
<1>1. call[c].step = "checkout" /\ UNCHANGED <<origin, lied>>
  BY DEF Checkout, Local
<1>2. clone.unmerged = NoCommit /\ clone.cloned /\ IsWork(clone.tracking[Base])
  BY <1>1 DEF CloneInv, CloneFits
<1>3. /\ clone' = CheckedOut(Own(c), clone.tracking[start]) /\ Goto(c, next) /\ Remain
  BY <1>2 DEF Checkout
<1>4. /\ call[c].op \in {"merge", "resolve", "promote"} /\ call[c].graph \in Graphs
      /\ call[c].op = "resolve" => call[c].task \in Tasks
      /\ Integ(c) \in Branches /\ Own(c) \in Branches
  BY <1>1, IdleIs, BranchesAre DEF CloneInv, CallInv, IsCall, OfGraph, OfTask,
     Integ, Own, DiscardSteps, DiffSteps
<1>5. /\ DOMAIN call' = Callers /\ CallInv(c)'
      /\ SameButStep(call[c], call'[c]) /\ call'[c].step = next
  BY <1>3, <1>4, GoesOn DEF CloneInv, MergeStepNames, PromoteSteps, ResolveSteps
<1>6. /\ CloneShape' /\ clone'.branch = Own(c) /\ clone'.heads[Own(c)] = clone.tracking[start]
      /\ clone'.tracking = clone.tracking /\ clone'.cloned = clone.cloned
      /\ clone'.unmerged = clone.unmerged /\ Tip' = clone.tracking[start]
  <2> DEFINE x == clone.tracking[start]
  <2> HIDE DEF start
  <2>1. clone' = CheckedOut(Own(c), x)
    BY <1>3
  <2> HIDE DEF x
  <2>2. /\ CloneShape' /\ clone'.branch = Own(c) /\ clone'.heads[Own(c)] = x
        /\ clone'.tracking = clone.tracking /\ clone'.cloned = clone.cloned
        /\ clone'.unmerged = clone.unmerged
    BY <1>4, <2>1, CheckedOutIs DEF CloneInv
  <2>3. Tip' = x
    BY <2>2 DEF Tip
  <2> QED
    BY <2>2, <2>3 DEF x
<1>7. OriginInv' /\ FateInv'
  BY <1>1, <1>3, FateStays DEF CloneInv, OriginInv, Kept
<1>8. IsWork(clone.tracking[start])
  BY <1>1, <1>2, <1>4 DEF CloneInv, CloneFits, Before
<1>9. Own(c)' = Own(c) /\ Integ(c)' = Integ(c)
  BY <1>5 DEF Own, Integ, SameButStep
<1>10. CloneFits(c)'
  BY <1>1, <1>2, <1>4, <1>5, <1>6, <1>8, <1>9 DEF CloneInv, CloneFits, SameButStep, Before,
     InBranch, AfterNote
<1>11. WorkFits(c)'
  BY <1>1, <1>4, <1>5, <1>6, <1>9 DEF CloneInv, WorkFits, SameButStep
<1> QED
  BY <1>5, <1>6, <1>7, <1>10, <1>11, OneCaller

LEMMA FetchTaskSteps ==
    ASSUME OneAtATime, CloneInv, NEW c \in Callers, FetchTask(c)
    PROVE  CloneInv'
<1> DEFINE b == TaskBranch(call[c].task)
<1>1. call[c].step = "fetch_task" /\ call[c].op = "merge" /\ UNCHANGED <<origin, lied>>
  BY DEF FetchTask, At, Local
<1>2. \/ origin[b] # NoCommit /\ clone' = Fetched(b) /\ Goto(c, "note_head") /\ Remain
      \/ Return(c, "error") /\ UNCHANGED clone
  BY DEF FetchTask
<1>3. CASE Return(c, "error") /\ UNCHANGED clone
  BY <1>1, <1>3, Quits
<1>4. CASE origin[b] # NoCommit /\ clone' = Fetched(b) /\ Goto(c, "note_head") /\ Remain
  <2>1. /\ DOMAIN call' = Callers /\ CallInv(c)'
        /\ SameButStep(call[c], call'[c]) /\ call'[c].step = "note_head"
    BY <1>1, <1>4, GoesOn DEF CloneInv, MergeStepNames
  <2>2. OfTask(call[c]) /\ fate[call[c].task] = "merging"
    BY <1>1, IdleIs DEF CloneInv, CallInv, IsCall
  <2>3. b \in Branches /\ Integ(c) \in Branches /\ Integ(c) # b /\ Base # b
    BY <2>2, BranchesAre, BranchesDiffer DEF OfTask, Integ
  <2>4. /\ CloneShape' /\ clone'.tracking[Base] = clone.tracking[Base]
        /\ clone'.tracking[Integ(c)] = clone.tracking[Integ(c)]
        /\ clone'.fetchHead = origin[b] /\ Tip' = Tip /\ clone'.branch = clone.branch
        /\ clone'.cloned = clone.cloned /\ clone'.unmerged = clone.unmerged
    BY <1>4, <2>3, FetchedIs, BranchesAre DEF CloneInv, Tip
  <2>5. OriginInv' /\ FateInv'
    BY <1>1, <1>4, FateStays DEF CloneInv, OriginInv, Kept
  <2>6. IsWork(origin[b]) /\ (call[c].task \notin lied => call[c].task \in origin[b])
    BY <1>4, <2>2, <2>3 DEF CloneInv, OriginInv, FateInv, OfTask
  <2>7. Own(c)' = Own(c) /\ Integ(c)' = Integ(c)
    BY <2>1 DEF Own, Integ, SameButStep
  <2>8. CloneFits(c)' /\ WorkFits(c)'
    BY <1>1, <2>1, <2>4, <2>6, <2>7 DEF CloneInv, CloneFits, WorkFits, SameButStep, Before,
       InBranch, AfterNote
  <2> QED
    BY <2>1, <2>4, <2>5, <2>8, OneCaller
<1> QED
  BY <1>2, <1>3, <1>4

LEMMA RevParseSteps ==
    ASSUME OneAtATime, CloneInv, NEW c \in Callers, RevParse(c)
    PROVE  CloneInv'
<1>1. UNCHANGED <<clone, origin, lied>> /\ Remain
  BY DEF RevParse, Local
<1>2. CloneShape' /\ OriginInv' /\ FateInv' /\ DOMAIN call' = Callers
  BY <1>1, FateStays DEF CloneInv, CloneShape, OriginInv, Kept, RevParse
<1>3. IsCall(call[c])
  BY DEF CloneInv, CallInv
<1>4. CASE call[c].step = "note_head" /\ call' = [call EXCEPT ![c].pre = Tip,
                                                              ![c].step = "fast_forward"]
  <2>1. call'[c] = [op |-> call[c].op, task |-> call[c].task, graph |-> call[c].graph,
                    step |-> "fast_forward", retry |-> call[c].retry, found |-> call[c].found,
                    pre |-> Tip, sha |-> call[c].sha]
    BY <1>3, <1>4 DEF CloneInv, IsCall
  <2>2. call[c].op = "merge" /\ OfTask(call[c])
    BY <1>3, <1>4, IdleIs DEF IsCall, PromoteSteps, ResolveSteps, DiscardSteps, DiffSteps
  <2>3. /\ call'[c].op = call[c].op /\ call'[c].task = call[c].task
        /\ call'[c].graph = call[c].graph /\ call'[c].step = "fast_forward"
        /\ call'[c].found = call[c].found /\ call'[c].pre = Tip /\ OfTask(call'[c])
    BY <2>1, <2>2 DEF OfTask
  <2>4. CallInv(c)'
    BY <1>1, <2>1, <2>2, <2>3 DEF CloneInv, CallInv, IsCall, MergeStepNames, Remain
  <2>5. CloneFits(c)' /\ WorkFits(c)'
    BY <1>1, <1>4, <2>2, <2>3 DEF CloneInv, CloneFits, WorkFits, Before, InBranch, AfterNote,
       Own, Integ, Tip
  <2> QED
    BY <1>2, <2>4, <2>5, OneCaller
<1>5. CASE call[c].step = "note_pushed" /\ call' = [call EXCEPT ![c].sha = Tip,
                                                                ![c].step = "verify"]
  <2>1. call'[c] = [op |-> call[c].op, task |-> call[c].task, graph |-> call[c].graph,
                    step |-> "verify", retry |-> call[c].retry, found |-> call[c].found,
                    pre |-> call[c].pre, sha |-> Tip]
    BY <1>3, <1>5 DEF CloneInv, IsCall
  <2>2. \/ call[c].op = "merge" /\ OfTask(call[c])
        \/ call[c].op = "promote" /\ OfGraph(call[c])
    BY <1>3, <1>5, IdleIs DEF IsCall, ResolveSteps, DiscardSteps, DiffSteps
  <2>3. /\ call'[c].op = call[c].op /\ call'[c].task = call[c].task
        /\ call'[c].graph = call[c].graph /\ call'[c].step = "verify"
        /\ call'[c].found = call[c].found /\ call'[c].sha = Tip
        /\ OfTask(call[c]) => OfTask(call'[c])
        /\ OfGraph(call[c]) => OfGraph(call'[c])
    BY <2>1 DEF OfTask, OfGraph
  <2>4. CallInv(c)'
    BY <1>1, <2>1, <2>2, <2>3 DEF CloneInv, CallInv, IsCall, MergeStepNames, PromoteSteps, Remain
  <2>5. CloneFits(c)' /\ WorkFits(c)'
    BY <1>1, <1>5, <2>2, <2>3 DEF CloneInv, CloneFits, WorkFits, Before, InBranch, AfterNote,
       Own, Integ, Tip
  <2> QED
    BY <1>2, <2>4, <2>5, OneCaller
<1> QED
  BY <1>4, <1>5 DEF RevParse

\* What is merged is work, and holds what the call is about.
LEMMA TheirsAre ==
    ASSUME CloneInv, NEW c \in Callers, call[c].step \in {"fast_forward", "auto_merge"}
    PROVE  /\ call[c].op \in {"merge", "resolve", "promote"}
           /\ call[c].step = "auto_merge" => call[c].op # "resolve"
           /\ call[c].op \in {"merge", "resolve"} => OfTask(call[c])
           /\ call[c].op = "promote" => OfGraph(call[c])
           /\ IsWork(Theirs(c)) /\ IsWork(Tip) /\ clone.unmerged = NoCommit /\ clone.cloned
           /\ call[c].op = "promote" => origin[Integ(c)] = Theirs(c)
           /\ call[c].op \in {"merge", "resolve"} /\ call[c].task \notin lied =>
                 call[c].task \in Theirs(c)
<1>1. /\ call[c].op \in {"merge", "resolve", "promote"}
      /\ call[c].step = "auto_merge" => call[c].op # "resolve"
      /\ call[c].op \in {"merge", "resolve"} => OfTask(call[c])
      /\ call[c].op = "promote" => OfGraph(call[c])
  BY IdleIs DEF CloneInv, CallInv, IsCall, ResolveSteps, DiscardSteps, DiffSteps
<1>2. IsWork(Tip) /\ clone.unmerged = NoCommit /\ clone.cloned
  BY DEF CloneInv, CloneFits, InBranch
<1>3. CASE call[c].op = "merge"
  BY <1>1, <1>2, <1>3 DEF CloneInv, CloneFits, WorkFits, Theirs
<1>4. CASE call[c].op = "resolve"
  BY <1>1, <1>2, <1>4 DEF CloneInv, CloneFits, WorkFits, Theirs
<1>5. CASE call[c].op = "promote"
  BY <1>1, <1>2, <1>5 DEF CloneInv, CloneFits, WorkFits, Theirs, Before
<1> QED
  BY <1>1, <1>3, <1>4, <1>5

\* A merge that has brought the branch to x goes on to push it.
LEMMA MergedSteps ==
    ASSUME OneAtATime, CloneInv, NEW c \in Callers, UNCHANGED <<origin, lied>>,
           call[c].step \in {"fast_forward", "auto_merge"},
           NEW x, x = Tip \/ x = Theirs(c) \/ x = Tip \cup Theirs(c), Theirs(c) \subseteq x,
           clone' = MovedTo(x) \/ (clone' = clone /\ x = Tip),
           Goto(c, "push"), Remain
    PROVE  CloneInv'
<1>1. /\ call[c].op \in {"merge", "resolve", "promote"}
      /\ IsWork(x) /\ clone.unmerged = NoCommit /\ clone.cloned
      /\ call[c].op = "promote" => origin[Integ(c)] \subseteq x
      /\ call[c].op \in {"merge", "resolve"} /\ call[c].task \notin lied => call[c].task \in x
  BY TheirsAre DEF IsWork
<1>2. /\ DOMAIN call' = Callers /\ CallInv(c)'
      /\ SameButStep(call[c], call'[c]) /\ call'[c].step = "push"
  BY <1>1, GoesOn DEF CloneInv, MergeStepNames, PromoteSteps, ResolveSteps
<1>3. /\ CloneShape' /\ clone'.branch = clone.branch /\ Tip' = x
      /\ clone'.tracking = clone.tracking
      /\ clone'.cloned = clone.cloned /\ clone'.unmerged = NoCommit
  <2>1. CASE clone' = MovedTo(x)
    BY <2>1, MovedToIs DEF CloneInv
  <2>2. CASE clone' = clone /\ x = Tip
    BY <1>1, <2>2 DEF CloneInv, CloneShape, Tip
  <2> QED
    BY <2>1, <2>2
<1>4. OriginInv' /\ FateInv'
  BY FateStays DEF CloneInv, OriginInv, Kept
<1>5. Own(c)' = Own(c) /\ Integ(c)' = Integ(c)
  BY <1>2 DEF Own, Integ, SameButStep
<1>6. CloneFits(c)'
  BY <1>1, <1>2, <1>3, <1>5 DEF CloneInv, CloneFits, SameButStep, Before, InBranch, AfterNote
<1>7. WorkFits(c)'
  BY <1>1, <1>2, <1>3, <1>5 DEF WorkFits, SameButStep
<1> QED
  BY <1>2, <1>3, <1>4, <1>6, <1>7, OneCaller

LEMMA LockedOutSteps ==
    ASSUME OneAtATime, CloneInv, NEW c \in Callers, UNCHANGED <<origin, lied>>,
           call[c].step \in {"fast_forward", "auto_merge"}, LockedOut(c)
    PROVE  CloneInv'
<1>1. \/ /\ call[c].op = "merge"
         /\ call' = [call EXCEPT ![c].retry = @ + 1, ![c].step = "fast_forward"]
         /\ clone' = MovedTo(call[c].pre) /\ Remain
      \/ Return(c, "transient") /\ UNCHANGED clone
  BY DEF LockedOut
<1>2. CASE Return(c, "transient") /\ UNCHANGED clone
  BY <1>2, Quits
<1>3. CASE /\ call[c].op = "merge"
           /\ call' = [call EXCEPT ![c].retry = @ + 1, ![c].step = "fast_forward"]
           /\ clone' = MovedTo(call[c].pre) /\ Remain
  <2>1. IsCall(call[c]) /\ OfTask(call[c])
    BY <1>3, TheirsAre DEF CloneInv, CallInv
  <2>2. call'[c] = [op |-> call[c].op, task |-> call[c].task, graph |-> call[c].graph,
                    step |-> "fast_forward", retry |-> call[c].retry + 1,
                    found |-> call[c].found, pre |-> call[c].pre, sha |-> call[c].sha]
    BY <1>3, <2>1 DEF CloneInv, IsCall
  <2>3. /\ call'[c].op = call[c].op /\ call'[c].task = call[c].task
        /\ call'[c].graph = call[c].graph /\ call'[c].step = "fast_forward"
        /\ call'[c].found = call[c].found /\ call'[c].pre = call[c].pre /\ OfTask(call'[c])
    BY <2>1, <2>2 DEF OfTask
  <2>4. CallInv(c)'
    BY <1>3, <2>2, <2>3 DEF CloneInv, CallInv, IsCall, MergeStepNames, Remain
  <2>5. /\ CloneShape' /\ clone'.branch = clone.branch /\ Tip' = call[c].pre
        /\ clone'.tracking = clone.tracking /\ clone'.fetchHead = clone.fetchHead
        /\ clone'.cloned = clone.cloned /\ clone'.unmerged = NoCommit
    BY <1>3, MovedToIs DEF CloneInv
  <2>6. OriginInv' /\ FateInv' /\ DOMAIN call' = Callers
    BY <1>3, FateStays DEF CloneInv, OriginInv, Kept
  <2>7. Own(c)' = Own(c) /\ Integ(c)' = Integ(c)
    BY <2>3 DEF Own, Integ
  <2>8. CloneFits(c)' /\ WorkFits(c)'
    BY <1>3, <2>3, <2>5, <2>7 DEF CloneInv, CloneFits, WorkFits, Before, InBranch, AfterNote
  <2> QED
    BY <2>4, <2>5, <2>6, <2>8, OneCaller
<1> QED
  BY <1>1, <1>2, <1>3

LEMMA FastForwardSteps ==
    ASSUME OneAtATime, CloneInv, NEW c \in Callers, FastForward(c)
    PROVE  CloneInv'
<1>1. call[c].step = "fast_forward" /\ UNCHANGED <<origin, lied>>
  BY DEF FastForward, Local
<1>2. clone.unmerged = NoCommit /\ call[c].op \in {"merge", "resolve", "promote"}
  BY <1>1, TheirsAre
<1>3. \/ /\ Tip \subseteq Theirs(c) \/ Theirs(c) \subseteq Tip
         /\ Goto(c, "push") /\ Remain
         /\ clone' = IF Tip \subseteq Theirs(c) THEN MovedTo(Theirs(c)) ELSE clone
      \/ UNCHANGED clone /\ call[c].op = "resolve" /\ Return(c, "error")
      \/ UNCHANGED clone /\ call[c].op # "resolve" /\ Goto(c, "auto_merge") /\ Remain
      \/ LockedOut(c)
  BY Zenon DEF FastForward
<1>4. CASE /\ Tip \subseteq Theirs(c) \/ Theirs(c) \subseteq Tip
           /\ Goto(c, "push") /\ Remain
           /\ clone' = IF Tip \subseteq Theirs(c) THEN MovedTo(Theirs(c)) ELSE clone
  <2>1. CASE Tip \subseteq Theirs(c)
    BY <1>1, <1>4, <2>1, MergedSteps
  <2>2. CASE ~(Tip \subseteq Theirs(c))
    BY <1>1, <1>4, <2>2, MergedSteps
  <2> QED
    BY <2>1, <2>2
<1>5. CASE UNCHANGED clone /\ call[c].op = "resolve" /\ Return(c, "error")
  BY <1>1, <1>5, Quits
<1>6. CASE UNCHANGED clone /\ call[c].op # "resolve" /\ Goto(c, "auto_merge") /\ Remain
  <2>1. /\ DOMAIN call' = Callers /\ CallInv(c)'
        /\ SameButStep(call[c], call'[c]) /\ call'[c].step = "auto_merge"
    BY <1>2, <1>6, GoesOn DEF CloneInv, MergeStepNames, PromoteSteps
  <2>2. CloneShape' /\ OriginInv' /\ FateInv'
    BY <1>1, <1>6, FateStays DEF CloneInv, CloneShape, OriginInv, Kept
  <2>3. Own(c)' = Own(c) /\ Integ(c)' = Integ(c) /\ Tip' = Tip
    BY <1>6, <2>1 DEF Own, Integ, SameButStep, Tip
  <2>4. CloneFits(c)' /\ WorkFits(c)'
    BY <1>1, <1>2, <1>6, <2>1, <2>3 DEF CloneInv, CloneFits, WorkFits, SameButStep, Before,
       InBranch, AfterNote
  <2> QED
    BY <2>1, <2>2, <2>4, OneCaller
<1> QED
  BY <1>1, <1>3, <1>4, <1>5, <1>6, LockedOutSteps

LEMMA AutoMergeSteps ==
    ASSUME OneAtATime, CloneInv, NEW c \in Callers, AutoMerge(c)
    PROVE  CloneInv'
<1>1. call[c].step = "auto_merge" /\ UNCHANGED <<origin, lied>>
  BY DEF AutoMerge, Local
<1>2. /\ clone.unmerged = NoCommit /\ call[c].op \in {"merge", "promote"} /\ clone.cloned
      /\ IsWork(Theirs(c))
  BY <1>1, TheirsAre
<1>3. \/ clone' = MovedTo(Tip \cup Theirs(c)) /\ Goto(c, "push") /\ Remain
      \/ clone' = [clone EXCEPT !.unmerged = Theirs(c)] /\ Goto(c, "conflict") /\ Remain
      \/ LockedOut(c)
  BY <1>2 DEF AutoMerge
<1>4. CASE clone' = MovedTo(Tip \cup Theirs(c)) /\ Goto(c, "push") /\ Remain
  BY <1>1, <1>4, MergedSteps
<1>5. CASE clone' = [clone EXCEPT !.unmerged = Theirs(c)] /\ Goto(c, "conflict") /\ Remain
  <2>1. /\ DOMAIN call' = Callers /\ CallInv(c)'
        /\ SameButStep(call[c], call'[c]) /\ call'[c].step = "conflict"
    BY <1>2, <1>5, GoesOn DEF CloneInv, MergeStepNames, PromoteSteps
  <2>2. /\ CloneShape' /\ clone'.branch = clone.branch /\ clone'.heads = clone.heads
        /\ clone'.tracking = clone.tracking /\ clone'.cloned = clone.cloned
        /\ clone'.unmerged = Theirs(c)
    BY <1>5 DEF CloneInv, CloneShape
  <2>3. OriginInv' /\ FateInv'
    BY <1>1, <1>5, FateStays DEF CloneInv, OriginInv, Kept
  <2>4. Own(c)' = Own(c) /\ Integ(c)' = Integ(c) /\ Tip' = Tip
    BY <2>1, <2>2 DEF Own, Integ, SameButStep, Tip
  <2>5. CloneFits(c)'
    BY <1>1, <1>2, <2>1, <2>2, <2>4 DEF CloneInv, CloneFits, SameButStep, Before, InBranch,
       AfterNote
  <2>6. WorkFits(c)'
    BY <1>1, <1>2, <2>1, <2>2, <2>4, TheirsAre DEF WorkFits, SameButStep
  <2> QED
    BY <2>1, <2>2, <2>3, <2>5, <2>6, OneCaller
<1> QED
  BY <1>1, <1>3, <1>4, <1>5, LockedOutSteps

LEMMA OnConflictSteps ==
    ASSUME OneAtATime, CloneInv, NEW c \in Callers, OnConflict(c)
    PROVE  CloneInv'
<1>1. /\ call[c].step = "conflict" /\ UNCHANGED <<origin, lied>> /\ clone.cloned
      /\ IsWork(Tip) /\ IsWork(clone.tracking[Base]) /\ call[c] # Idle
  BY IdleIs DEF OnConflict, Local, CloneInv, CloneFits, InBranch
<1>2. OriginInv'
  BY <1>1 DEF CloneInv, OriginInv
<1>3. CASE call[c].op = "merge"
  <2>1. IsWork(clone.unmerged) /\ clone.unmerged # NoCommit
    BY <1>1, <1>3 DEF CloneInv, CloneFits, IsWork, NoCommit
  <2>2. clone' = MovedTo(Tip \cup clone.unmerged) /\ Goto(c, "push_conflict") /\ Remain
    BY <1>3, <2>1 DEF OnConflict
  <2>3. /\ DOMAIN call' = Callers /\ CallInv(c)'
        /\ SameButStep(call[c], call'[c]) /\ call'[c].step = "push_conflict"
    BY <1>3, <2>2, GoesOn DEF CloneInv, MergeStepNames
  <2>4. /\ CloneShape' /\ clone'.branch = clone.branch /\ Tip' = Tip \cup clone.unmerged
        /\ clone'.tracking = clone.tracking
        /\ clone'.cloned = clone.cloned /\ clone'.unmerged = NoCommit
    BY <2>2, MovedToIs DEF CloneInv
  <2>5. FateInv'
    BY <1>1, <2>2, FateStays DEF CloneInv, Kept
  <2>6. Own(c)' = Own(c) /\ Integ(c)' = Integ(c) /\ IsWork(Tip \cup clone.unmerged)
    BY <1>1, <2>1, <2>3 DEF Own, Integ, SameButStep, IsWork
  <2>7. CloneFits(c)' /\ WorkFits(c)'
    BY <1>1, <1>3, <2>3, <2>4, <2>6 DEF CloneInv, CloneFits, WorkFits, SameButStep, Before,
       InBranch, AfterNote
  <2> QED
    BY <1>2, <2>3, <2>4, <2>5, <2>7, OneCaller
<1>4. CASE call[c].op = "promote"
  <2>1. clone' = [clone EXCEPT !.unmerged = NoCommit] /\ Return(c, "conflict")
    BY <1>4 DEF OnConflict
  <2>2. /\ CloneShape' /\ clone'.tracking = clone.tracking /\ clone'.unmerged = NoCommit
    BY <2>1 DEF CloneInv, CloneShape
  <2>3. FateInv' /\ DOMAIN call' = Callers /\ call'[c] = Idle /\ CallInv(c)'
    BY <1>1, <1>4, <2>1, GivesUp DEF CloneInv, Kept
  <2> QED
    BY <1>1, <1>2, <2>2, <2>3, IdleFits, OneCaller
<1> QED
  BY <1>3, <1>4 DEF OnConflict

\* A push that is accepted loses nothing.
LEMMA PushKeeps ==
    ASSUME OriginInv, NEW b \in Branches, NEW x, IsWork(x), Accepts(b, x),
           origin' = [origin EXCEPT ![b] = x]
    PROVE  /\ OriginInv' /\ Kept /\ origin'[b] = x
           /\ \A d \in Branches \ {b} : origin'[d] = origin[d]
<1>1. /\ DOMAIN origin' = Branches /\ origin'[b] = x
      /\ \A d \in Branches \ {b} : origin'[d] = origin[d]
  BY DEF OriginInv
<1>2. \A t \in Tasks : t \in origin[b] => t \in x
  BY BranchesAre DEF Accepts, NoCommit
<1> QED
  BY <1>1, <1>2, BranchesAre DEF OriginInv, Kept

LEMMA PushConflictSteps ==
    ASSUME OneAtATime, CloneInv, NEW c \in Callers, PushConflict(c)
    PROVE  CloneInv'
<1> DEFINE b == Conflict(call[c].task)
<1>1. call[c].step = "push_conflict" /\ UNCHANGED <<clone, lied>> /\ Remain
  BY DEF PushConflict
<1>2. call[c].op = "merge" /\ OfTask(call[c]) /\ b \in Branches
  BY <1>1, IdleIs, BranchesAre DEF CloneInv, CallInv, IsCall, PromoteSteps, ResolveSteps,
     DiscardSteps, DiffSteps, OfTask
<1>3. clone.cloned /\ clone.unmerged = NoCommit /\ IsWork(Tip) /\ CloneShape'
  BY <1>1 DEF CloneInv, CloneFits, InBranch, CloneShape
<1>4. PICK s \in {"reset", "reset_failed"} :
         /\ Goto(c, s) /\ OriginInv' /\ Kept
         /\ s = "reset" => origin'[b] = Tip
  <2>1. CASE Accepts(b, Tip) /\ origin' = [origin EXCEPT ![b] = Tip] /\ Goto(c, "reset")
    BY <1>2, <1>3, <2>1, PushKeeps DEF CloneInv
  <2>2. CASE Goto(c, "reset_failed") /\ UNCHANGED origin
    BY <2>2 DEF CloneInv, OriginInv, Kept
  <2> QED
    BY <2>1, <2>2 DEF PushConflict
<1>5. /\ DOMAIN call' = Callers /\ CallInv(c)'
      /\ SameButStep(call[c], call'[c]) /\ call'[c].step = s
  BY <1>1, <1>2, <1>4, GoesOn DEF CloneInv, MergeStepNames
<1>6. FateInv'
  BY <1>1, <1>4, FateStays DEF CloneInv
<1>7. Own(c)' = Own(c) /\ Integ(c)' = Integ(c) /\ Tip' = Tip
  BY <1>1, <1>5 DEF Own, Integ, SameButStep, Tip
<1>8. CloneFits(c)' /\ WorkFits(c)'
  BY <1>1, <1>2, <1>4, <1>5, <1>7 DEF CloneInv, CloneFits, WorkFits, SameButStep, Before,
     InBranch, AfterNote
<1> QED
  BY <1>3, <1>4, <1>5, <1>6, <1>8, OneCaller

LEMMA ResetHardSteps ==
    ASSUME OneAtATime, CloneInv, NEW c \in Callers, ResetHard(c)
    PROVE  CloneInv'
<1>1. /\ call[c].step \in {"reset", "reset_failed"} /\ UNCHANGED <<origin, lied>>
      /\ clone' = MovedTo(call[c].pre)
  BY DEF ResetHard, Local
<1>2. PICK s : s = IF call[c].step = "reset" THEN "conflict" ELSE "error"
  OBVIOUS
<1>3. Return(c, s)
  BY <1>2 DEF ResetHard
<1>4. call[c].op = "merge" /\ call[c] # Idle
  BY <1>1, IdleIs DEF CloneInv, CallInv, IsCall, PromoteSteps, ResolveSteps, DiscardSteps, DiffSteps
<1>5. call[c].step = "reset" =>
         call[c].task \in lied \/ call[c].task \in origin'[Conflict(call[c].task)]
  BY <1>1, <1>4 DEF CloneInv, WorkFits
<1>6. FateInv' /\ DOMAIN call' = Callers /\ call'[c] = Idle /\ CallInv(c)'
  BY <1>1, <1>2, <1>3, <1>4, <1>5, GivesUp DEF CloneInv, Kept
<1>7. /\ CloneShape' /\ clone'.tracking = clone.tracking /\ clone'.unmerged = NoCommit
      /\ clone'.cloned = clone.cloned
  BY <1>1, MovedToIs DEF CloneInv
<1>8. OriginInv' /\ (clone.cloned => IsWork(clone.tracking[Base]))
  BY <1>1 DEF CloneInv, OriginInv, CloneFits
<1> QED
  BY <1>6, <1>7, <1>8, IdleFits, OneCaller

LEMMA PushSteps ==
    ASSUME OneAtATime, CloneInv, NEW c \in Callers, Push(c)
    PROVE  CloneInv'
<1> DEFINE next == IF call[c].op = "resolve" THEN "delete_conflict" ELSE "note_pushed"
           pushed == [origin EXCEPT ![Own(c)] = Tip]
<1>1. call[c].step = "push" /\ UNCHANGED clone
  BY DEF Push
<1>2. /\ call[c].op \in {"merge", "resolve", "promote"} /\ call[c] # Idle
      /\ call[c].op \in {"merge", "resolve"} => OfTask(call[c])
      /\ Own(c) \in Branches /\ call[c].graph \in Graphs
  BY <1>1, IdleIs, BranchesAre DEF CloneInv, CallInv, IsCall, DiscardSteps, DiffSteps, OfTask,
     OfGraph, Own, Integ
<1>3. /\ clone.cloned /\ clone.unmerged = NoCommit /\ IsWork(Tip) /\ CloneShape'
      /\ clone.branch = Own(c) /\ clone.heads[Own(c)] = Tip /\ IsWork(clone.tracking[Base])
  BY <1>1 DEF CloneInv, CloneFits, InBranch, CloneShape, Tip
<1>4. /\ Own(c) = IF call[c].op = "promote" THEN Base ELSE Integ(c)
      /\ Integ(c) \in Branches /\ Integ(c) # Base
  BY <1>2, BranchesAre, BranchesDiffer DEF Own, Integ
<1>5. \/ /\ Accepts(Own(c), Tip) /\ origin' = pushed /\ Goto(c, next) /\ Remain /\ UNCHANGED lied
      \/ /\ origin' = origin \/ (Accepts(Own(c), Tip) /\ origin' = pushed)
         /\ Return(c, "error") /\ UNCHANGED lied
      \/ /\ Goto(c, next) /\ Remain /\ UNCHANGED origin
         /\ lied' = IF next = "delete_conflict" THEN lied \cup {call[c].task} ELSE lied
  BY <1>3 DEF Push
<1>6. origin' = pushed /\ Accepts(Own(c), Tip) =>
         /\ OriginInv' /\ Kept /\ origin'[Own(c)] = Tip
         /\ \A d \in Branches \ {Own(c)} : origin'[d] = origin[d]
  BY <1>2, <1>3, PushKeeps DEF CloneInv
<1>7. origin' = origin => OriginInv' /\ Kept
  BY DEF CloneInv, OriginInv, Kept
<1>8. CASE /\ origin' = origin \/ (Accepts(Own(c), Tip) /\ origin' = pushed)
           /\ Return(c, "error") /\ UNCHANGED lied
  <2>1. FateInv' /\ DOMAIN call' = Callers /\ call'[c] = Idle /\ CallInv(c)'
    BY <1>2, <1>6, <1>7, <1>8, GivesUp DEF CloneInv
  <2> QED
    BY <1>1, <1>3, <1>6, <1>7, <1>8, <2>1, IdleFits, OneCaller
<1>9. CASE Goto(c, next) /\ Remain
  <2>1. /\ DOMAIN call' = Callers /\ CallInv(c)'
        /\ SameButStep(call[c], call'[c]) /\ call'[c].step = next
    BY <1>2, <1>9, GoesOn DEF CloneInv, MergeStepNames, ResolveSteps, PromoteSteps
  <2>2. Own(c)' = Own(c) /\ Integ(c)' = Integ(c) /\ Tip' = Tip
    BY <1>1, <2>1 DEF Own, Integ, SameButStep, Tip
  <2>3. CASE Accepts(Own(c), Tip) /\ origin' = pushed /\ UNCHANGED lied
    <3>1. FateInv'
      BY <1>6, <1>9, <2>3, FateStays DEF CloneInv
    <3>2. CloneFits(c)' /\ WorkFits(c)'
      BY <1>1, <1>2, <1>3, <1>4, <1>6, <2>1, <2>2, <2>3 DEF CloneInv, CloneFits, WorkFits,
         SameButStep, Before, InBranch, AfterNote
    <3> QED
      BY <1>3, <1>6, <2>1, <2>3, <3>1, <3>2, OneCaller
  <2>4. CASE /\ UNCHANGED origin
             /\ lied' = IF next = "delete_conflict" THEN lied \cup {call[c].task} ELSE lied
    <3>1. FateInv'
      BY <1>9, <2>4 DEF CloneInv, FateInv, Remain
    <3>2. CloneFits(c)' /\ WorkFits(c)'
      BY <1>1, <1>2, <1>3, <2>1, <2>2, <2>4 DEF CloneInv, CloneFits, WorkFits,
         SameButStep, Before, InBranch, AfterNote
    <3> QED
      BY <1>3, <1>7, <2>1, <2>4, <3>1, <3>2, OneCaller
  <2> QED
    BY <1>5, <1>8, <2>3, <2>4
<1> QED
  BY <1>5, <1>8, <1>9

LEMMA VerifySteps ==
    ASSUME OneAtATime, CloneInv, NEW c \in Callers, Verify(c)
    PROVE  CloneInv'
<1>1. call[c].step = "verify" /\ UNCHANGED <<clone, origin, lied>>
  BY DEF Verify, Local
<1>2. \/ Confirmed(Own(c), call[c].sha) /\ Goto(c, "delete") /\ Remain
      \/ Return(c, "error")
  BY DEF Verify
<1>3. CASE Return(c, "error")
  BY <1>1, <1>3, Quits
<1>4. CASE Confirmed(Own(c), call[c].sha) /\ Goto(c, "delete") /\ Remain
  <2>1. call[c].op \in {"merge", "promote"}
    BY <1>1, IdleIs DEF CloneInv, CallInv, IsCall, DiscardSteps, DiffSteps, ResolveSteps
  <2>2. /\ DOMAIN call' = Callers /\ CallInv(c)'
        /\ SameButStep(call[c], call'[c]) /\ call'[c].step = "delete"
    BY <1>4, <2>1, GoesOn DEF CloneInv, MergeStepNames, PromoteSteps
  <2>3. CloneShape' /\ OriginInv' /\ FateInv'
    BY <1>1, <1>4, FateStays DEF CloneInv, CloneShape, OriginInv, Kept
  <2>4. Own(c)' = Own(c) /\ Integ(c)' = Integ(c) /\ Tip' = Tip
    BY <1>1, <2>2 DEF Own, Integ, SameButStep, Tip
  <2>5. CloneFits(c)' /\ WorkFits(c)'
    BY <1>1, <1>4, <2>1, <2>2, <2>4 DEF CloneInv, CloneFits, WorkFits, SameButStep, Before,
       InBranch, AfterNote, Confirmed, Own
  <2> QED
    BY <2>2, <2>3, <2>5, OneCaller
<1> QED
  BY <1>2, <1>3, <1>4

\* A branch other than the base is deleted, or stays.
Deleted(b) ==
    /\ DOMAIN origin' = Branches
    /\ origin'[b] = NoCommit \/ origin'[b] = origin[b]
    /\ \A d \in Branches \ {b} : origin'[d] = origin[d]

LEMMA DeleteRemoteSteps ==
    ASSUME OneAtATime, CloneInv, NEW c \in Callers, DeleteRemote(c)
    PROVE  CloneInv'
<1> DEFINE k == call[c]
           b == IF k.step = "delete_conflict" THEN Conflict(k.task)
                ELSE IF k.op = "promote" THEN Integ(c) ELSE TaskBranch(k.task)
<1>1. k.step \in {"delete", "delete_conflict", "delete_task"} /\ UNCHANGED <<clone, lied>>
  BY DEF DeleteRemote
<1>2. /\ k.op \in {"merge", "resolve", "promote", "discard"} /\ k # Idle /\ IsCall(k)
      /\ k.op # "promote" => OfTask(k) /\ fate[k.task] = "merging" /\ k.task # NoTask
      /\ k.op = "promote" => OfGraph(k) /\ promotion[k.graph] = "promoting"
      /\ k.op \in {"merge", "promote"} <=> k.step = "delete"
  BY <1>1, IdleIs, BranchesAre DEF CloneInv, CallInv, IsCall, MergeStepNames, PromoteSteps,
     DiscardSteps, DiffSteps, ResolveSteps, OfTask
<1>3. b \in Branches /\ b # Base /\ Integ(c) \in Branches
  BY <1>1, <1>2, BranchesAre, BranchesDiffer DEF Integ, OfTask, OfGraph
<1>4. Deleted(b) /\ OriginInv'
  <2>1. origin' = [origin EXCEPT ![b] = NoCommit] \/ origin' = origin
    BY DEF DeleteRemote
  <2> HIDE DEF b
  <2> QED
    BY <1>3, <2>1, BranchesAre DEF CloneInv, OriginInv, Deleted
<1>5. CloneShape' /\ clone.cloned /\ clone.unmerged = NoCommit /\ IsWork(clone.tracking[Base])
  BY <1>1 DEF CloneInv, CloneFits, CloneShape
<1>6. DOMAIN fate = Tasks /\ DOMAIN promotion = Graphs /\ FateInv
  BY DEF CloneInv, FateInv
<1>7. CASE k.step = "delete_conflict"
  <2>1. Goto(c, "delete_task") /\ Remain
    BY <1>7 DEF DeleteRemote
  <2>2. /\ DOMAIN call' = Callers /\ CallInv(c)'
        /\ SameButStep(call[c], call'[c]) /\ call'[c].step = "delete_task"
    BY <1>2, <1>7, <2>1, GoesOn DEF CloneInv, ResolveSteps, DiscardSteps
  <2>3. b = Conflict(k.task)
    BY <1>7
  <2>4. ASSUME NEW t \in Tasks \ lied
        PROVE  /\ origin'[TaskBranch(t)] = origin[TaskBranch(t)] /\ origin'[Base] = origin[Base]
               /\ origin'[Integration(GraphOf[t])] = origin[Integration(GraphOf[t])]
               /\ t # k.task => origin'[Conflict(t)] = origin[Conflict(t)]
    BY <1>3, <1>4, <2>3, BranchesAre, BranchesDiffer DEF Deleted
  <2>5. FateInv'
    BY <1>1, <1>2, <1>6, <1>7, <2>1, <2>4 DEF FateInv, Remain
  <2>6. Integ(c)' = Integ(c) /\ origin'[Integ(c)] = origin[Integ(c)]
    BY <1>3, <1>4, <2>2, <2>3, BranchesDiffer DEF Integ, SameButStep, Deleted
  <2>7. CloneFits(c)' /\ WorkFits(c)'
    BY <1>1, <1>2, <1>5, <1>7, <2>2, <2>6 DEF CloneInv, CloneFits, WorkFits,
       SameButStep, Before, InBranch, AfterNote
  <2> QED
    BY <1>4, <1>5, <2>2, <2>5, <2>7, OneCaller
<1>8. CASE k.step # "delete_conflict"
  <2>1. PICK s : s = IF k.op = "discard" THEN "discarded" ELSE "integrated"
    OBVIOUS
  <2>2. Return(c, s)
    BY <1>8, <2>1 DEF DeleteRemote
  <2>3. call'[c] = Idle /\ DOMAIN call' = Callers
    BY <2>2 DEF Return, CloneInv
  <2>4. CallInv(c)'
    BY <2>3, IdleIs DEF CallInv
  <2>5. CloneFits(c)' /\ WorkFits(c)'
    BY <1>1, <1>5, <2>3, IdleFits
  <2>6. FateInv'
    <3>1. CASE k.op = "promote"
      <4>1. /\ DOMAIN promotion' = Graphs /\ promotion'[k.graph] = "integrated" /\ fate' = fate
            /\ \A g \in Graphs \ {k.graph} : promotion'[g] = promotion[g]
        BY <1>2, <1>6, <2>1, <2>2, <3>1 DEF Return, OfGraph
      <4>2. b = Integration(k.graph) /\ origin[Integ(c)] \subseteq origin[Base]
        BY <1>1, <1>2, <3>1 DEF CloneInv, WorkFits, Integ
      <4>3. ASSUME NEW t \in Tasks \ lied
            PROVE  /\ origin'[TaskBranch(t)] = origin[TaskBranch(t)]
                   /\ origin'[Base] = origin[Base]
                   /\ origin'[Conflict(t)] = origin[Conflict(t)]
                   /\ GraphOf[t] # k.graph => origin'[Integration(GraphOf[t])] =
                                                 origin[Integration(GraphOf[t])]
        BY <1>3, <1>4, <4>2, BranchesAre, BranchesDiffer DEF Deleted
      <4>4. ASSUME NEW t \in Tasks \ lied, GraphOf[t] = k.graph, fate[t] = "integrated"
            PROVE  t \in origin'[Base]
        BY <4>2, <4>3, <4>4 DEF CloneInv, FateInv, Integ
      <4>5. ASSUME NEW t \in Tasks, promotion'[GraphOf[t]] # "none"
            PROVE  fate'[t] \in {"working", "integrated"}
        <5>1. promotion[GraphOf[t]] # "none"
          <6>1. GraphOf[t] \in Graphs
            BY BranchesAre
          <6>2. CASE GraphOf[t] = k.graph
            BY <1>2, <3>1, <6>2
          <6>3. CASE GraphOf[t] # k.graph
            BY <4>1, <4>5, <6>1, <6>3
          <6> QED
            BY <6>2, <6>3
        <5> QED
          BY <1>6, <4>1, <5>1 DEF FateInv
      <4>6. ASSUME NEW t \in Tasks \ lied
            PROVE  /\ \/ fate'[t] \in {"working", "integrated", "discarded"}
                      \/ t \in origin'[TaskBranch(t)]
                   /\ fate'[t] = "conflict" => t \in origin'[Conflict(t)]
                   /\ fate'[t] = "integrated" =>
                         \/ t \in origin'[Base]
                         \/ /\ t \in origin'[Integration(GraphOf[t])]
                            /\ promotion'[GraphOf[t]] # "integrated"
        BY <4>1, <4>3, <4>4, BranchesAre DEF CloneInv, FateInv
      <4> QED
        BY <1>1, <1>6, <4>1, <4>5, <4>6 DEF FateInv
    <3>2. CASE k.op # "promote"
      <4>1. /\ DOMAIN fate' = Tasks /\ fate'[k.task] = s /\ promotion' = promotion
            /\ \A t \in Tasks \ {k.task} : fate'[t] = fate[t]
        BY <1>2, <1>6, <2>2, <3>2 DEF Return, OfTask
      <4>2. b = TaskBranch(k.task)
        BY <1>8, <3>2
      <4>3. ASSUME NEW t \in Tasks \ lied
            PROVE  /\ t # k.task => origin'[TaskBranch(t)] = origin[TaskBranch(t)]
                   /\ origin'[Base] = origin[Base]
                   /\ origin'[Conflict(t)] = origin[Conflict(t)]
                   /\ origin'[Integration(GraphOf[t])] = origin[Integration(GraphOf[t])]
        BY <1>3, <1>4, <4>2, BranchesAre, BranchesDiffer DEF Deleted
      <4>4. promotion[GraphOf[k.task]] = "none"
        BY <1>2, <3>2 DEF CloneInv, FateInv, OfTask
      <4>5. k.task \notin lied /\ k.op # "discard" =>
               k.task \in origin[Integration(GraphOf[k.task])]
        BY <1>1, <1>2, <1>8, <3>2 DEF CloneInv, WorkFits, OfTask, Integ
      <4>6. \A t \in Tasks :
               promotion'[GraphOf[t]] # "none" => fate'[t] \in {"working", "integrated"}
        BY <4>1, <4>4 DEF CloneInv, FateInv
      <4>7. ASSUME NEW t \in Tasks \ lied
            PROVE  /\ \/ fate'[t] \in {"working", "integrated", "discarded"}
                      \/ t \in origin'[TaskBranch(t)]
                   /\ fate'[t] = "conflict" => t \in origin'[Conflict(t)]
                   /\ fate'[t] = "integrated" =>
                         \/ t \in origin'[Base]
                         \/ /\ t \in origin'[Integration(GraphOf[t])]
                            /\ promotion'[GraphOf[t]] # "integrated"
        <5>1. CASE t = k.task
          BY <2>1, <4>1, <4>3, <4>4, <4>5, <5>1
        <5>2. CASE t # k.task
          BY <4>1, <4>3, <5>2 DEF CloneInv, FateInv
        <5> QED
          BY <5>1, <5>2
      <4> QED
        BY <1>1, <1>6, <4>1, <4>6, <4>7 DEF FateInv
    <3> QED
      BY <3>1, <3>2
  <2> QED
    BY <1>4, <1>5, <2>3, <2>4, <2>5, <2>6, OneCaller
<1> QED
  BY <1>7, <1>8

LEMMA FetchConflictSteps ==
    ASSUME OneAtATime, CloneInv, NEW c \in Callers, FetchConflict(c)
    PROVE  CloneInv'
<1> DEFINE b == Conflict(call[c].task)
           next == IF call[c].found THEN "ancestor" ELSE "checkout"
<1>1. call[c].step = "fetch_conflict" /\ call[c].op = "resolve" /\ UNCHANGED <<origin, lied>>
  BY DEF FetchConflict, At, Local
<1>2. \/ origin[b] # NoCommit /\ clone' = Fetched(b) /\ Goto(c, next) /\ Remain
      \/ Return(c, "error") /\ UNCHANGED clone
  BY DEF FetchConflict
<1>3. CASE Return(c, "error") /\ UNCHANGED clone
  BY <1>1, <1>3, Quits
<1>4. CASE origin[b] # NoCommit /\ clone' = Fetched(b) /\ Goto(c, next) /\ Remain
  <2>1. /\ DOMAIN call' = Callers /\ CallInv(c)'
        /\ SameButStep(call[c], call'[c]) /\ call'[c].step = next
    BY <1>1, <1>4, GoesOn DEF CloneInv, ResolveSteps
  <2>2. OfTask(call[c])
    BY <1>1, IdleIs DEF CloneInv, CallInv, IsCall
  <2>3. b \in Branches /\ Integ(c) \in Branches /\ Integ(c) # b /\ Base # b
    BY <2>2, BranchesAre, BranchesDiffer DEF OfTask, Integ
  <2>4. /\ CloneShape' /\ clone'.tracking[Base] = clone.tracking[Base]
        /\ clone'.tracking[Integ(c)] = clone.tracking[Integ(c)]
        /\ clone'.tracking[b] = origin[b]
        /\ clone'.cloned = clone.cloned /\ clone'.unmerged = clone.unmerged
    BY <1>4, <2>3, FetchedIs, BranchesAre DEF CloneInv
  <2>5. OriginInv' /\ FateInv'
    BY <1>1, <1>4, FateStays DEF CloneInv, OriginInv, Kept
  <2>6. IsWork(origin[b]) /\ (call[c].task \notin lied => call[c].task \in origin[b])
    BY <1>1, <1>4, <2>3 DEF CloneInv, OriginInv, WorkFits
  <2>7. Integ(c)' = Integ(c)
    BY <2>1 DEF Integ, SameButStep
  <2>8. CloneFits(c)' /\ WorkFits(c)'
    BY <1>1, <2>1, <2>4, <2>6, <2>7 DEF CloneInv, CloneFits, WorkFits, SameButStep, Before,
       InBranch, AfterNote
  <2> QED
    BY <2>1, <2>4, <2>5, <2>8, OneCaller
<1> QED
  BY <1>2, <1>3, <1>4

LEMMA AncestorSteps ==
    ASSUME OneAtATime, CloneInv, NEW c \in Callers, Ancestor(c)
    PROVE  CloneInv'
<1>1. /\ call[c].step = "ancestor" /\ call[c].op = "resolve"
      /\ UNCHANGED <<clone, origin, lied>>
      /\ (Goto(c, "checkout") /\ Remain) \/ Return(c, "error")
  BY DEF Ancestor, At, Local
<1>2. CASE Return(c, "error")
  BY <1>1, <1>2, Quits
<1>3. CASE Goto(c, "checkout") /\ Remain
  <2>1. /\ DOMAIN call' = Callers /\ CallInv(c)'
        /\ SameButStep(call[c], call'[c]) /\ call'[c].step = "checkout"
    BY <1>1, <1>3, GoesOn DEF CloneInv, ResolveSteps
  <2>2. CloneShape' /\ OriginInv' /\ FateInv'
    BY <1>1, <1>3, FateStays DEF CloneInv, CloneShape, OriginInv, Kept
  <2>3. Integ(c)' = Integ(c)
    BY <2>1 DEF Integ, SameButStep
  <2>4. CloneFits(c)' /\ WorkFits(c)'
    BY <1>1, <2>1, <2>3 DEF CloneInv, CloneFits, WorkFits, SameButStep, Before,
       InBranch, AfterNote
  <2> QED
    BY <2>1, <2>2, <2>4, OneCaller
<1> QED
  BY <1>1, <1>2, <1>3

LEMMA BeginIs ==
    ASSUME DOMAIN call = Callers, NEW c \in Callers, NEW op, NEW t, NEW g, Begin(c, op, t, g)
    PROVE  /\ call[c] = Idle /\ DOMAIN call' = Callers
           /\ call'[c].op = op /\ call'[c].task = t /\ call'[c].graph = g
           /\ call'[c].step = "ensure_clone" /\ call'[c].found = FALSE
           /\ op \in {"merge", "resolve", "discard"} /\ t \in Tasks /\ g = GraphOf[t] =>
                 IsCall(call'[c])
           /\ op \in {"promote", "diff"} /\ t = NoTask /\ g \in Graphs => IsCall(call'[c])
<1>1. /\ call[c] = Idle /\ DOMAIN call' = Callers
      /\ call'[c] = [op |-> op, task |-> t, graph |-> g, step |-> "ensure_clone", retry |-> 0,
                     found |-> FALSE, pre |-> NoCommit, sha |-> NoCommit]
  BY DEF Begin, Idle
<1> QED
  BY <1>1 DEF IsCall, OfTask, OfGraph, MergeStepNames, PromoteSteps, ResolveSteps, DiscardSteps,
     DiffSteps

\* A call begins with the clone as the last one left it.
LEMMA BeginFits ==
    ASSUME CloneInv, NEW c \in Callers, call[c] = Idle, call'[c].step = "ensure_clone",
           call'[c].found = FALSE, UNCHANGED <<origin, clone, lied>>,
           call'[c].op = "resolve" /\ call'[c].task \notin lied =>
              call'[c].task \in origin[Conflict(call'[c].task)]
    PROVE  CloneFits(c)' /\ WorkFits(c)' /\ CloneShape' /\ OriginInv'
<1>1. clone.unmerged = NoCommit /\ (clone.cloned => IsWork(clone.tracking[Base]))
  BY IdleIs DEF CloneInv, CloneFits
<1> QED
  BY <1>1 DEF CloneInv, CloneFits, WorkFits, CloneShape, OriginInv, Before, InBranch, AfterNote

LEMMA TaskCallSteps ==
    ASSUME OneAtATime, CloneInv, NEW c \in Callers, NEW t \in Tasks,
           NEW op \in {"merge", "resolve", "discard"}, Begin(c, op, t, GraphOf[t]),
           fate[t] = "conflict" \/ (fate[t] = "pushed" /\ op = "merge"),
           fate' = [fate EXCEPT ![t] = "merging"], UNCHANGED <<origin, clone, promotion, lied>>
    PROVE  CloneInv'
<1>1. /\ call[c] = Idle /\ DOMAIN call' = Callers
      /\ call'[c].op = op /\ call'[c].task = t /\ IsCall(call'[c])
      /\ call'[c].step = "ensure_clone" /\ call'[c].found = FALSE
  <2>1. /\ call[c] = Idle /\ DOMAIN call' = Callers
        /\ call'[c] = [op |-> op, task |-> t, graph |-> GraphOf[t], step |-> "ensure_clone",
                       retry |-> 0, found |-> FALSE, pre |-> NoCommit, sha |-> NoCommit]
    BY DEF CloneInv, Begin, Idle
  <2> QED
    BY <2>1 DEF IsCall, OfTask, MergeStepNames, ResolveSteps, DiscardSteps
<1>2. /\ DOMAIN fate' = Tasks /\ fate'[t] = "merging"
      /\ \A u \in Tasks \ {t} : fate'[u] = fate[u]
  BY DEF CloneInv, FateInv
<1>3. CallInv(c)'
  BY <1>1, <1>2 DEF CallInv
<1>4. op = "resolve" /\ t \notin lied => t \in origin[Conflict(t)]
  BY DEF CloneInv, FateInv
<1>5. CloneFits(c)' /\ WorkFits(c)' /\ CloneShape' /\ OriginInv'
  BY <1>1, <1>4, BeginFits
<1>6. promotion[GraphOf[t]] = "none" /\ (t \notin lied => t \in origin[TaskBranch(t)])
  BY DEF CloneInv, FateInv
<1>7. FateInv'
  <2>1. \A u \in Tasks :
           promotion'[GraphOf[u]] # "none" => fate'[u] \in {"working", "integrated"}
    BY <1>2, <1>6 DEF CloneInv, FateInv
  <2>2. ASSUME NEW u \in Tasks \ lied
        PROVE  /\ \/ fate'[u] \in {"working", "integrated", "discarded"}
                  \/ u \in origin'[TaskBranch(u)]
               /\ fate'[u] = "conflict" => u \in origin'[Conflict(u)]
               /\ fate'[u] = "integrated" =>
                     \/ u \in origin'[Base]
                     \/ /\ u \in origin'[Integration(GraphOf[u])]
                        /\ promotion'[GraphOf[u]] # "integrated"
    <3>1. CASE u = t
      BY <1>2, <1>6, <3>1
    <3>2. CASE u # t
      BY <1>2, <3>2 DEF CloneInv, FateInv
    <3> QED
      BY <3>1, <3>2
  <2> QED
    BY <1>2, <2>1, <2>2 DEF CloneInv, FateInv
<1> QED
  BY <1>1, <1>3, <1>5, <1>7, OneCaller

LEMMA PromoteBegins ==
    ASSUME OneAtATime, CloneInv, NEW c \in Callers, NEW g \in Graphs, Promote(c, g)
    PROVE  CloneInv'
<1>1. Delivered(g) /\ promotion[g] = "none" /\ UNCHANGED <<origin, clone, fate, lied>>
  BY DEF Promote
<1>2. PICK s \in {"promoting", "deferred"} :
         /\ promotion' = [promotion EXCEPT ![g] = s]
         /\ \/ Begin(c, "promote", NoTask, g) /\ s = "promoting"
            \/ call[c] = Idle /\ UNCHANGED call
  BY DEF Promote
<1>3. /\ DOMAIN promotion' = Graphs /\ promotion'[g] = s
      /\ \A h \in Graphs \ {g} : promotion'[h] = promotion[h]
  BY <1>2 DEF CloneInv, FateInv
<1>4. FateInv'
  <2>1. ASSUME NEW u \in Tasks, promotion'[GraphOf[u]] # "none"
        PROVE  fate'[u] \in {"working", "integrated"}
    <3>1. CASE GraphOf[u] = g
      BY <1>1, <3>1 DEF Delivered
    <3>2. CASE GraphOf[u] # g
      BY <1>1, <1>3, <2>1, <3>2, BranchesAre DEF CloneInv, FateInv
    <3> QED
      BY <3>1, <3>2
  <2>2. \A u \in Tasks :
           promotion'[GraphOf[u]] = "integrated" => promotion[GraphOf[u]] = "integrated"
    BY <1>3, BranchesAre
  <2> QED
    BY <1>1, <1>3, <2>1, <2>2 DEF CloneInv, FateInv
<1>5. CASE Begin(c, "promote", NoTask, g) /\ s = "promoting"
  <2>1. /\ call[c] = Idle /\ DOMAIN call' = Callers
        /\ call'[c].op = "promote" /\ call'[c].graph = g /\ IsCall(call'[c])
        /\ call'[c].step = "ensure_clone" /\ call'[c].found = FALSE
    BY <1>5, BeginIs DEF CloneInv
  <2>2. CallInv(c)'
    BY <1>3, <1>5, <2>1 DEF CallInv
  <2>3. CloneFits(c)' /\ WorkFits(c)' /\ CloneShape' /\ OriginInv'
    BY <1>1, <2>1, BeginFits
  <2> QED
    BY <1>4, <2>1, <2>2, <2>3, OneCaller
<1>6. CASE call[c] = Idle /\ UNCHANGED call
  <2>1. CallInv(c)' /\ DOMAIN call' = Callers /\ call'[c] = Idle
    BY <1>6, IdleIs DEF CloneInv, CallInv
  <2>2. clone.unmerged = NoCommit /\ (clone.cloned => IsWork(clone.tracking[Base]))
    BY <1>6, IdleIs DEF CloneInv, CloneFits
  <2>3. CloneShape' /\ OriginInv'
    BY <1>1 DEF CloneInv, CloneShape, OriginInv
  <2> QED
    BY <1>1, <1>4, <2>1, <2>2, <2>3, IdleFits, OneCaller
<1> QED
  BY <1>2, <1>5, <1>6

LEMMA DiffBegins ==
    ASSUME OneAtATime, CloneInv, NEW c \in Callers, NEW g \in Graphs, Diff(c, g)
    PROVE  CloneInv'
<1>1. Begin(c, "diff", NoTask, g) /\ UNCHANGED <<origin, clone, fate, promotion, lied>>
  BY DEF Diff
<1>2. /\ call[c] = Idle /\ DOMAIN call' = Callers
      /\ call'[c].op = "diff" /\ IsCall(call'[c])
      /\ call'[c].step = "ensure_clone" /\ call'[c].found = FALSE
  BY <1>1, BeginIs DEF CloneInv
<1>3. CallInv(c)'
  BY <1>2 DEF CallInv
<1>4. CloneFits(c)' /\ WorkFits(c)' /\ CloneShape' /\ OriginInv'
  BY <1>1, <1>2, BeginFits
<1>5. FateInv'
  BY <1>1, FateStays DEF CloneInv, Kept, Remain
<1> QED
  BY <1>2, <1>3, <1>4, <1>5, OneCaller

\* What others push goes to branches that no call has looked at, or that only grow.
LEMMA OthersStep ==
    ASSUME CloneInv, UNCHANGED <<clone, call, lied>>, OriginInv', FateInv',
           origin[Base] \subseteq origin'[Base],
           \A t \in Tasks : origin'[Conflict(t)] = origin[Conflict(t)],
           \A g \in Graphs : origin'[Integration(g)] = origin[Integration(g)],
           promotion' = promotion, \A t \in Tasks : fate[t] = "merging" => fate'[t] = "merging"
    PROVE  CloneInv'
<1>1. CloneShape' /\ DOMAIN call' = Callers
  BY DEF CloneInv, CloneShape
<1>2. ASSUME NEW c \in Callers
      PROVE  CallInv(c)' /\ CloneFits(c)' /\ WorkFits(c)'
  <2>1. IsCall(call[c]) /\ CloneFits(c) /\ WorkFits(c) /\ CallInv(c)
    BY DEF CloneInv, CallInv
  <2>2. call[c].op \in {"merge", "resolve", "discard"} => OfTask(call[c])
    BY <2>1, IdleIs DEF IsCall
  <2>3. call[c].op \in {"merge", "resolve", "promote"} => call[c].graph \in Graphs
    BY <2>1, <2>2, IdleIs, BranchesAre DEF IsCall, OfGraph, OfTask
  <2>4. CallInv(c)'
    BY <2>1, <2>2 DEF CallInv, OfTask
  <2>5. /\ call[c].op \in {"merge", "resolve", "promote"} => origin'[Integ(c)] = origin[Integ(c)]
        /\ call[c].op \in {"merge", "resolve"} =>
              origin'[Conflict(call[c].task)] = origin[Conflict(call[c].task)]
    BY <2>2, <2>3 DEF Integ, OfTask
  <2>6. Integ(c)' = Integ(c) /\ Own(c)' = Own(c) /\ Tip' = Tip
    BY DEF Integ, Own, Tip
  <2>7. CloneFits(c)'
    BY <2>1, <2>5, <2>6 DEF CloneFits
  <2>8. WorkFits(c)'
    BY <2>1, <2>5, <2>6 DEF WorkFits
  <2> QED
    BY <2>4, <2>7, <2>8
<1> QED
  BY <1>1, <1>2 DEF CloneInv

LEMMA WorkerSteps ==
    ASSUME CloneInv, NEW t \in Tasks, WorkerPushes(t)
    PROVE  CloneInv'
<1>1. /\ fate[t] = "working" /\ promotion[GraphOf[t]] = "none"
      /\ fate' = [fate EXCEPT ![t] = "pushed"] /\ UNCHANGED <<clone, call, promotion, lied>>
  BY DEF WorkerPushes
<1>2. PICK b \in {IF origin[Integration(GraphOf[t])] = NoCommit THEN Base
                  ELSE Integration(GraphOf[t]), Base} :
         origin' = [origin EXCEPT ![TaskBranch(t)] = origin[b] \cup {t}]
  BY DEF WorkerPushes
<1>3. IsWork(origin[b] \cup {t})
  BY <1>2, BranchesAre DEF CloneInv, OriginInv, IsWork
<1>4. /\ DOMAIN origin' = Branches /\ t \in origin'[TaskBranch(t)] /\ IsWork(origin'[TaskBranch(t)])
      /\ \A d \in Branches \ {TaskBranch(t)} : origin'[d] = origin[d]
  BY <1>2, <1>3, BranchesAre DEF CloneInv, OriginInv
<1>5. /\ origin'[Base] = origin[Base]
      /\ \A u \in Tasks : /\ origin'[Conflict(u)] = origin[Conflict(u)]
                          /\ u # t => origin'[TaskBranch(u)] = origin[TaskBranch(u)]
      /\ \A g \in Graphs : origin'[Integration(g)] = origin[Integration(g)]
  BY <1>4, BranchesAre, BranchesDiffer
<1>6. OriginInv'
  BY <1>4, <1>5 DEF CloneInv, OriginInv
<1>7. /\ DOMAIN fate' = Tasks /\ fate'[t] = "pushed"
      /\ \A u \in Tasks \ {t} : fate'[u] = fate[u]
  BY <1>1 DEF CloneInv, FateInv
<1>8. FateInv'
  <2>1. \A u \in Tasks :
           promotion'[GraphOf[u]] # "none" => fate'[u] \in {"working", "integrated"}
    BY <1>1, <1>7 DEF CloneInv, FateInv
  <2>2. ASSUME NEW u \in Tasks \ lied
        PROVE  /\ \/ fate'[u] \in {"working", "integrated", "discarded"}
                  \/ u \in origin'[TaskBranch(u)]
               /\ fate'[u] = "conflict" => u \in origin'[Conflict(u)]
               /\ fate'[u] = "integrated" =>
                     \/ u \in origin'[Base]
                     \/ /\ u \in origin'[Integration(GraphOf[u])]
                        /\ promotion'[GraphOf[u]] # "integrated"
    <3>1. CASE u = t
      BY <1>4, <1>7, <3>1
    <3>2. CASE u # t
      BY <1>1, <1>5, <1>7, <3>2, BranchesAre DEF CloneInv, FateInv
    <3> QED
      BY <3>1, <3>2
  <2> QED
    BY <1>1, <1>7, <2>1, <2>2 DEF CloneInv, FateInv
<1> QED
  BY <1>1, <1>5, <1>6, <1>7, <1>8, OthersStep

LEMMA OtherPushesSteps ==
    ASSUME CloneInv, NEW w \in Others, OtherPushes(w)
    PROVE  CloneInv'
<1>1. /\ origin' = [origin EXCEPT ![Base] = @ \cup {w}]
      /\ UNCHANGED <<clone, call, fate, promotion, lied>>
  BY DEF OtherPushes
<1>2. w # NoTask
  BY MergeCloneAssumption DEF Works
<1>3. /\ DOMAIN origin' = Branches /\ origin'[Base] = origin[Base] \cup {w}
      /\ \A d \in Branches \ {Base} : origin'[d] = origin[d]
  BY <1>1, BranchesAre DEF CloneInv, OriginInv
<1>4. OriginInv' /\ Kept
  BY <1>2, <1>3 DEF CloneInv, OriginInv, IsWork, Kept
<1>5. FateInv'
  BY <1>1, <1>4, FateStays DEF CloneInv, Remain
<1>6. /\ \A t \in Tasks : origin'[Conflict(t)] = origin[Conflict(t)]
      /\ \A g \in Graphs : origin'[Integration(g)] = origin[Integration(g)]
  BY <1>3, BranchesAre, BranchesDiffer
<1> QED
  BY <1>1, <1>3, <1>4, <1>5, <1>6, OthersStep

LEMMA CloneSteps ==
    ASSUME OneAtATime, CloneInv, [CloneNext]_cloneVars
    PROVE  CloneInv'
<1>1. CASE UNCHANGED cloneVars
  BY <1>1 DEF cloneVars, CloneInv, CloneShape, OriginInv, FateInv, CallInv, CloneFits, WorkFits,
     Tip, Integ, Own
<1>2. ASSUME NEW c \in Callers, NEW t \in Tasks, MergeTask(c, t) \/ Resolve(c, t) \/ Discard(c, t)
      PROVE  CloneInv'
  BY <1>2, TaskCallSteps DEF MergeTask, Resolve, Discard
<1> QED
  BY <1>1, <1>2, EnsureCloneSteps, FetchBaseSteps, FetchIntegrationSteps, CheckoutSteps,
     FetchTaskSteps, RevParseSteps, FastForwardSteps, AutoMergeSteps, OnConflictSteps,
     PushConflictSteps, ResetHardSteps, PushSteps, VerifySteps, DeleteRemoteSteps,
     FetchConflictSteps, AncestorSteps, PromoteBegins, DiffBegins, WorkerSteps, OtherPushesSteps
     DEF CloneNext

LEMMA CloneBegins ==
    ASSUME CloneInit
    PROVE  CloneInv
<1>1. /\ DOMAIN origin = Branches /\ origin[Base] = {}
      /\ \A b \in Branches : origin[b] = NoCommit \/ origin[b] = {}
  BY BranchesAre DEF CloneInit
<1>2. CloneShape /\ clone.cloned = FALSE /\ clone.unmerged = NoCommit
  BY BranchesAre DEF CloneInit, CloneShape
<1>3. FateInv
  BY BranchesAre DEF CloneInit, FateInv
<1>4. DOMAIN call = Callers /\ \A c \in Callers : call[c] = Idle
  BY DEF CloneInit
<1>5. \A c \in Callers : CallInv(c) /\ CloneFits(c) /\ WorkFits(c)
  BY <1>2, <1>4, IdleIs DEF CallInv, CloneFits, WorkFits, Before, InBranch
<1> QED
  BY <1>1, <1>2, <1>3, <1>4, <1>5 DEF CloneInv, OriginInv, IsWork

LEMMA CloneLosesNothing ==
    ASSUME CloneInv
    PROVE  NothingLostAlone
<1>1. \A t \in Tasks : \A b \in Branches : t \in origin[b] => On(b, t)
  BY BranchesAre DEF On, NoCommit
<1> QED
  BY <1>1, BranchesAre DEF CloneInv, FateInv, NothingLostAlone

\* However git fails and whoever pushes, calls that use the clone one at a time lose no work, for
\* any tasks, graphs, conflicts and retries: what a merge reports merged is on the integration
\* branch or the base, and what a promotion reports is on the base.
THEOREM NothingIsLostAlone == OneAtATime /\ CloneSpec => []NothingLostAlone
<1>1. CloneInit => CloneInv
  BY CloneBegins
<1>2. OneAtATime /\ CloneInv /\ [CloneNext]_cloneVars => CloneInv'
  BY CloneSteps
<1>3. CloneInv => NothingLostAlone
  BY CloneLosesNothing
<1>4. OneAtATime => (CloneSpec => []NothingLostAlone)
  <2> SUFFICES ASSUME OneAtATime PROVE CloneSpec => []NothingLostAlone
    OBVIOUS
  <2>1. CloneInv /\ [CloneNext]_cloneVars => CloneInv'
    BY <1>2
  <2> QED
    BY <1>1, <1>3, <2>1, PTL DEF CloneSpec
<1> QED
  BY <1>4

=============================================================================
