---------------------------- MODULE TestServices ----------------------------
(***************************************************************************)
(* The broker of ephemeral test services                                   *)
(* (src/src/spawn/test-service-manager.ts) for one graph: a Pod and a      *)
(* Service in the cluster and, in Redis, a hash with the lease.  Every     *)
(* engine sweeps the expired ones; agents, their heartbeats and the health *)
(* sweep extend leases; an agent or the graph's end stops services.        *)
(*                                                                         *)
(* Each Redis command and each Kubernetes call is a step: what a call has  *)
(* read may be stale when it writes.  An hset on a key that was deleted    *)
(* leaves a hash without its serviceId, which readers take for absent.     *)
(* The sets bureau:ts:graph:* and bureau:ts:task:* are one, and an srem is *)
(* one step with the del before it.                                        *)
(***************************************************************************)
EXTENDS Integers, FiniteSets, FiniteSetsExt

CONSTANTS
    Services,      \* serviceIds
    Extenders,     \* calls that extend a lease, at a time
    Removers,      \* sweeps and stops, at a time
    Ttls,          \* leaseTtlSeconds that are asked for
    MaxTime,       \* bound on the clock
    MaxLosses      \* bound on failed calls and ended processes

ASSUME ServicesAssumption ==
    /\ IsFiniteSet(Extenders) /\ Ttls \subseteq Nat \ {0}
    /\ MaxTime \in Nat \ {0} /\ MaxLosses \in Nat

VARIABLES
    clock,
    graphEnded,
    starting,      \* service -> how far startService is
    leaseAsked,    \* service -> the lease its startService computed
    cluster,       \* service -> its objects in the cluster
    hash,          \* service -> bureau:ts:<id>: is it whole, leaseExpiresAt, status
    listed,        \* bureau:ts:graph:<id>, bureau:ts:task:<id>
    extender, remover,
    granted,       \* history: service -> the lease it was given, or extended to in time
    abandoned,     \* history: services a failure left in the cluster
    losses

servicesVars == <<clock, graphEnded, starting, leaseAsked, cluster, hash, listed, extender,
                  remover, granted, abandoned, losses>>

NoHash == [whole |-> FALSE, lease |-> 0, status |-> "none"]
Away == [service |-> "none", step |-> "none", ttl |-> 0, read |-> NoHash, since |-> 0]

ServicesInit ==
    /\ clock = 1 /\ graphEnded = FALSE
    /\ starting = [s \in Services |-> "none"]
    /\ leaseAsked = [s \in Services |-> 0]
    /\ cluster = [s \in Services |-> {}]
    /\ hash = [s \in Services |-> NoHash]
    /\ listed = {}
    /\ extender = [x \in Extenders |-> Away]
    /\ remover = [x \in Removers |-> Away]
    /\ granted = [s \in Services |-> 0]
    /\ abandoned = {} /\ losses = 0

Lose == losses < MaxLosses /\ losses' = losses + 1

-----------------------------------------------------------------------------
(* startService *)

BeginStart(s, ttl) ==
    /\ starting[s] = "none" /\ ~graphEnded
    /\ starting' = [starting EXCEPT ![s] = "pod"]
    /\ leaseAsked' = [leaseAsked EXCEPT ![s] = clock + ttl]
    /\ UNCHANGED <<clock, graphEnded, cluster, hash, listed, extender, remover, granted,
                   abandoned, losses>>

CreatePod(s) ==
    /\ starting[s] = "pod"
    /\ starting' = [starting EXCEPT ![s] = "service"]
    /\ cluster' = [cluster EXCEPT ![s] = {"pod"}]
    /\ UNCHANGED <<clock, graphEnded, leaseAsked, hash, listed, extender, remover, granted,
                   abandoned, losses>>

CreateService(s) ==
    /\ starting[s] = "service"
    /\ starting' = [starting EXCEPT ![s] = "hash"]
    /\ cluster' = [cluster EXCEPT ![s] = {"pod", "service"}]
    /\ UNCHANGED <<clock, graphEnded, leaseAsked, hash, listed, extender, remover, granted,
                   abandoned, losses>>

Persist(s) ==
    /\ starting[s] = "hash"
    /\ starting' = [starting EXCEPT ![s] = "list"]
    /\ hash' = [hash EXCEPT ![s] = [whole |-> TRUE, lease |-> leaseAsked[s],
                                    status |-> "starting"]]
    /\ granted' = [granted EXCEPT ![s] = leaseAsked[s]]
    /\ UNCHANGED <<clock, graphEnded, leaseAsked, cluster, listed, extender, remover,
                   abandoned, losses>>

List(s) ==
    /\ starting[s] = "list"
    /\ starting' = [starting EXCEPT ![s] = "started"]
    /\ listed' = listed \cup {s}
    /\ UNCHANGED <<clock, graphEnded, leaseAsked, cluster, hash, extender, remover, granted,
                   abandoned, losses>>

\* A call throws, or the engine ends: nothing is undone.
StartFails(s) ==
    /\ starting[s] \notin {"none", "started"} /\ Lose
    /\ starting' = [starting EXCEPT ![s] = "started"]
    /\ abandoned' = IF cluster[s] # {} /\ ~hash[s].whole THEN abandoned \cup {s}
                    ELSE abandoned
    /\ UNCHANGED <<clock, graphEnded, leaseAsked, cluster, hash, listed, extender, remover,
                   granted>>

-----------------------------------------------------------------------------
(* get, extendLease: the tool, the heartbeat's listForTask, extendLeasesForGraph *)

Recall(x, memory) == extender' = [extender EXCEPT ![x] = memory]
Alive(record) == record.whole /\ record.status \notin {"stopped", "expired"}

\* get: hgetall.
LookUp(x, s, ttl) ==
    /\ extender[x] = Away /\ hash[s].whole
    /\ Recall(x, [Away EXCEPT !.service = s, !.ttl = ttl,
                  !.step = IF hash[s].status = "starting" THEN "phase" ELSE "extend"])
    /\ UNCHANGED <<clock, graphEnded, starting, leaseAsked, cluster, hash, listed, remover,
                   granted, abandoned, losses>>

\* readPodPhase; "starting" lazily becomes "ready".  A blind write.
Ready(s) == [hash EXCEPT ![s].status = "ready"]

AdvancePhase(x) ==
    LET s == extender[x].service
    IN /\ extender[x].step = "phase"
       /\ hash' = IF "pod" \in cluster[s] THEN Ready(s) ELSE hash
       /\ Recall(x, [extender[x] EXCEPT !.step = "extend"])
       /\ UNCHANGED <<clock, graphEnded, starting, leaseAsked, cluster, listed, remover,
                      granted, abandoned, losses>>

\* extendLease: hgetall.
ReadLease(x) ==
    LET s == extender[x].service
    IN /\ extender[x].step = "extend"
       /\ Recall(x, IF Alive(hash[s])
                    THEN [extender[x] EXCEPT !.step = "write", !.read = hash[s],
                                             !.since = clock]
                    ELSE Away)
       /\ UNCHANGED <<clock, graphEnded, starting, leaseAsked, cluster, hash, listed,
                      remover, granted, abandoned, losses>>

\* Mutant: the new lease replaces the old one.
NewLease_Shorter(c) == c.since + c.ttl

\* "Never shorten."
NewLease(c) == Max({c.read.lease, c.since + c.ttl})

\* hset; the lease is promised to the caller, in time if the old one is running.
WriteLease(x) ==
    LET c == extender[x]  s == c.service
    IN /\ c.step = "write"
       /\ hash' = [hash EXCEPT ![s].lease = NewLease(c)]
       /\ granted' = [granted EXCEPT ![s] =
              IF granted[s] >= clock THEN Max({granted[s], c.since + c.ttl}) ELSE @]
       /\ Recall(x, Away)
       /\ UNCHANGED <<clock, graphEnded, starting, leaseAsked, cluster, listed, remover,
                      abandoned, losses>>

-----------------------------------------------------------------------------
(* stopService, stopAllForGraph, sweepExpiredLeases; _deleteResources *)

Remember(x, memory) == remover' = [remover EXCEPT ![x] = memory]

\* The tool, or stopAllForGraph for a listed one: get.
BeginStop(x, s) ==
    /\ remover[x] = Away /\ hash[s].whole
    /\ s \in listed \/ ~graphEnded
    /\ Remember(x, [Away EXCEPT !.service = s,
                    !.step = IF hash[s].status = "starting" THEN "phase" ELSE "stop"])
    /\ UNCHANGED <<clock, graphEnded, starting, leaseAsked, cluster, hash, listed, extender,
                   granted, abandoned, losses>>

StopAdvancesPhase(x) ==
    LET s == remover[x].service
    IN /\ remover[x].step = "phase"
       /\ hash' = IF "pod" \in cluster[s] THEN Ready(s) ELSE hash
       /\ Remember(x, [remover[x] EXCEPT !.step = "stop"])
       /\ UNCHANGED <<clock, graphEnded, starting, leaseAsked, cluster, listed, extender,
                      granted, abandoned, losses>>

Mark(x, step, status) ==
    /\ remover[x].step = step
    /\ hash' = [hash EXCEPT ![remover[x].service].status = status]
    /\ Remember(x, [remover[x] EXCEPT !.step = "pod"])
    /\ UNCHANGED <<clock, graphEnded, starting, leaseAsked, cluster, listed, extender,
                   granted, abandoned, losses>>

StopMarks(x) == Mark(x, "stop", "stopped")

\* sweepExpiredLeases takes the time first ...
BeginSweep(x, s) ==
    /\ remover[x] = Away /\ hash[s].whole
    /\ Remember(x, [Away EXCEPT !.service = s, !.step = "sweep", !.since = clock])
    /\ UNCHANGED <<clock, graphEnded, starting, leaseAsked, cluster, hash, listed, extender,
                   granted, abandoned, losses>>

\* ... and reads the hash when its turn comes.
SweepReads(x) ==
    LET s == remover[x].service
    IN /\ remover[x].step = "sweep"
       /\ Remember(x, IF hash[s].whole /\ hash[s].lease < remover[x].since
                      THEN [remover[x] EXCEPT !.step = "expire"] ELSE Away)
       /\ UNCHANGED <<clock, graphEnded, starting, leaseAsked, cluster, hash, listed,
                      extender, granted, abandoned, losses>>

SweepMarks(x) == Mark(x, "expire", "expired")

\* Mutant: the hash goes before the Pod and the Service do.
Removal_HashFirst == [pod |-> "hash", service |-> "done", hash |-> "service"]

\* What follows what in _deleteResources.
Removal == [pod |-> "service", service |-> "hash", hash |-> "done"]

NextRemoval(x) ==
    LET next == Removal[remover[x].step]
    IN Remember(x, IF next = "done" THEN Away ELSE [remover[x] EXCEPT !.step = next])

\* The order that Removal gives; a delete that fails is logged and passed over.
DeleteObject(x, object) ==
    LET s == remover[x].service
    IN /\ remover[x].step = object /\ NextRemoval(x)
       /\ \/ /\ cluster' = [cluster EXCEPT ![s] = @ \ {object}]
             /\ UNCHANGED <<abandoned, losses>>
          \/ /\ object \in cluster[s] /\ Lose
             /\ abandoned' = abandoned \cup {s} /\ UNCHANGED cluster
       /\ UNCHANGED <<clock, graphEnded, starting, leaseAsked, hash, listed, extender,
                      granted>>

DeleteHash(x) ==
    LET s == remover[x].service
    IN /\ remover[x].step = "hash" /\ NextRemoval(x)
       /\ hash' = [hash EXCEPT ![s] = NoHash]
       /\ listed' = listed \ {s}
       /\ UNCHANGED <<clock, graphEnded, starting, leaseAsked, cluster, extender, granted,
                      abandoned, losses>>

RemoverDies(x) ==
    /\ remover[x] # Away /\ Lose
    /\ Remember(x, Away)
    /\ UNCHANGED <<clock, graphEnded, starting, leaseAsked, cluster, hash, listed, extender,
                   granted, abandoned>>

-----------------------------------------------------------------------------

\* graph_completed, graph_failed, graph_canceled, graph_validation_failed: the stops are
\* BeginStop's, of what is listed.
EndGraph ==
    /\ ~graphEnded /\ graphEnded' = TRUE
    /\ UNCHANGED <<clock, starting, leaseAsked, cluster, hash, listed, extender, remover,
                   granted, abandoned, losses>>

PassTime ==
    /\ clock < MaxTime /\ clock' = clock + 1
    /\ UNCHANGED <<graphEnded, starting, leaseAsked, cluster, hash, listed, extender,
                   remover, granted, abandoned, losses>>

ServicesNext ==
    \/ \E s \in Services :
           \/ \E ttl \in Ttls : BeginStart(s, ttl)
           \/ CreatePod(s) \/ CreateService(s) \/ Persist(s) \/ List(s) \/ StartFails(s)
    \/ \E x \in Extenders :
           \/ \E s \in Services, ttl \in Ttls : LookUp(x, s, ttl)
           \/ AdvancePhase(x) \/ ReadLease(x) \/ WriteLease(x)
    \/ \E x \in Removers :
           \/ \E s \in Services : BeginStop(x, s) \/ BeginSweep(x, s)
           \/ StopAdvancesPhase(x) \/ StopMarks(x) \/ SweepReads(x) \/ SweepMarks(x)
           \/ DeleteObject(x, "pod") \/ DeleteObject(x, "service") \/ DeleteHash(x)
           \/ RemoverDies(x)
    \/ EndGraph
    \/ PassTime

ServicesSpec == ServicesInit /\ [][ServicesNext]_servicesVars

-----------------------------------------------------------------------------
(* Properties *)

HashType == [whole : BOOLEAN, lease : Nat,
             status : {"none", "starting", "ready", "stopped", "expired"}]
CallType == [service : Services \cup {"none"}, ttl : Ttls \cup {0}, read : HashType,
             since : Nat,
             step : {"none", "phase", "extend", "write", "stop", "sweep", "expire", "pod",
                     "service", "hash"}]

ServicesTypeOK ==
    /\ clock \in 1 .. MaxTime /\ graphEnded \in BOOLEAN
    /\ starting \in [Services -> {"none", "pod", "service", "hash", "list", "started"}]
    /\ leaseAsked \in [Services -> Nat] /\ granted \in [Services -> Nat]
    /\ cluster \in [Services -> SUBSET {"pod", "service"}]
    /\ hash \in [Services -> HashType]
    /\ listed \subseteq Services /\ abandoned \subseteq Services
    /\ extender \in [Extenders -> CallType] /\ remover \in [Removers -> CallType]
    /\ losses \in 0 .. MaxLosses

\* A sweep takes no service away before the longest lease it was given, or extended to
\* before the lease in force ran out ("a racing caller must not claw back a longer lease
\* already granted", test-service-manager.ts:224).
LeaseHonoured ==
    \A x \in Removers :
        remover[x].step = "expire" => granted[remover[x].service] < clock

\* So it is when extensions come one at a time: the read and the write of extendLease
\* (test-service-manager.ts:222, 228) are two commands.
LeaseHonouredAlone == Cardinality(Extenders) = 1 => LeaseHonoured

\* Whatever calls and sweeps overlap, and wherever a stop or a sweep is cut short, what
\* runs in the cluster has its hash, which the next sweep needs to find it; except what a
\* failed start left (test-service-manager.ts:161-165) or a failed delete (79-84).
ServicesAreKnown ==
    \A s \in Services :
        cluster[s] # {} => \/ hash[s].whole
                           \/ starting[s] \in {"service", "hash"}
                           \/ s \in abandoned

\* No service is lost: neither to its users while it is leased, nor to the sweeps.
ServicesAreKept == LeaseHonouredAlone /\ ServicesAreKnown
=============================================================================
