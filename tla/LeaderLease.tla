----------------------------- MODULE LeaderLease -----------------------------
(***************************************************************************)
(* Leader election among engine replicas (src/src/engine/leader.ts): one   *)
(* Redis key with a time to live, acquired with SET NX PX, renewed and     *)
(* released by scripts that compare the owner first.                       *)
(*                                                                         *)
(* Clocks count down: what is left of the lease, of an engine's interval   *)
(* and of the time in which Redis answers a call or the call fails.  A     *)
(* call's command may have been executed though the call fails.  The       *)
(* redis client gives up after three retries, so a call has a longest      *)
(* duration, Delay; an engine whose event loop stalls has a longer one.    *)
(* Redis itself keeps the key (no failover).                               *)
(***************************************************************************)
EXTENDS Integers

CONSTANTS
    Engines,
    Lease,      \* leaseMs
    Renew,      \* renewMs: a third of the lease
    Delay,      \* longest duration of a call
    Nobody,     \* the key does not exist
    Departed    \* the instanceId of a process that is gone

\* What the durations must satisfy for leadership to be exclusive: 15 s, 5 s and less
\* than 5 s in the code.
ASSUME LeaseAssumption ==
    /\ Lease \in Nat /\ Renew \in Nat \ {0} /\ Delay \in Nat \ {0}
    /\ Delay < Renew /\ Renew + 2 * Delay < Lease
    /\ Nobody \notin Engines /\ Departed \notin Engines /\ Nobody # Departed

VARIABLES
    leaseOwner,  \* value of the key engine:leader
    leaseLeft,   \* its time to live
    believes,    \* engine -> _leader
    mode,        \* engine -> "down", "starting" (first tick), "up", "stopping"
    timer,       \* engine -> what is left of its interval
    request,     \* engine -> the call under way, if any, and whether Redis executed it
    deadline     \* engine -> what is left of the call's duration

leaseVars == <<leaseOwner, leaseLeft, believes, mode, timer, request, deadline>>

Requests == {"none", "acquire", "renew", "release", "granted", "denied"}

LeaseInit ==
    /\ leaseOwner = Nobody /\ leaseLeft = 0
    /\ believes = [e \in Engines |-> FALSE]
    /\ mode = [e \in Engines |-> "down"]
    /\ timer = [e \in Engines |-> Renew]
    /\ request = [e \in Engines |-> "none"]
    /\ deadline = [e \in Engines |-> Delay]

Call(e) == IF believes[e] THEN "renew" ELSE "acquire"

Send(e, kind) ==
    /\ request' = [request EXCEPT ![e] = kind]
    /\ deadline' = [deadline EXCEPT ![e] = Delay]

\* start: the first tick; the interval runs from its end on.
Start(e) ==
    /\ mode[e] = "down"
    /\ mode' = [mode EXCEPT ![e] = "starting"]
    /\ Send(e, "acquire")
    /\ UNCHANGED <<leaseOwner, leaseLeft, believes, timer>>

\* tick, by the interval: nothing if the last one is still at it (_ticking).
Beat(e) ==
    /\ mode[e] = "up" /\ timer[e] = 0
    /\ timer' = [timer EXCEPT ![e] = Renew]
    /\ IF request[e] = "none" THEN Send(e, Call(e)) ELSE UNCHANGED <<request, deadline>>
    /\ UNCHANGED <<leaseOwner, leaseLeft, believes, mode>>

\* SET NX; RENEW_LUA.
Grants(e) ==
    \/ request[e] = "acquire" /\ leaseOwner = Nobody
    \/ request[e] = "renew" /\ leaseOwner = e

Execute(e) ==
    /\ request[e] \in {"acquire", "renew"}
    /\ IF Grants(e)
       THEN /\ leaseOwner' = e /\ leaseLeft' = Lease
            /\ request' = [request EXCEPT ![e] = "granted"]
       ELSE /\ request' = [request EXCEPT ![e] = "denied"]
            /\ UNCHANGED <<leaseOwner, leaseLeft>>
    /\ UNCHANGED <<believes, mode, timer, deadline>>

\* The first tick ends: the interval starts.
Settled(e) ==
    IF mode[e] = "starting"
    THEN /\ mode' = [mode EXCEPT ![e] = "up"]
         /\ timer' = [timer EXCEPT ![e] = Renew]
    ELSE UNCHANGED <<mode, timer>>

\* The answer arrives.
Answer(e) ==
    /\ request[e] \in {"granted", "denied"}
    /\ believes' = [believes EXCEPT ![e] = request[e] = "granted"]
    /\ request' = [request EXCEPT ![e] = "none"]
    /\ Settled(e)
    /\ UNCHANGED <<leaseOwner, leaseLeft, deadline>>

\* Mutant: an error leaves the engine what it was.
AfterError_Same(e) == believes[e]

\* "Any Redis error during a tick means not leader this tick."
AfterError(e) == FALSE

CallFails(e) ==
    /\ request[e] \in {"acquire", "renew", "granted", "denied"}
    /\ believes' = [believes EXCEPT ![e] = AfterError(e)]
    /\ request' = [request EXCEPT ![e] = "none"]
    /\ Settled(e)
    /\ UNCHANGED <<leaseOwner, leaseLeft, deadline>>

\* stop, of a leader: the interval is cleared, the release follows the call under way.
Stop(e) ==
    /\ mode[e] = "up" /\ believes[e]
    /\ mode' = [mode EXCEPT ![e] = "stopping"]
    /\ UNCHANGED <<leaseOwner, leaseLeft, believes, timer, request, deadline>>

SendRelease(e) ==
    /\ mode[e] = "stopping" /\ request[e] = "none"
    /\ Send(e, "release")
    /\ UNCHANGED <<leaseOwner, leaseLeft, believes, mode, timer>>

\* RELEASE_LUA, or it never reaches Redis; the process ends.
Release(e) ==
    /\ mode[e] = "stopping" /\ request[e] = "release"
    /\ \/ leaseOwner = e /\ leaseOwner' = Nobody /\ leaseLeft' = 0
       \/ leaseOwner = e /\ leaseOwner' = Departed /\ UNCHANGED leaseLeft
       \/ leaseOwner # e /\ UNCHANGED <<leaseOwner, leaseLeft>>
    /\ believes' = [believes EXCEPT ![e] = FALSE]
    /\ mode' = [mode EXCEPT ![e] = "down"]
    /\ request' = [request EXCEPT ![e] = "none"]
    /\ UNCHANGED <<timer, deadline>>

\* The process ends at once (crash; stop of a follower): its instanceId never returns, and
\* its command may still be executed.
Die(e) ==
    /\ mode[e] # "down"
    /\ \/ leaseOwner = e /\ leaseOwner' = Departed /\ UNCHANGED leaseLeft
       \/ leaseOwner # e /\ UNCHANGED <<leaseOwner, leaseLeft>>
       \/ Grants(e) /\ leaseOwner' = Departed /\ leaseLeft' = Lease
    /\ believes' = [believes EXCEPT ![e] = FALSE]
    /\ mode' = [mode EXCEPT ![e] = "down"]
    /\ request' = [request EXCEPT ![e] = "none"]
    /\ UNCHANGED <<timer, deadline>>

Down(n) == IF n > 0 THEN n - 1 ELSE 0

\* Time passes: a beat is on time, a call ends by its deadline, a key expires.
Pass ==
    /\ \A e \in Engines :
           /\ mode[e] = "up" => timer[e] > 0
           /\ request[e] # "none" => deadline[e] > 0
    /\ leaseLeft' = Down(leaseLeft)
    /\ leaseOwner' = IF leaseLeft > 1 THEN leaseOwner ELSE Nobody
    /\ timer' = [e \in Engines |-> IF mode[e] = "up" THEN timer[e] - 1 ELSE timer[e]]
    /\ deadline' = [e \in Engines |->
                       IF request[e] # "none" THEN deadline[e] - 1 ELSE deadline[e]]
    /\ UNCHANGED <<believes, mode, request>>

LeaseNext ==
    \/ Pass
    \/ \E e \in Engines :
           \/ Start(e) \/ Beat(e) \/ Execute(e) \/ Answer(e) \/ CallFails(e)
           \/ Stop(e) \/ SendRelease(e) \/ Release(e) \/ Die(e)

LeaseSpec == LeaseInit /\ [][LeaseNext]_leaseVars

-----------------------------------------------------------------------------
(* Properties *)

LeaseTypeOK ==
    /\ leaseOwner \in Engines \cup {Nobody, Departed}
    /\ leaseLeft \in 0 .. Lease
    /\ believes \in [Engines -> BOOLEAN]
    /\ mode \in [Engines -> {"down", "starting", "up", "stopping"}]
    /\ timer \in [Engines -> 0 .. Renew]
    /\ request \in [Engines -> Requests]
    /\ deadline \in [Engines -> 0 .. Delay]

\* No two replicas run the background control plane: at most one engine that is not on its
\* way out takes itself for the leader (isLeader(), engine/leader.ts:38, is what the health
\* sweep asks), whatever calls fail, replies get lost and processes die.
Leads(e) == believes[e] /\ mode[e] # "stopping"

OneLeader == \A e, f \in Engines : Leads(e) /\ Leads(f) => e = f
=============================================================================
