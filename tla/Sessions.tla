-------------------------------- MODULE Sessions --------------------------------
(***************************************************************************)
(* The sessions of the workers at the engine (runtime/http-transport.ts,   *)
(* mcp-server.ts) and their peer records in Redis (registry.ts): what      *)
(* phase a worker says it is in, and which graph holds its task -- a       *)
(* worker's own knowledge of that is as old as its token.                  *)
(*                                                                         *)
(* A worker that loses its connection opens another under the same name    *)
(* (the sessionId of its token), while the engine still has the old one.   *)
(* Its tool calls overlap: each reads the record, and then writes it.      *)
(* Commands that one handler issues without waiting reach Redis in order:  *)
(* opening or closing a session and its command on the record are a step.  *)
(***************************************************************************)
EXTENDS Naturals, FiniteSets

CONSTANTS
    Clients,            \* workers, by the sessionId of their tokens
    ToolUses,           \* tool calls under way at once
    MaxConnections,     \* bound: initialize requests
    MaxToolUses,        \* bound: tool calls
    MaxFaults           \* bound: restarts and expiries

Connections == 1 .. MaxConnections

VARIABLES
    connection,     \* transport session id -> whose it is and how far; known: answered
    holds,          \* worker -> the transport session id its client uses, 0 if none
    peer,           \* worker -> peers:<sessionId>
    toolUse,        \* tool call -> what it does
    heldBy,         \* worker -> the graph that holds its task
    repointing,     \* worker -> merge_graphs at its record
    uses, faults,
    said,           \* history: worker -> the phase it last said, as recorded
    upset           \* history: worker -> what has happened to its record

sessionVars == <<connection, holds, peer, toolUse, heldBy, repointing, uses, faults, said, upset>>

Phases == {"implementing", "done"}
Unsaid == "unsaid"
NoPeer == [phase |-> "none", graph |-> "none"]
\* createTokenContext, makeWorkerPeer.
TokenGraph == "source"
makeWorkerPeer == [phase |-> "starting", graph |-> TokenGraph]
NoUse == [by |-> "none", at |-> "none", phase |-> "none", read |-> NoPeer]
NoMerge == [at |-> "none", read |-> NoPeer]

SessionsInit ==
    /\ connection = [n \in Connections |-> [of |-> "none", at |-> "none", known |-> FALSE]]
    /\ holds = [k \in Clients |-> 0] /\ peer = [k \in Clients |-> NoPeer]
    /\ toolUse = [u \in ToolUses |-> NoUse]
    /\ heldBy = [k \in Clients |-> TokenGraph] /\ repointing = [k \in Clients |-> NoMerge]
    /\ uses = 0 /\ faults = 0
    /\ said = [k \in Clients |-> "none"] /\ upset = [k \in Clients |-> {}]

HasRecord(k) == peer[k] # NoPeer
Open(n) == connection[n].at = "open"
OpenFor(k) == {n \in Connections : Open(n) /\ connection[n].of = k}
Upsets(k, what) == upset' = [upset EXCEPT ![k] = @ \cup {what}]
Writes(k, record) == peer' = [peer EXCEPT ![k] = record]
Fault == faults < MaxFaults /\ faults' = faults + 1

-----------------------------------------------------------------------------
(* Sessions *)

Connect(k, n) ==
    /\ holds[k] = 0 /\ n \in Connections /\ connection[n].at = "none"
    /\ \A m \in 1 .. n - 1 : connection[m].at # "none"
    /\ connection' = [connection EXCEPT ![n] =
          [of |-> k, at |-> "authenticating", known |-> FALSE]]
    /\ UNCHANGED <<holds, peer, toolUse, heldBy, repointing, uses, faults, said, upset>>

\* Mutant: the session is closed as one that was open is.
AuthenticationRejected_Closes(n) ==
    /\ connection[n].at = "authenticating"
    /\ connection' = [connection EXCEPT ![n].at = "gone"]
    /\ Writes(connection[n].of, NoPeer)
    /\ UNCHANGED <<holds, toolUse, heldBy, repointing, uses, faults, said, upset>>

\* authenticate throws: the session is in neither map, and the records are as they were.
AuthenticationRejected(n) ==
    /\ connection[n].at = "authenticating"
    /\ connection' = [connection EXCEPT ![n].at = "gone"]
    /\ UNCHANGED <<holds, peer, toolUse, heldBy, repointing, uses, faults, said, upset>>

\* onsessioninitialized, onSessionInit: a new record, whatever was there; the answer reaches a
\* client that still waits for it.
SessionInitialized(n) ==
    LET k == connection[n].of IN
    /\ connection[n].at = "authenticating"
    /\ Writes(k, makeWorkerPeer)
    /\ said' = [said EXCEPT ![k] = "starting"]
    /\ upset' = [upset EXCEPT ![k] =
          (@ \cap {"overlapped"}) \cup (IF heldBy[k] = TokenGraph THEN {} ELSE {"remade"})]
    /\ \/ /\ holds[k] = 0 /\ holds' = [holds EXCEPT ![k] = n]
          /\ connection' = [connection EXCEPT ![n].at = "open", ![n].known = TRUE]
       \/ /\ connection' = [connection EXCEPT ![n].at = "open"] /\ UNCHANGED holds
    /\ UNCHANGED <<toolUse, heldBy, repointing, uses, faults>>

\* The stream breaks: the engine does not notice, the client will connect again.
Disconnect(k) ==
    /\ holds[k] # 0 /\ holds' = [holds EXCEPT ![k] = 0]
    /\ UNCHANGED <<connection, peer, toolUse, heldBy, repointing, uses, faults, said, upset>>

\* DELETE, of the session in use or of an old one: onsessionclosed removes the worker's record.
CloseSession(n) ==
    LET k == connection[n].of IN
    /\ Open(n) /\ connection[n].known
    /\ connection' = [connection EXCEPT ![n].at = "gone"]
    /\ Writes(k, NoPeer)
    /\ holds' = [holds EXCEPT ![k] = IF @ = n THEN 0 ELSE @]
    /\ (IF OpenFor(k) = {n} THEN UNCHANGED upset ELSE Upsets(k, "closed"))
    /\ UNCHANGED <<toolUse, heldBy, repointing, uses, faults, said>>

Leave ==
    /\ connection' = [n \in Connections |->
          IF connection[n].at = "none" THEN connection[n] ELSE [connection[n] EXCEPT !.at = "gone"]]
    /\ holds' = [k \in Clients |-> 0]

\* close: every open session's onclose; the calls under way may yet go on, until the exit.
StopEngine ==
    /\ Fault /\ Leave
    /\ peer' = [k \in Clients |-> IF OpenFor(k) = {} THEN peer[k] ELSE NoPeer]
    /\ UNCHANGED <<toolUse, heldBy, repointing, uses, said, upset>>

EngineDies ==
    /\ Fault /\ Leave
    /\ toolUse' = [u \in ToolUses |-> NoUse]
    /\ upset' = [k \in Clients |-> upset[k] \cup {"engine died"}]
    /\ repointing' = [k \in Clients |->
          IF repointing[k].at \in {"none", "done"} THEN repointing[k]
          ELSE [NoMerge EXCEPT !.at = "lost"]]
    /\ UNCHANGED <<peer, heldBy, uses, said>>

\* PEER_TTL_SECONDS without an update; nothing but the worker's own calls renews its record.
PeerExpires(k) ==
    /\ HasRecord(k) /\ Fault /\ Writes(k, NoPeer) /\ Upsets(k, "expired")
    /\ UNCHANGED <<connection, holds, toolUse, heldBy, repointing, uses, said>>

-----------------------------------------------------------------------------
(* Tool calls *)

\* set_status with a phase, or a call that only shows that the worker lives (check_messages).
\* The map resolver finds the session's worker, or the call is denied.
UseTool(u, k, phase) ==
    /\ toolUse[u] = NoUse /\ uses < MaxToolUses /\ uses' = uses + 1
    /\ holds[k] # 0 /\ Open(holds[k])
    /\ toolUse' = [toolUse EXCEPT ![u] = [by |-> k, at |-> "get", phase |-> phase, read |-> NoPeer]]
    /\ UNCHANGED <<connection, holds, peer, heldBy, repointing, faults, said, upset>>

\* applyPeerUpdate: "unknown sessions are a no-op".
GetPeer(u) ==
    LET k == toolUse[u].by IN
    /\ toolUse[u].at = "get"
    /\ toolUse' = [toolUse EXCEPT ![u] =
          IF HasRecord(k) THEN [@ EXCEPT !.at = "set", !.read = peer[k]] ELSE NoUse]
    /\ UNCHANGED <<connection, holds, peer, heldBy, repointing, uses, faults, said, upset>>

SetPeer(u) ==
    LET k == toolUse[u].by
        phase == IF toolUse[u].phase = Unsaid THEN toolUse[u].read.phase ELSE toolUse[u].phase
    IN  /\ toolUse[u].at = "set"
        /\ Writes(k, [toolUse[u].read EXCEPT !.phase = phase])
        /\ said' = [said EXCEPT ![k] = IF toolUse[u].phase = Unsaid THEN @ ELSE phase]
        /\ (IF peer[k] = toolUse[u].read THEN UNCHANGED upset ELSE Upsets(k, "overlapped"))
        /\ toolUse' = [toolUse EXCEPT ![u] = NoUse]
        /\ UNCHANGED <<connection, holds, heldBy, repointing, uses, faults>>

\* Mutant: the graph of the token.
Addressee_Token(k) == TokenGraph

\* What a report of the worker is addressed to (set_status's event, set_handoff): "Read
\* authoritative graphId from peer data".
Addressee(k) == IF HasRecord(k) THEN peer[k].graph ELSE TokenGraph

-----------------------------------------------------------------------------
(* merge_graphs: the tasks have been moved; now the records of those that run *)

MoveTask(k) ==
    /\ heldBy[k] = TokenGraph /\ heldBy' = [heldBy EXCEPT ![k] = "target"]
    /\ repointing' = [repointing EXCEPT ![k].at = "get"]
    /\ UNCHANGED <<connection, holds, peer, toolUse, uses, faults, said, upset>>

ReadRunningPeer(k) ==
    /\ repointing[k].at = "get"
    /\ repointing' = [repointing EXCEPT ![k] =
          [at |-> IF HasRecord(k) THEN "set" ELSE "lost", read |-> peer[k]]]
    /\ UNCHANGED <<connection, holds, peer, toolUse, heldBy, uses, faults, said, upset>>

\* Written even if it has expired: "ttl > 0 ? ttl : 300".
RepointPeer(k) ==
    /\ repointing[k].at = "set"
    /\ Writes(k, [repointing[k].read EXCEPT !.graph = "target"])
    /\ (IF peer[k] = repointing[k].read THEN UNCHANGED upset ELSE Upsets(k, "overlapped"))
    /\ repointing' = [repointing EXCEPT ![k] = [NoMerge EXCEPT !.at = "done"]]
    /\ UNCHANGED <<connection, holds, toolUse, heldBy, uses, faults, said>>

SessionsNext ==
    \/ \E k \in Clients :
          \/ \E n \in Connections : Connect(k, n)
          \/ Disconnect(k) \/ PeerExpires(k)
          \/ MoveTask(k) \/ ReadRunningPeer(k) \/ RepointPeer(k)
          \/ \E u \in ToolUses, phase \in Phases \cup {Unsaid} : UseTool(u, k, phase)
    \/ \E n \in Connections :
          AuthenticationRejected(n) \/ SessionInitialized(n) \/ CloseSession(n)
    \/ \E u \in ToolUses : GetPeer(u) \/ SetPeer(u)
    \/ StopEngine \/ EngineDies

-----------------------------------------------------------------------------
\* A worker whose client has an open session is listed; unless its record has expired, or an
\* older session of the same worker was closed behind the newer one.
ConnectedAreListed ==
    \A k \in Clients :
        holds[k] # 0 /\ Open(holds[k]) /\ upset[k] \cap {"expired", "closed"} = {} => HasRecord(k)

\* What is listed is a worker with a session, in the phase it last said; unless an engine died
\* and left the record to expire, or two updates of the record overlapped.
ListedAsTheySaid ==
    \A k \in Clients :
        HasRecord(k) /\ "overlapped" \notin upset[k] =>
            /\ peer[k].phase = said[k]
            /\ OpenFor(k) # {} \/ "engine died" \in upset[k]

\* Once merge_graphs has re-pointed a worker ("a merge_graphs call may have re-pointed this agent
\* to a different graph since spawn time", tools/set-status.ts:46), its reports go to the graph
\* that holds its task; unless its record has since expired, been removed or remade, or been
\* written back by an update that overlapped the merge.
ReportsFollowTheTask ==
    \A k \in Clients :
        repointing[k].at = "done" /\ HasRecord(k) /\ upset[k] \cap {"remade", "overlapped"} = {}
            => Addressee(k) = heldBy[k]

WorkersAreKnownByTheirRecords == ConnectedAreListed /\ ListedAsTheySaid /\ ReportsFollowTheTask
=============================================================================
