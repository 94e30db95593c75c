------------------------------- MODULE PeerGraphs -------------------------------
(***************************************************************************)
(* What graphs on one destination know of each other: a summary of each,   *)
(* kept in Redis beside its record (workspace/graph-registry.ts) by the    *)
(* handlers that declare a graph, change its status or complete its tasks  *)
(* (task-graph.ts), and read when another graph is declared                *)
(* (tools/declare-task-graph.ts) or an agent asks (enrichment.ts).         *)
(*                                                                         *)
(* A summary is read and written in two commands, and its changes follow   *)
(* those of the record without a lock: handlers overlap.                   *)
(***************************************************************************)
EXTENDS Naturals, FiniteSets

CONSTANTS
    PeerIds,        \* graphs of the destination
    Handlers,       \* handlers under way at once
    MaxChanges      \* bound: changes of status, reports and declarations

VARIABLES
    graphRecord,     \* graph -> the status in its record, "none" before it is declared
    summary,    \* graph -> the status in its summary, "none" if there is no summary
    failedAt,   \* graph -> when its recorded failure was found
    footprint,  \* graphs that have a set of files
    handler,    \* handler -> where it is
    changes,    \* changes so far; the clock
    knownTo,    \* history: <<p, g>>: who declared g was told of p
    succeeded,  \* history: when a graph last succeeded
    stale,      \* history: graphs whose summary or files were written by an outdated handler
    revived     \* history: graphs taken back to active by retry_task

peerVars == <<graphRecord, summary, failedAt, footprint, handler, changes, knownTo, succeeded,
              stale, revived>>

LiveStatuses == {"active", "validating", "reworking"}
Resting ==
    [at |-> "rest", graph |-> "none", to |-> "none", read |-> "none", old |-> {}, cutoff |-> 0]

PeersInit ==
    /\ graphRecord = [g \in PeerIds |-> "none"] /\ summary = [g \in PeerIds |-> "none"]
    /\ failedAt = [g \in PeerIds |-> 0] /\ footprint = {}
    /\ handler = [h \in Handlers |-> Resting] /\ changes = 0
    /\ knownTo = {} /\ succeeded = 0 /\ stale = {} /\ revived = {}

isActivePeer(s) == s \in LiveStatuses

Goes(h, at) == handler' = [handler EXCEPT ![h].at = at]
Finishes(h) == handler' = [handler EXCEPT ![h] = Resting]
StandsAt(h, at) == handler[h].at = at
Kept(h, at) == StandsAt(h, at) /\ UNCHANGED <<graphRecord, changes, revived>>

-----------------------------------------------------------------------------
(* Handlers begin *)

Begins(h, g, at, to) ==
    /\ StandsAt(h, "rest") /\ changes < MaxChanges /\ changes' = changes + 1
    /\ handler' = [handler EXCEPT ![h] =
          [Resting EXCEPT !.at = at, !.graph = g, !.to = to, !.cutoff = changes + 1]]
    /\ UNCHANGED <<summary, failedAt, footprint, knownTo, stale>>

DeclarePeer(h, g) ==
    /\ graphRecord[g] = "none" /\ graphRecord' = [graphRecord EXCEPT ![g] = "active"]
    /\ Begins(h, g, "register", "active") /\ UNCHANGED <<succeeded, revived>>

NextStatus(s) ==
    CASE s = "active" -> {"validating", "completed", "failed", "canceled"}
      [] s = "validating" -> {"validated", "validation_failed", "reworking", "failed", "canceled"}
      [] s = "reworking" -> {"validated", "validation_failed", "failed", "canceled"}
      [] OTHER -> {}

Success == {"validated", "completed"}

\* The record is written before the summary is read; a verdict comes with the failure.
UpdateGraphStatus(h, g, s) ==
    /\ s \in NextStatus(graphRecord[g]) /\ graphRecord' = [graphRecord EXCEPT ![g] = s]
    /\ succeeded' = IF s \in Success THEN changes + 1 ELSE succeeded
    /\ Begins(h, g, "get", s) /\ UNCHANGED revived

\* retry_task writes the record alone.
ReviveGraph(g) ==
    /\ graphRecord[g] \in {"failed", "canceled"} /\ changes < MaxChanges
    /\ graphRecord' = [graphRecord EXCEPT ![g] = "active"]
    /\ revived' = revived \cup {g} /\ changes' = changes + 1
    /\ UNCHANGED <<summary, failedAt, footprint, handler, knownTo, succeeded, stale>>

TaskReports(h, g) ==
    /\ graphRecord[g] # "none" /\ graphRecord' = graphRecord /\ UNCHANGED <<succeeded, revived>>
    /\ Begins(h, g, "exists", "none")

-----------------------------------------------------------------------------
(* and go on, command by command *)

Register(h) ==
    LET g == handler[h].graph IN
    /\ Kept(h, "register")
    /\ summary' = [summary EXCEPT ![g] = "active"]
    /\ stale' = IF graphRecord[g] \in LiveStatuses THEN stale ELSE stale \cup {g}
    /\ Goes(h, "peers") /\ UNCHANGED <<failedAt, footprint, knownTo, succeeded>>

\* Its own summary is there before those of the others are looked for.
\* The answer to the declaration names the peers.
ToldOf(g, peers) == knownTo' = knownTo \cup {<<p, g>> : p \in peers}

GetActiveGraphs(h) ==
    LET g == handler[h].graph IN
    /\ Kept(h, "peers")
    /\ ToldOf(g, {q \in PeerIds \ {g} : isActivePeer(summary[q])})
    /\ Finishes(h) /\ UNCHANGED <<summary, failedAt, footprint, succeeded, stale>>

AfterSync(h) == IF handler[h].to \in LiveStatuses THEN "rest"
                ELSE IF handler[h].to = "validation_failed" THEN "drop"
                ELSE IF handler[h].to \in Success THEN "scan" ELSE "deregister"
\* A summary that is gone is written anew.
GetSummary_Upsert(h) ==
    /\ Kept(h, "get")
    /\ handler' = [handler EXCEPT ![h].read = summary[handler[h].graph], ![h].at = "set"]
    /\ UNCHANGED <<summary, failedAt, footprint, knownTo, succeeded, stale>>

\* setStatus, recordValidationFailure: what has been deregistered is not made again.
GetSummary(h) ==
    LET read == summary[handler[h].graph]
        gone == IF handler[h].to = "validation_failed" THEN "rest" ELSE AfterSync(h)
    IN  /\ Kept(h, "get")
        /\ \/ read = "none" /\ (IF gone = "rest" THEN Finishes(h) ELSE Goes(h, gone))
           \/ read # "none" /\ handler' = [handler EXCEPT ![h].read = read, ![h].at = "set"]
        /\ UNCHANGED <<summary, failedAt, footprint, knownTo, succeeded, stale>>

SetSummary(h) ==
    LET g == handler[h].graph
        to == handler[h].to
    IN  /\ Kept(h, "set")
        /\ summary' = [summary EXCEPT
              ![g] = IF to \in LiveStatuses \cup {"validation_failed"} THEN to ELSE "done"]
        /\ failedAt' = [failedAt EXCEPT
              ![g] = IF to = "validation_failed" THEN handler[h].cutoff ELSE @]
        /\ stale' = IF \/ handler[h].read = "none"
                       \/ summary[g] = handler[h].read /\ graphRecord[g] = to
                    THEN stale ELSE stale \cup {g}
        /\ (IF AfterSync(h) = "rest" THEN Finishes(h) ELSE Goes(h, AfterSync(h)))
        /\ UNCHANGED <<footprint, knownTo, succeeded>>

\* A failed graph holds no files any more.
DropFiles(h) ==
    /\ Kept(h, "drop") /\ footprint' = footprint \ {handler[h].graph}
    /\ Finishes(h) /\ UNCHANGED <<summary, failedAt, knownTo, succeeded, stale>>

\* clearFailuresOlderThan: a success supersedes the failures that came before it.
ScanFailures(h) ==
    /\ Kept(h, "scan")
    /\ handler' = [handler EXCEPT ![h].at = "clear",
          ![h].old = {p \in PeerIds : /\ summary[p] = "validation_failed"
                                      /\ failedAt[p] < handler[h].cutoff}]
    /\ UNCHANGED <<summary, failedAt, footprint, knownTo, succeeded, stale>>

Deregister(g) == summary' = [summary EXCEPT ![g] = "none"] /\ footprint' = footprint \ {g}

ClearFailure(h) ==
    /\ Kept(h, "clear")
    /\ \/ \E p \in handler[h].old :
              Deregister(p) /\ handler' = [handler EXCEPT ![h].old = @ \ {p}]
       \/ handler[h].old = {} /\ Goes(h, "deregister") /\ UNCHANGED <<summary, footprint>>
    /\ UNCHANGED <<failedAt, knownTo, succeeded, stale>>

TeardownGraph(h) ==
    /\ Kept(h, "deregister") /\ Deregister(handler[h].graph)
    /\ Finishes(h) /\ UNCHANGED <<failedAt, knownTo, succeeded, stale>>

\* addActualFiles: the files of a graph that has a summary.
CheckSummary(h) ==
    /\ Kept(h, "exists")
    /\ (IF summary[handler[h].graph] = "none" THEN Finishes(h) ELSE Goes(h, "add"))
    /\ UNCHANGED <<summary, failedAt, footprint, knownTo, succeeded, stale>>

AddActualFiles(h) ==
    LET g == handler[h].graph IN
    /\ Kept(h, "add") /\ footprint' = footprint \cup {g}
    /\ stale' = IF summary[g] \in {"none", "validation_failed"} THEN stale \cup {g} ELSE stale
    /\ Finishes(h) /\ UNCHANGED <<summary, failedAt, knownTo, succeeded>>

PeersNext ==
    \/ \E h \in Handlers, g \in PeerIds :
          \/ DeclarePeer(h, g) \/ TaskReports(h, g)
          \/ \E s \in NextStatus(graphRecord[g]) : UpdateGraphStatus(h, g, s)
    \/ \E g \in PeerIds : ReviveGraph(g)
    \/ \E h \in Handlers :
          \/ Register(h) \/ GetActiveGraphs(h) \/ GetSummary(h) \/ SetSummary(h) \/ DropFiles(h)
          \/ ScanFailures(h) \/ ClearFailure(h) \/ TeardownGraph(h) \/ CheckSummary(h)
          \/ AddActualFiles(h)

-----------------------------------------------------------------------------
InOrder(g) == g \notin stale \cup revived /\ \A h \in Handlers : handler[h].graph # g

\* Of two live graphs on a destination, whoever declared the later was told of the other: each
\* is registered before it looks for its peers ("Reads peers AFTER declareGraph so the new graph
\* is already in the registry", declare-task-graph.ts:320).
PeersAreTold ==
    \A g \in PeerIds : \A p \in PeerIds \ {g} :
        InOrder(g) /\ InOrder(p) /\ {graphRecord[g], graphRecord[p]} \subseteq LiveStatuses
            => <<p, g>> \in knownTo \/ <<g, p>> \in knownTo

\* The registry lists the graphs that are live, no others, and no files of others; and a graph
\* that failed its validation stays listed as that until a later success on the destination --
\* of graphs no outdated handler has written to, and which were not taken back by retry_task.
RegistryIsTrue ==
    \A g \in PeerIds : InOrder(g) =>
        /\ isActivePeer(summary[g]) <=> graphRecord[g] \in LiveStatuses
        /\ g \in footprint => graphRecord[g] \in LiveStatuses
        /\ graphRecord[g] = "validation_failed" =>
              summary[g] = "validation_failed" \/ succeeded > failedAt[g]

PeersAreKnown == PeersAreTold /\ RegistryIsTrue
=============================================================================
