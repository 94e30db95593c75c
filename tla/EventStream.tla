----------------------------- MODULE EventStream -----------------------------
(***************************************************************************)
(* The stream of a project's graph events and those who wait on it:        *)
(* emitEvent (src/src/task-graph.ts), await_graph_event                    *)
(* (tools/await-graph-event.ts) and the events of check_messages.          *)
(*                                                                         *)
(* All the watchers of a project are consumers of one consumer group: an   *)
(* entry goes to one of them, whatever graph it waits for.  An entry read  *)
(* and not yet acknowledged is pending for its consumer, and the next call *)
(* of that session reads it again.  The trim to about 1000 entries is left *)
(* out, and so is the supervision a watcher's timeout does.                *)
(***************************************************************************)
EXTENDS Integers, Sequences, FiniteSets, FiniteSetsExt

CONSTANTS
    Watchers,      \* sessions that call await_graph_event
    WatchedBy,     \* watcher -> the graph it waits for
    ChildGraphs,   \* graphs whose events bubble to Parent
    Parent,
    OtherGraphs,   \* other graphs of the project
    MaxEntries,    \* bound on the stream
    Batch,         \* maxEvents
    MaxAborts      \* bound on calls cut short

EventGraphs == ChildGraphs \cup {Parent} \cup OtherGraphs

ASSUME EventsAssumption ==
    /\ IsFiniteSet(Watchers) /\ WatchedBy \in [Watchers -> EventGraphs]
    /\ MaxEntries \in Nat /\ Batch \in Nat \ {0} /\ MaxAborts \in Nat

VARIABLES
    stream,       \* events:<project>: the graph each entry is about
    groupMade,    \* where the stream was when the group was created; -1: there is none
    delivered,    \* last-delivered-id of the group
    pending,      \* watcher -> its pending entries
    wait,         \* watcher -> its call
    received,     \* watcher -> the events its calls have returned
    discarded,    \* history: events acknowledged by calls that were then cut short
    cursor,       \* session -> eventCursors of check_messages; -1: not seeded
    noticed,      \* session -> the entries check_messages has returned
    aborts

eventVars == <<stream, groupMade, delivered, pending, wait, received, discarded, cursor,
               noticed, aborts>>

NoWait == [step |-> "none", batch |-> {}, matched |-> {}]

EventsInit ==
    /\ stream = <<>> /\ groupMade = -1 /\ delivered = 0
    /\ pending = [w \in Watchers |-> {}]
    /\ wait = [w \in Watchers |-> NoWait]
    /\ received = [w \in Watchers |-> {}]
    /\ discarded = {}
    /\ cursor = [w \in Watchers |-> -1]
    /\ noticed = [w \in Watchers |-> {}]
    /\ aborts = 0

\* emitEvent: the entry; a child's event bubbles to its parent in a second one.
Entries(g) == IF g \in ChildGraphs THEN <<g, Parent>> ELSE <<g>>

Emit(g) ==
    /\ Len(stream) + Len(Entries(g)) <= MaxEntries
    /\ stream' = stream \o Entries(g)
    /\ UNCHANGED <<groupMade, delivered, pending, wait, received, discarded, cursor, noticed,
                   aborts>>

\* Mutant: every session starts with what is new.
FirstPhase_New == "live"

\* "Read with '0' to drain any pending (unACKed) messages from a prior crash."
FirstPhase == "pending"

\* The group is created at the stream's end, by the first call ever.
BeginAwait(w) ==
    /\ wait[w] = NoWait
    /\ IF groupMade = -1
       THEN groupMade' = Len(stream) /\ delivered' = Len(stream)
       ELSE UNCHANGED <<groupMade, delivered>>
    /\ wait' = [wait EXCEPT ![w] = [NoWait EXCEPT !.step = FirstPhase]]
    /\ UNCHANGED <<stream, pending, received, discarded, cursor, noticed, aborts>>

\* The first Batch elements of a set of entries.
FirstOf(entries) == {i \in entries : Cardinality({j \in entries : j < i}) < Batch}

ReadPending(w) ==
    /\ wait[w].step = "pending" /\ wait[w].batch = {}
    /\ wait' = IF pending[w] = {} THEN [wait EXCEPT ![w].step = "live"]
               ELSE [wait EXCEPT ![w].batch = FirstOf(pending[w])]
    /\ UNCHANGED <<stream, groupMade, delivered, pending, received, discarded, cursor,
                   noticed, aborts>>

ReadNew(w) ==
    LET entries == FirstOf(delivered + 1 .. Len(stream))
    IN /\ wait[w].step = "live" /\ wait[w].batch = {} /\ entries # {}
       /\ delivered' = Max(entries)
       /\ pending' = [pending EXCEPT ![w] = @ \cup entries]
       /\ wait' = [wait EXCEPT ![w].batch = entries]
       /\ UNCHANGED <<stream, groupMade, received, discarded, cursor, noticed, aborts>>

\* xack first, and then the look at whose event it is.  After the last one the call
\* returns, if there is an event to return.
Acknowledge(w) ==
    LET i == Min(wait[w].batch)
        batch == wait[w].batch \ {i}
        matched == IF stream[i] = WatchedBy[w] THEN wait[w].matched \cup {i}
                   ELSE wait[w].matched
    IN /\ wait[w].batch # {}
       /\ pending' = [pending EXCEPT ![w] = @ \ {i}]
       /\ IF batch = {} /\ matched # {}
          THEN /\ received' = [received EXCEPT ![w] = @ \cup matched]
               /\ wait' = [wait EXCEPT ![w] = NoWait]
          ELSE /\ wait' = [wait EXCEPT ![w].batch = batch, ![w].matched = matched]
               /\ UNCHANGED received
       /\ UNCHANGED <<stream, groupMade, delivered, discarded, cursor, noticed, aborts>>

\* The time is up, or the graph had ended before.
AwaitReturns(w) ==
    /\ wait[w].step # "none" /\ wait[w].batch = {}
    /\ wait' = [wait EXCEPT ![w] = NoWait]
    /\ UNCHANGED <<stream, groupMade, delivered, pending, received, discarded, cursor,
                   noticed, aborts>>

\* The client disconnects, Redis fails or the engine ends.
AwaitAborted(w) ==
    /\ wait[w].step # "none" /\ aborts < MaxAborts
    /\ aborts' = aborts + 1
    /\ wait' = [wait EXCEPT ![w] = NoWait]
    /\ discarded' = discarded \cup wait[w].matched
    /\ UNCHANGED <<stream, groupMade, delivered, pending, received, cursor, noticed>>

\* check_messages: a cursor of the session's own, seeded at the stream's end.
CheckEvents(w) ==
    /\ LET from == IF cursor[w] = -1 THEN Len(stream) ELSE cursor[w]
       IN /\ noticed' = [noticed EXCEPT ![w] = @ \cup (from + 1 .. Len(stream))]
          /\ cursor' = [cursor EXCEPT ![w] = Len(stream)]
    /\ UNCHANGED <<stream, groupMade, delivered, pending, wait, received, discarded, aborts>>

EventsNext ==
    \/ \E g \in EventGraphs : Emit(g)
    \/ \E w \in Watchers :
           \/ BeginAwait(w) \/ ReadPending(w) \/ ReadNew(w) \/ Acknowledge(w)
           \/ AwaitReturns(w) \/ AwaitAborted(w) \/ CheckEvents(w)

EventsSpec == EventsInit /\ [][EventsNext]_eventVars

-----------------------------------------------------------------------------
(* Properties *)

Positions == 1 .. MaxEntries

EventsTypeOK ==
    /\ stream \in Seq(EventGraphs) /\ Len(stream) <= MaxEntries
    /\ groupMade \in -1 .. MaxEntries /\ delivered \in 0 .. MaxEntries
    /\ pending \in [Watchers -> SUBSET Positions]
    /\ wait \in [Watchers -> [step : {"none", "pending", "live"},
                              batch : SUBSET Positions, matched : SUBSET Positions]]
    /\ received \in [Watchers -> SUBSET Positions] /\ discarded \subseteq Positions
    /\ cursor \in [Watchers -> -1 .. MaxEntries]
    /\ noticed \in [Watchers -> SUBSET Positions]
    /\ aborts \in 0 .. MaxAborts

\* No event is lost on a watcher: of the events of its graph since the group was created,
\* each was returned, or is yet to be read, or is with the call under way, or is pending
\* for a call that will read it; except those acknowledged by a call that was cut short
\* (await-graph-event.ts:243 acknowledges before it uses).
EventsReach ==
    \A w \in Watchers : \A i \in 1 .. Len(stream) :
        groupMade # -1 /\ i > groupMade /\ stream[i] = WatchedBy[w] =>
            \/ i > delivered
            \/ i \in received[w] \cup wait[w].matched \cup discarded
            \/ i \in pending[w]
               /\ (wait[w].step \in {"none", "pending"} \/ i \in wait[w].batch)

\* So it is for a watcher alone in its project; of two, each acknowledges and drops what
\* is the other's (await-graph-event.ts:245).
EventsReachAlone == Cardinality(Watchers) = 1 => EventsReach
=============================================================================
