------------------------------ MODULE Accounting ------------------------------
(***************************************************************************)
(* What the agents of a task cost, and where the engine keeps it: the      *)
(* invoke_agent span that is opened for each attempt and registered under  *)
(* the task (instrumentation/agent-spawn.ts), the reading of the usage     *)
(* from the worker's transcript when it exits or is killed                 *)
(* (k8s-usage.ts), the sum kept for the graph, and its record when the     *)
(* graph ends (domain/graph.ts).                                           *)
(*                                                                         *)
(* All of it is in the memory of one engine; exec pods open no span.       *)
(***************************************************************************)
EXTENDS Naturals, Sequences, SequencesExt

CONSTANTS
    MaxAttempts,    \* bound: attempts at the task
    Reads           \* how often a transcript is read for its usage

ASSUME AccountingAssumption == MaxAttempts \in Nat \ {0} /\ Reads \in Nat \ {0}

Tries == 1..MaxAttempts

VARIABLES
    task, session,  \* the task's status, and the attempt whose session is stamped on it (or 0)
    attempt,        \* the attempts begun
    worker,         \* attempt -> where its Job is
    captured,       \* whether the sessions are captured at all
    flushed,        \* attempts whose usage the transcript has
    span,           \* attempt -> its invoke_agent span
    handle,         \* the attempt registered under the task's key, or 0
    reads,          \* attempt -> the reads that are left to the one who reads
    reporting,      \* attempts whose exit is in its grace, not yet reported
    account,        \* attempt -> what has been counted of it
    sum, recorded,  \* attempt -> how often its cost is in the graph's sum, in its records
    graph, ending,  \* the graph's status, and whether its end is still to be handled
    belated, strayed   \* history: costs summed after the end, handles that another's end removed

workVars == <<task, session, attempt, worker, captured, reporting, graph>>
accountingVars == <<task, session, attempt, worker, captured, flushed, span, handle, reads,
                    reporting, account, sum, recorded, graph, ending, belated, strayed>>

AccountingInit ==
    /\ task = "pending" /\ session = 0 /\ attempt = 0
    /\ worker = [a \in Tries |-> "none"] /\ captured \in BOOLEAN /\ flushed = {}
    /\ span = [a \in Tries |-> "none"] /\ handle = 0
    /\ reads = [a \in Tries |-> 0] /\ reporting = {}
    /\ account = [a \in Tries |-> <<>>]
    /\ sum = [a \in Tries |-> 0] /\ recorded = [a \in Tries |-> 0]
    /\ graph = "active" /\ ending = FALSE /\ belated = {} /\ strayed = {}

-----------------------------------------------------------------------------
(* Spans and sums *)

\* All attempts have one key: what is registered under it goes, whosever it is.
DropHandle(a) ==
    /\ handle' = 0
    /\ strayed' = IF handle \in {0, a} THEN strayed ELSE strayed \cup {handle}

EndSpan(a) == span' = [span EXCEPT ![a] = "ended"] /\ DropHandle(a)

HasUsage(a) == captured /\ a \in flushed

\* The cost of attempt a is added to what its graph's agents have cost.
OnGraphAgentCost(a) ==
    /\ sum' = [sum EXCEPT ![a] = @ + 1]
    /\ belated' = IF graph = "active" \/ ending THEN belated ELSE belated \cup {a}

\* Count attempt a, with the cost of attempt c if it was found.
Count(a, source, c) ==
    /\ account' = [account EXCEPT ![a] = Append(@, source)]
    /\ IF source = "parsed" THEN OnGraphAgentCost(c) ELSE UNCHANGED <<sum, belated>>

\* Mutant: the usage is emitted whoever ended the span.
Claim_Unguarded(a, source) == EndSpan(a) /\ Count(a, source, a)

\* Who ends the span does the accounting, once for all.
Claim(a, source) ==
    IF span[a] = "open" THEN EndSpan(a) /\ Count(a, source, a)
    ELSE UNCHANGED <<span, handle, strayed, account, sum, belated>>

\* The kill ends what is registered under the task's key, with what session s has left.
RecordCanceledAgentUsage(s) ==
    IF handle # 0 /\ span[handle] = "open"
    THEN EndSpan(handle) /\ Count(handle, IF HasUsage(s) THEN "parsed" ELSE "lost_canceled", s)
    ELSE UNCHANGED <<span, handle, strayed, account, sum, belated>>

-----------------------------------------------------------------------------
(* The worker's life, as the engine that spawned it sees it *)

Dispatch ==
    /\ task = "pending" /\ attempt < MaxAttempts
    /\ task' = "running" /\ attempt' = attempt + 1
    /\ worker' = [worker EXCEPT ![attempt'] = "started"]
    /\ UNCHANGED <<session, captured, flushed, span, handle, reads, reporting, account, sum,
                   recorded, graph, ending, belated, strayed>>

\* The Job exists: the span is opened and registered, the exit listened to, and the record gets
\* the session, and the status running whatever it has become.
BeginAgentSpan(a) ==
    /\ worker[a] = "started"
    /\ worker' = [worker EXCEPT ![a] = "watched"]
    /\ span' = [span EXCEPT ![a] = "open"] /\ handle' = a
    /\ task' = "running" /\ session' = a
    /\ UNCHANGED <<attempt, captured, flushed, reads, reporting, account, sum, recorded, graph,
                   ending, belated, strayed>>

\* The transcript gets its result, which may be after the exit, or never.
Flush(a) ==
    /\ captured /\ worker[a] \in {"watched", "exited"} /\ a \notin flushed
    /\ flushed' = flushed \cup {a}
    /\ UNCHANGED <<workVars, span, handle, reads, account, sum, recorded, ending, belated, strayed>>

\* The exit is seen: the transcript is read at once, and again if it has no usage yet.
Exit(a) ==
    /\ worker[a] = "watched"
    /\ worker' = [worker EXCEPT ![a] = "exited"] /\ reporting' = reporting \cup {a}
    /\ IF ~captured
       THEN /\ EndSpan(a) /\ UNCHANGED <<account, sum, belated, reads>>
       ELSE IF HasUsage(a) THEN Claim(a, "parsed") /\ UNCHANGED reads
       ELSE IF Reads = 1 THEN Claim(a, "missing") /\ UNCHANGED reads
       ELSE /\ reads' = [reads EXCEPT ![a] = Reads - 1]
            /\ UNCHANGED <<span, handle, strayed, account, sum, belated>>
    /\ UNCHANGED <<task, session, attempt, captured, flushed, recorded, graph, ending>>

ReadUsageWithRetry(a) ==
    /\ reads[a] > 0
    /\ IF HasUsage(a) THEN Claim(a, "parsed") /\ reads' = [reads EXCEPT ![a] = 0]
       ELSE /\ reads' = [reads EXCEPT ![a] = @ - 1]
            /\ IF reads[a] = 1 THEN Claim(a, "missing")
               ELSE UNCHANGED <<span, handle, strayed, account, sum, belated>>
    /\ UNCHANGED <<workVars, flushed, recorded, ending>>

-----------------------------------------------------------------------------
(* Ends of the task and of the graph *)

EndsGraph(status) == graph' = status /\ ending' = (ending \/ status # "validation_failed")
NothingEnds == UNCHANGED <<graph, ending>>

\* A failure is retried while there are attempts; the last one fails the graph.
TaskFails ==
    \/ attempt < MaxAttempts /\ task' = "pending" /\ session' = 0 /\ NothingEnds
    \/ /\ task' = "failed" /\ UNCHANGED session
       /\ IF graph = "active" THEN EndsGraph("failed") ELSE NothingEnds

TaskCompletes ==
    /\ task' = "completed" /\ UNCHANGED session
    /\ IF graph = "active" THEN \E s \in {"completed", "validation_failed"} : EndsGraph(s)
       ELSE NothingEnds

\* The exit's grace is over. A task that has ended meanwhile is left alone.
Report(a) ==
    /\ a \in reporting
    /\ reporting' = reporting \ {a}
    /\ IF task = "running" THEN TaskFails \/ TaskCompletes
       ELSE UNCHANGED <<task, session>> /\ NothingEnds
    /\ UNCHANGED <<attempt, worker, captured, flushed, span, handle, reads, account, sum, recorded,
                   belated, strayed>>

\* The Job of the stamped session is deleted, and nobody waits for its exit any more.
KillWorker ==
    /\ worker' = [worker EXCEPT ![session] = IF @ = "watched" THEN "killed" ELSE @]
    /\ RecordCanceledAgentUsage(session)

\* kill_task fails the task; the sweep that kills for a timeout leaves it as it is.
KillTask ==
    /\ task = "running" /\ session # 0
    /\ KillWorker
    /\ TaskFails
    /\ UNCHANGED <<attempt, captured, flushed, reads, reporting, recorded>>
SweepKill ==
    /\ task = "running" /\ session # 0
    /\ KillWorker
    /\ UNCHANGED <<task, session, attempt, captured, flushed, reads, reporting, recorded, graph, ending>>

\* Only a worker with a session is killed.
CancelGraph ==
    /\ task \in {"pending", "running"} /\ graph = "active"
    /\ task' = "canceled" /\ EndsGraph("canceled")
    /\ IF task = "running" /\ session # 0 THEN KillWorker
       ELSE UNCHANGED <<worker, span, handle, strayed, account, sum, belated>>
    /\ UNCHANGED <<session, attempt, captured, flushed, reads, reporting, recorded>>

RetryTask ==
    /\ task \in {"failed", "canceled"} /\ graph \in {"failed", "canceled"} /\ attempt < MaxAttempts
    /\ task' = "pending" /\ session' = 0 /\ graph' = "active"
    /\ UNCHANGED <<attempt, worker, captured, flushed, span, handle, reads, reporting, account, sum,
                   recorded, ending, belated, strayed>>

\* The graph's end is handled: its sum is recorded and begins anew.
DrainGraphCost ==
    /\ ending
    /\ recorded' = [a \in Tries |-> recorded[a] + sum[a]]
    /\ sum' = [a \in Tries |-> 0]
    /\ ending' = FALSE
    /\ UNCHANGED <<workVars, flushed, span, handle, reads, account, belated, strayed>>

AccountingNext ==
    \/ Dispatch \/ KillTask \/ SweepKill \/ CancelGraph \/ RetryTask \/ DrainGraphCost
    \/ \E a \in Tries :
          BeginAgentSpan(a) \/ Flush(a) \/ Exit(a) \/ ReadUsageWithRetry(a) \/ Report(a)

-----------------------------------------------------------------------------
(* Properties *)

JobOver == {"exited", "killed"}
AllRead(a) == worker[a] \in JobOver /\ reads[a] = 0
\* Killed when the late end of an earlier attempt had taken its handle away.
Lost(a) == worker[a] = "killed" /\ a \in strayed

\* No attempt is counted twice, and none whose transcript is captured is forgotten: when its Job
\* is over and its transcript read, its span has ended and it is counted, with its cost if that
\* was found; and the cost is in one record of the graph, or still waits in the sum for the end
\* of a graph that has not ended, that ended before it was known, or whose validation failed.
\* Excused is a kill of an attempt that an earlier one's end has deregistered.
CostIsAccounted == \A a \in Tries :
    /\ Len(account[a]) <= 1 /\ sum[a] + recorded[a] <= 1
    /\ AllRead(a) /\ captured /\ ~Lost(a) =>
          /\ span[a] = "ended" /\ Len(account[a]) = 1
          /\ account[a] = <<"parsed">> => sum[a] + recorded[a] = 1
    /\ sum[a] = 1 => graph \in {"active", "validation_failed"} \/ ending \/ a \in belated
=============================================================================
