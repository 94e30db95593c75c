----------------------------- MODULE Retrospective -----------------------------
(***************************************************************************)
(* The self-improvement loop: anomalies found in an engine's events        *)
(* (anomaly-detector.ts), the review of a graph when it completes          *)
(* (graph-dispatch.ts, createEventHandler), and what becomes of the        *)
(* findings of the analyzer, which runs in a child of the reviewed graph   *)
(* (retro-handler.ts, decision-handler.ts).                                *)
(*                                                                         *)
(* One top-level graph, and one pattern with a window.  The end of a child *)
(* drives the completion of its parent once more, and so does any other    *)
(* end.  A drive takes less than the lock of the resolution lives.  Time   *)
(* is in ticks.                                                            *)
(***************************************************************************)
EXTENDS Naturals, Sequences, FiniteSets

CONSTANTS
    Groups,                 \* what the pattern's window is kept for: graphs, tasks or one session
    MinGraphs,              \* completed graphs of the session that its condition asks for
    Threshold, Duration,    \* of the window
    EscalateAfter,          \* anomalies from which on the pattern is severe
    FindingLists,           \* what an analyzer may find, each [category, filed]
    MaxIssues, MaxAutoFix,  \* maxIssuesPerRun, maxAutoFixTasks
    CompletionDrives,       \* who may drive the completion at the same time
    MaxClock, MaxEvents, MaxMisfortunes \* bounds

ASSUME RetrospectiveAssumption ==
    /\ {Duration, EscalateAfter, MinGraphs, MaxIssues, MaxAutoFix, MaxClock, MaxEvents,
        MaxMisfortunes} \subseteq Nat
    /\ Threshold \in Nat \ {0}
    /\ FindingLists \subseteq Seq([category : STRING, filed : BOOLEAN])

Choice == {"yes", "no", "unset"}

VARIABLES
    review,     \* what the graph's flag, the configuration and the graph's size say of reviews
    moment, sessionGraphCount, windowCounters, escalated,    \* the detector
    anomalies,  \* what it has recorded
    root,       \* the graph's status
    resolution, \* completionlock:<graph>:0
    completing, \* drive -> where it is
    retro,      \* the analyzer's graph
    findings,   \* in the handoff of its task
    routing,    \* where the handler of its end is, and what it has yet to file
    issues,     \* finding -> how many issues were filed for it
    kept, reported, \* the findings in the deferred store, in the report
    misfortunes,    \* crashes and failed calls so far
    matched, reviews, unreviewed    \* history: the events matched; reviews begun; refused

detectorVars == <<moment, sessionGraphCount, windowCounters, escalated, anomalies, matched>>
reviewVars == <<root, resolution, completing, reviews, unreviewed>>
routingVars == <<findings, routing, issues, kept, reported>>
retroVars == <<review, detectorVars, reviewVars, retro, routingVars, misfortunes>>

NoWindow == [count |-> 0, start |-> 0]
NotRouting == [at |-> "none", left |-> {}, count |-> 0]

RetroInit ==
    /\ review \in [flag: Choice, byDefault: Choice, autoApprove: BOOLEAN, large: BOOLEAN]
    /\ moment = 0 /\ sessionGraphCount = 0 /\ windowCounters = [g \in Groups |-> NoWindow]
    /\ escalated = 0 /\ anomalies = <<>>
    /\ root = "active" /\ resolution = FALSE /\ completing = [d \in CompletionDrives |-> "none"]
    /\ retro = "none" /\ findings = <<>> /\ routing = NotRouting
    /\ issues = <<>> /\ kept = {} /\ reported = {}
    /\ misfortunes = 0 /\ matched = <<>> /\ reviews = 0 /\ unreviewed = FALSE

Misfortune == misfortunes < MaxMisfortunes /\ misfortunes' = misfortunes + 1

-----------------------------------------------------------------------------
(* The detector *)

\* The list is the session's; that it expires a day after the last record is not modelled.
Record(found) == anomalies' = Append(anomalies, found)

TimePasses ==
    /\ moment < MaxClock /\ moment' = moment + 1
    /\ UNCHANGED <<review, sessionGraphCount, windowCounters, escalated, anomalies, matched,
                   reviewVars, retro, routingVars, misfortunes>>

GraphEnds ==
    /\ sessionGraphCount < MinGraphs /\ sessionGraphCount' = sessionGraphCount + 1
    /\ UNCHANGED <<review, moment, windowCounters, escalated, anomalies, matched, reviewVars, retro,
                   routingVars, misfortunes>>

Matches == sessionGraphCount >= MinGraphs

\* A window starts with the first event after the last one's time is over.
Opened(window) ==
    IF window.count = 0 \/ moment - window.start > Duration THEN [count |-> 0, start |-> moment]
    ELSE window

ResolveSeverity == IF escalated + 1 >= EscalateAfter THEN "critical" ELSE "low"

\* Each event that matches counts; with the threshold an anomaly is recorded, and counting starts
\* afresh. If the record fails the anomaly is lost.
Evaluate(g) ==
    LET window == [Opened(windowCounters[g]) EXCEPT !.count = @ + 1]
        found == [severity |-> ResolveSeverity, group |-> g, at |-> moment]
    IN
    /\ Matches /\ Len(matched) < MaxEvents
    /\ matched' = Append(matched, [group |-> g, at |-> moment])
    /\ \/ /\ window.count < Threshold
          /\ windowCounters' = [windowCounters EXCEPT ![g] = window]
          /\ UNCHANGED <<escalated, anomalies, misfortunes>>
       \/ /\ window.count >= Threshold
          /\ windowCounters' = [windowCounters EXCEPT ![g] = [NoWindow EXCEPT !.start = moment]]
          /\ escalated' = escalated + 1
          /\ \/ Record(found) /\ UNCHANGED misfortunes
             \/ Misfortune /\ UNCHANGED anomalies
    /\ UNCHANGED <<review, moment, sessionGraphCount, reviewVars, retro, routingVars>>

-----------------------------------------------------------------------------
(* The completion of the graph, and its review *)

\* Mutant: nobody asks whether the graph has ended.
CheckCompletion_Always(d) ==
    /\ completing[d] = "none" /\ retro # "running"
    /\ completing' = [completing EXCEPT ![d] = "claim"]

\* Its tasks have ended; it waits for its children, and is done with once it has ended.
CheckCompletion(d) ==
    /\ completing[d] = "none" /\ retro # "running"
    /\ root = "active"
    /\ completing' = [completing EXCEPT ![d] = "claim"]

Check(d) ==
    /\ CheckCompletion(d)
    /\ UNCHANGED <<review, detectorVars, root, resolution, reviews, unreviewed, retro, routingVars,
                   misfortunes>>

ClaimResolution(d) ==
    /\ completing[d] = "claim" /\ resolution' = TRUE
    /\ completing' = [completing EXCEPT ![d] = IF resolution THEN "none" ELSE "complete"]
    /\ UNCHANGED <<review, detectorVars, root, reviews, unreviewed, retro, routingVars,
                   misfortunes>>

LockExpires ==
    /\ resolution /\ \A d \in CompletionDrives : completing[d] = "none"
    /\ resolution' = FALSE
    /\ UNCHANGED <<review, detectorVars, root, completing, reviews, unreviewed, retro, routingVars,
                   misfortunes>>

Complete(d) ==
    /\ completing[d] = "complete" /\ root' = "completed"
    /\ completing' = [completing EXCEPT ![d] = "handle"]
    /\ UNCHANGED <<review, detectorVars, resolution, reviews, unreviewed, retro, routingVars,
                   misfortunes>>

\* The anomalies are the session's: those of its other graphs count too.
shouldTriggerAnalysis == review.large \/ anomalies # <<>>

resolveReviewDecision ==
    IF review.flag # "unset" THEN review.flag = "yes"
    ELSE IF review.byDefault # "unset" THEN review.byDefault = "yes" ELSE shouldTriggerAnalysis

\* The handler of graph_completed. If the child cannot be declared, there is no review.
TriggerAnalysis(d) ==
    /\ completing[d] = "handle" /\ completing' = [completing EXCEPT ![d] = "none"]
    /\ \/ /\ resolveReviewDecision /\ retro' = "running" /\ reviews' = reviews + 1
          /\ UNCHANGED <<unreviewed, misfortunes>>
       \/ ~resolveReviewDecision /\ unreviewed' = TRUE /\ UNCHANGED <<retro, reviews, misfortunes>>
       \/ Misfortune /\ UNCHANGED <<retro, reviews, unreviewed>>
    /\ UNCHANGED <<review, detectorVars, root, resolution, routingVars>>

-----------------------------------------------------------------------------
(* The analyzer's graph, and its findings *)

\* Its own end starts no review: its project and its parent both say what it is.
RetroEnds ==
    /\ retro = "running"
    /\ \/ /\ retro' = "completed" /\ routing' = [NotRouting EXCEPT !.at = "read"]
          /\ findings' \in FindingLists /\ issues' = [i \in DOMAIN findings' |-> 0]
       \/ retro' = "failed" /\ UNCHANGED <<findings, routing, issues>>
    /\ UNCHANGED <<review, detectorVars, reviewVars, kept, reported, misfortunes>>

Unfiled(category) ==
    {i \in DOMAIN findings : findings[i].category = category /\ ~findings[i].filed}
UpTo(n, S) == {i \in S : Cardinality({k \in S : k < i}) < n}

AutoFix == IF review.autoApprove THEN UpTo(MaxAutoFix, Unfiled("auto-improve")) ELSE {}
AskUser == Unfiled("ask-user") \cup IF review.autoApprove THEN {} ELSE Unfiled("auto-improve")
Defer == Unfiled("investigate")
         \cup IF review.autoApprove THEN Unfiled("auto-improve") \ AutoFix ELSE {}

Continue(at, left) == routing' = [routing EXCEPT !.at = at, !.left = left]

RouteFindings ==
    /\ routing.at = "read"
    /\ IF findings = <<>> THEN Continue("over", {}) ELSE Continue("execute", AutoFix)
    /\ UNCHANGED <<review, detectorVars, reviewVars, retro, findings, issues, kept, reported,
                   misfortunes>>

\* An issue that the forge refuses counts as one filed.
FileForgejoIssue ==
    /\ routing.at \in {"execute", "ask"} /\ routing.left # {} /\ routing.count < MaxIssues
    /\ \E i \in UpTo(1, routing.left) :
          /\ routing' = [routing EXCEPT !.left = @ \ {i}, !.count = @ + 1]
          /\ \/ issues' = [issues EXCEPT ![i] = @ + 1] /\ UNCHANGED misfortunes
             \/ Misfortune /\ UNCHANGED issues
    /\ UNCHANGED <<review, detectorVars, reviewVars, retro, findings, kept, reported>>

Filed(at) == routing.at = at /\ (routing.left = {} \/ routing.count = MaxIssues)

\* If the store fails, what was still to be filed and told is lost.
SaveDeferred ==
    /\ Filed("execute")
    /\ \/ kept' = Defer /\ Continue("ask", AskUser) /\ UNCHANGED misfortunes
       \/ Defer # {} /\ Misfortune /\ Continue("over", {}) /\ UNCHANGED kept
    /\ UNCHANGED <<review, detectorVars, reviewVars, retro, findings, issues, reported>>

\* The report names the findings beyond the cap as well.
BroadcastReport ==
    /\ Filed("ask") /\ Continue("over", {}) /\ reported' = DOMAIN findings
    /\ UNCHANGED <<review, detectorVars, reviewVars, retro, findings, issues, kept, misfortunes>>

\* A crash loses the handlers and the detector's counts, not the records; nobody resumes them.
SessionCrashes ==
    /\ Misfortune
    /\ completing' = [d \in CompletionDrives |-> "none"]
    /\ sessionGraphCount' = 0 /\ windowCounters' = [g \in Groups |-> NoWindow] /\ escalated' = 0
    /\ routing' = IF routing.at = "none" THEN routing ELSE [routing EXCEPT !.at = "over"]
    /\ UNCHANGED <<review, moment, anomalies, matched, root, resolution, reviews, unreviewed, retro,
                   findings, issues, kept, reported>>

RetroNext ==
    \/ TimePasses \/ GraphEnds \/ LockExpires \/ RetroEnds \/ RouteFindings \/ FileForgejoIssue
    \/ SaveDeferred \/ BroadcastReport \/ SessionCrashes
    \/ \E g \in Groups : Evaluate(g)
    \/ \E d \in CompletionDrives :
          Check(d) \/ ClaimResolution(d) \/ Complete(d) \/ TriggerAnalysis(d)

-----------------------------------------------------------------------------
\* A graph is reviewed once, however often and by whomever its completion is driven, the end of
\* its own review included (#192, task-graph.ts:1604); never against the word of its flag or,
\* without one, of the configuration, and always with it.
ReviewedAsAsked ==
    /\ reviews <= 1
    /\ review.flag = "no" \/ (review.flag = "unset" /\ review.byDefault = "no") => reviews = 0
    /\ review.flag = "yes" \/ (review.flag = "unset" /\ review.byDefault = "yes") => ~unreviewed
    /\ reviews = 1 /\ {review.flag, review.byDefault} = {"unset"} =>
          review.large \/ anomalies # <<>>

\* No finding has two issues, or an issue beside the one its analyzer filed, or is kept for later
\* as well; no review files more issues than it may.
FiledOnce ==
    /\ \A i \in DOMAIN issues :
          /\ issues[i] <= 1
          /\ issues[i] = 1 => ~findings[i].filed /\ i \notin kept
    /\ Cardinality({i \in DOMAIN issues : issues[i] > 0}) <= MaxIssues

\* A routing that nothing disturbed has told of every finding, has an issue for each it was to
\* file unless they were too many, and has kept what was to be deferred.
NothingFoundIsLost ==
    routing.at = "over" /\ misfortunes = 0 =>
        /\ reported = DOMAIN findings /\ kept = Defer
        /\ (\A i \in AutoFix \cup AskUser : issues[i] = 1)
           \/ Cardinality({i \in DOMAIN issues : issues[i] = 1}) = MaxIssues

\* Each anomaly stands for Threshold events of its own, of its group and within the window's
\* duration.
AnomaliesAreEarned ==
    /\ Len(anomalies) * Threshold <= Len(matched)
    /\ \A k \in DOMAIN anomalies :
          Cardinality({e \in DOMAIN matched :
              /\ matched[e].group = anomalies[k].group
              /\ matched[e].at + Duration >= anomalies[k].at
              /\ matched[e].at <= anomalies[k].at}) >= Threshold

ReviewsAreBounded ==
    ReviewedAsAsked /\ FiledOnce /\ NothingFoundIsLost /\ AnomaliesAreEarned
================================================================================
