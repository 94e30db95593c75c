----------------------------- MODULE MergeClone -----------------------------
(***************************************************************************)
(* The working clone in which an engine merges the branches of its workers *)
(* (src/src/spawn/remote-merge.ts): the git commands of                    *)
(* mergeTaskIntoIntegration, promoteIntegration, resolveAfterCoordinator,  *)
(* getIntegrationDiff and deleteBranches, one step each, on one origin.    *)
(*                                                                         *)
(* A RemoteMerge keeps one clone per destination and no mutex, so calls    *)
(* (of several graphs, or of one) share its HEAD, its FETCH_HEAD, its      *)
(* index and its branches.  A commit is the set of the works it contains:  *)
(* an ancestor is a subset, a merge a union.  git's "add" and "commit" of  *)
(* a conflict are one step.  A network command that fails does so after    *)
(* its retries.                                                            *)
(***************************************************************************)
EXTENDS Integers, FiniteSets

CONSTANTS
    Callers,       \* calls under way at a time
    Tasks,         \* the tasks whose work is merged; a task is also its work
    GraphOf,       \* task -> the graph whose integration branch it is merged into
    Fixes,         \* tasks of rework-fix children, merged into the reworked graph's branch
    Clashes,       \* sets of two works that conflict
    Others,        \* works that other people push to the base branch
    Policies,      \* completion policies the destination may have
    MaxRetries,    \* MAX_RETRIES (3 in the code)
    MaxTroubles,   \* bound on failures of git
    NoTask

Graphs == {GraphOf[t] : t \in Tasks}
Works == Tasks \cup Others
NoCommit == {NoTask}   \* of a branch that does not exist

\* A branch is a kind and what it is for.
Base == <<"base", NoTask>>
TaskBranch(t) == <<"task", t>>
Conflict(t) == <<"conflict", t>>
Integration(g) == <<"integration", g>>
Branches == {Base} \cup {TaskBranch(t) : t \in Tasks} \cup {Conflict(t) : t \in Tasks}
            \cup {Integration(g) : g \in Graphs}

ASSUME MergeCloneAssumption ==
    /\ GraphOf \in [Tasks -> Graphs] /\ Fixes \subseteq Tasks /\ Tasks \cap Others = {}
    /\ Clashes \subseteq SUBSET Works
    /\ Policies \subseteq {"promote", "pr-only"}
    /\ MaxRetries \in Nat /\ MaxTroubles \in Nat
    /\ NoTask \notin Works \cup Graphs

VARIABLES
    policy,      \* completionPolicy of the destination
    origin,      \* branch -> its commit on origin, or NoCommit
    clone,       \* cloned (is there one), branch (HEAD), heads, tracking (origin/*),
                 \* fetchHead, unmerged (the commit of a merge in conflict)
    call,        \* caller -> what it does and what it remembers
    fate,        \* task -> what became of its branch
    promotion,   \* graph -> what its promotion reported
    lied,        \* history: tasks whose unverified push did nothing
    gitTroubles

cloneVars == <<policy, origin, clone, call, fate, promotion, lied, gitTroubles>>

Idle == [op |-> "none", task |-> NoTask, graph |-> NoTask, step |-> "none", retry |-> 0,
         found |-> FALSE, pre |-> NoCommit, sha |-> NoCommit]

CloneInit ==
    /\ policy \in Policies
    /\ origin = [b \in Branches |-> IF b = Base THEN {} ELSE NoCommit]
    /\ clone = [cloned |-> FALSE, branch |-> Base, heads |-> [b \in Branches |-> NoCommit],
                tracking |-> [b \in Branches |-> NoCommit], fetchHead |-> NoCommit,
                unmerged |-> NoCommit]
    /\ call = [c \in Callers |-> Idle]
    /\ fate = [t \in Tasks |-> "working"]
    /\ promotion = [g \in Graphs |-> "none"]
    /\ lied = {} /\ gitTroubles = 0

-----------------------------------------------------------------------------
(* What git does *)

Tip == clone.heads[clone.branch]
Conflicting(x, y) == \E u \in x \ y, v \in y \ x : {u, v} \in Clashes

\* A push without force is refused unless it moves the branch forward.
Accepts(b, commit) == origin[b] = NoCommit \/ origin[b] \subseteq commit

Trouble == gitTroubles < MaxTroubles /\ gitTroubles' = gitTroubles + 1
Smooth == UNCHANGED gitTroubles

Fetched(b) == [clone EXCEPT !.tracking[b] = origin[b], !.fetchHead = origin[b]]
CheckedOut(b, commit) == [clone EXCEPT !.branch = b, !.heads[b] = commit]
MovedTo(commit) == [clone EXCEPT !.heads[clone.branch] = commit, !.unmerged = NoCommit]

-----------------------------------------------------------------------------
(* Calls *)

At(c, ops, step) == call[c].step = step /\ call[c].op \in ops
Goto(c, step) == call' = [call EXCEPT ![c].step = step]
Integ(c) == Integration(call[c].graph)
\* The branch the call works on, and the branch it merges there.
Own(c) == IF call[c].op = "promote" THEN Base ELSE Integ(c)

\* The call returns: what onTaskCompleted and promoteIntegrationIfPod make of it.
Return(c, strategy) ==
    /\ call' = [call EXCEPT ![c] = Idle]
    /\ IF call[c].op = "promote"
       THEN promotion' = [promotion EXCEPT ![call[c].graph] = strategy] /\ UNCHANGED fate
       ELSE /\ fate' = IF call[c].task = NoTask THEN fate
                       ELSE [fate EXCEPT ![call[c].task] = strategy]
            /\ UNCHANGED promotion

Remain == UNCHANGED <<fate, promotion>>
Local == UNCHANGED <<policy, origin, lied>>

Begin(c, op, t, g) ==
    /\ call[c] = Idle
    /\ call' = [call EXCEPT ![c] = [Idle EXCEPT !.op = op, !.task = t, !.graph = g,
                                                !.step = "ensure_clone"]]

\* ensureClone; a clone that fails throws, and the caller makes an error of it.
EnsureClone(c) ==
    /\ call[c].step = "ensure_clone"
    /\ LET first == CASE call[c].op \in {"merge", "promote"} -> "fetch_base"
                      [] call[c].op = "discard" -> "delete_conflict"
                      [] OTHER -> "fetch_integration"
       IN  \/ Smooth /\ Goto(c, first) /\ Remain
              /\ clone' = IF clone.cloned THEN clone
                          ELSE [Fetched(Base) EXCEPT !.cloned = TRUE, !.branch = Base,
                                !.heads[Base] = origin[Base], !.fetchHead = NoCommit,
                                !.tracking = origin]
           \/ ~clone.cloned /\ Trouble /\ Return(c, "error") /\ UNCHANGED clone
    /\ Local

FetchBase(c) ==
    /\ At(c, {"merge", "promote"}, "fetch_base")
    /\ \/ Smooth /\ clone' = Fetched(Base) /\ Goto(c, "fetch_integration") /\ Remain
       \/ Trouble /\ Return(c, "error") /\ UNCHANGED clone
    /\ Local

\* Any failure is read as "not created yet", but by promote, which gives up, and by diff.
FetchIntegration(c) ==
    /\ call[c].step = "fetch_integration"
    /\ LET next == CASE call[c].op \in {"merge", "promote"} -> "checkout"
                     [] call[c].op = "resolve" -> "fetch_conflict"
                     [] OTHER -> "none"
           found == origin[Integ(c)] # NoCommit
       IN  \/ /\ found /\ Smooth
              /\ clone' = Fetched(Integ(c))
              /\ call' = [call EXCEPT ![c] = IF next = "none" THEN Idle
                                             ELSE [@ EXCEPT !.found = TRUE, !.step = next]]
              /\ Remain
           \/ /\ IF found THEN Trouble ELSE Smooth
              /\ UNCHANGED clone
              /\ CASE call[c].op = "promote" -> Return(c, "error")
                   [] call[c].op = "diff" -> call' = [call EXCEPT ![c] = Idle] /\ Remain
                   [] OTHER -> Goto(c, next) /\ Remain
    /\ Local

\* checkout -B <branch> <start>: refused while the index has unmerged entries.
Checkout(c) ==
    /\ call[c].step = "checkout"
    /\ LET start == IF call[c].op = "promote" THEN Base
                    ELSE IF call[c].found THEN Integ(c)
                    ELSE IF call[c].op = "merge" THEN Base ELSE Conflict(call[c].task)
           next == IF call[c].op = "merge" THEN "fetch_task"
                   ELSE IF call[c].op = "promote" \/ call[c].found THEN "fast_forward" ELSE "push"
       IN  \/ /\ clone.unmerged = NoCommit
              /\ clone' = CheckedOut(Own(c), clone.tracking[start])
              /\ Goto(c, next) /\ Remain
           \/ clone.unmerged # NoCommit /\ Return(c, "error") /\ UNCHANGED clone
    /\ Smooth /\ Local

FetchTask(c) ==
    /\ At(c, {"merge"}, "fetch_task")
    /\ LET b == TaskBranch(call[c].task)
       IN  \/ origin[b] # NoCommit /\ Smooth /\ clone' = Fetched(b)
              /\ Goto(c, "note_head") /\ Remain
           \/ (IF origin[b] = NoCommit THEN Smooth ELSE Trouble)
              /\ Return(c, "error") /\ UNCHANGED clone
    /\ Local

\* rev-parse HEAD: preMergeRef, before the merge, and the commit to verify, after the push.
RevParse(c) ==
    /\ \/ call[c].step = "note_head"
          /\ call' = [call EXCEPT ![c].pre = Tip, ![c].step = "fast_forward"]
       \/ call[c].step = "note_pushed"
          /\ call' = [call EXCEPT ![c].sha = Tip, ![c].step = "verify"]
    /\ UNCHANGED clone /\ Remain /\ Smooth /\ Local

\* What the call merges: the task's branch by FETCH_HEAD, the others by their names.
Theirs(c) == CASE call[c].op = "merge" -> clone.fetchHead
               [] call[c].op = "promote" -> clone.tracking[Integ(c)]
               [] OTHER -> clone.tracking[Conflict(call[c].task)]

\* "index.lock": only mergeTaskIntoIntegration tries again, from preMergeRef.
LockedOut(c) ==
    /\ Trouble
    /\ IF call[c].op = "merge" /\ call[c].retry < MaxRetries
       THEN /\ call' = [call EXCEPT ![c].retry = @ + 1, ![c].step = "fast_forward"]
            /\ clone' = MovedTo(call[c].pre) /\ Remain
       ELSE Return(c, "transient") /\ UNCHANGED clone

\* merge --ff-only
FastForward(c) ==
    /\ call[c].step = "fast_forward"
    /\ LET fast == clone.unmerged = NoCommit
                   /\ (Tip \subseteq Theirs(c) \/ Theirs(c) \subseteq Tip)
       IN  \/ /\ fast /\ Smooth /\ Goto(c, "push") /\ Remain
              /\ clone' = IF Tip \subseteq Theirs(c) THEN MovedTo(Theirs(c)) ELSE clone
           \/ /\ ~fast /\ Smooth /\ UNCHANGED clone
              /\ IF call[c].op = "resolve" THEN Return(c, "error")
                 ELSE Goto(c, "auto_merge") /\ Remain
           \/ call[c].op # "resolve" /\ LockedOut(c)
    /\ Local

\* merge --no-edit
AutoMerge(c) ==
    /\ call[c].step = "auto_merge"
    /\ LET clean == clone.unmerged = NoCommit
       IN  \/ /\ clean /\ ~Conflicting(Tip, Theirs(c)) /\ Smooth
              /\ clone' = MovedTo(Tip \cup Theirs(c)) /\ Goto(c, "push") /\ Remain
           \/ /\ clean => Conflicting(Tip, Theirs(c))
              /\ Smooth /\ Goto(c, "conflict") /\ Remain
              /\ clone' = IF clean THEN [clone EXCEPT !.unmerged = Theirs(c)] ELSE clone
           \/ LockedOut(c)
    /\ Local

\* merge: the conflict is committed, to be pushed; promote: merge --abort.
OnConflict(c) ==
    /\ call[c].step = "conflict"
    /\ LET both == IF clone.unmerged = NoCommit THEN Tip ELSE Tip \cup clone.unmerged
       IN  \/ /\ call[c].op = "merge"
              /\ clone' = MovedTo(both) /\ Goto(c, "push_conflict") /\ Remain
           \/ /\ call[c].op = "promote"
              /\ clone' = [clone EXCEPT !.unmerged = NoCommit] /\ Return(c, "conflict")
    /\ Smooth /\ Local

PushConflict(c) ==
    /\ call[c].step = "push_conflict"
    /\ LET b == Conflict(call[c].task)
       IN  \/ /\ Accepts(b, Tip) /\ Smooth
              /\ origin' = [origin EXCEPT ![b] = Tip]
              /\ Goto(c, "reset")
           \/ /\ IF Accepts(b, Tip) THEN Trouble ELSE Smooth
              /\ Goto(c, "reset_failed") /\ UNCHANGED origin
    /\ Remain /\ UNCHANGED <<policy, clone, lied>>

\* reset --hard preMergeRef: the integration branch stays where it was.
ResetHard(c) ==
    /\ call[c].step \in {"reset", "reset_failed"}
    /\ clone' = MovedTo(call[c].pre)
    /\ Return(c, IF call[c].step = "reset" THEN "conflict" ELSE "error")
    /\ Smooth /\ Local

\* push origin <own branch>.  It may fail before or after it took effect, and it may
\* report a success that left origin as it was.
Push(c) ==
    /\ call[c].step = "push"
    /\ LET commit == clone.heads[Own(c)]
           next == IF call[c].op = "resolve" THEN "delete_conflict" ELSE "note_pushed"
           pushed == [origin EXCEPT ![Own(c)] = commit]
       IN  \/ /\ Accepts(Own(c), commit) /\ Smooth /\ origin' = pushed
              /\ Goto(c, next) /\ Remain /\ UNCHANGED lied
           \/ /\ ~Accepts(Own(c), commit) /\ Smooth
              /\ Return(c, "error") /\ UNCHANGED <<origin, lied>>
           \/ /\ Accepts(Own(c), commit) /\ Trouble
              /\ \/ origin' \in {origin, pushed} /\ Return(c, "error") /\ UNCHANGED lied
                 \/ /\ Goto(c, next) /\ Remain /\ UNCHANGED origin
                    /\ lied' = IF next = "delete_conflict" THEN lied \cup {call[c].task}
                               ELSE lied
    /\ UNCHANGED <<policy, clone>>

\* Mutant: what is pushed is not looked for.
Confirmed_Always(b, sha) == TRUE

\* verifyRemoteRef: ls-remote shows the commit that was pushed.
Confirmed(b, sha) == origin[b] # NoCommit /\ origin[b] = sha

Verify(c) ==
    /\ call[c].step = "verify"
    /\ \/ Confirmed(Own(c), call[c].sha) /\ Smooth /\ Goto(c, "delete") /\ Remain
       \/ ~Confirmed(Own(c), call[c].sha) /\ Smooth /\ Return(c, "error")
       \/ Trouble /\ Return(c, "error")
    /\ UNCHANGED clone /\ Local

\* push --delete: its failure is ignored.
DeleteRemote(c) ==
    /\ call[c].step \in {"delete", "delete_conflict", "delete_task"}
    /\ LET b == IF call[c].step = "delete_conflict" THEN Conflict(call[c].task)
                ELSE IF call[c].op = "promote" THEN Integ(c) ELSE TaskBranch(call[c].task)
       IN  \/ origin' = [origin EXCEPT ![b] = NoCommit] /\ Smooth
           \/ origin[b] # NoCommit /\ UNCHANGED origin /\ Trouble
    /\ IF call[c].step = "delete_conflict" THEN Goto(c, "delete_task") /\ Remain
       ELSE Return(c, IF call[c].op = "discard" THEN "discarded" ELSE "integrated")
    /\ UNCHANGED <<policy, clone, lied>>

\* resolveAfterCoordinator: the conflict branch must exist; the integration branch, where
\* there is one, must be an ancestor of it.
FetchConflict(c) ==
    /\ At(c, {"resolve"}, "fetch_conflict")
    /\ LET b == Conflict(call[c].task)
       IN  \/ origin[b] # NoCommit /\ Smooth /\ clone' = Fetched(b)
              /\ Goto(c, IF call[c].found THEN "ancestor" ELSE "checkout") /\ Remain
           \/ (IF origin[b] = NoCommit THEN Smooth ELSE Trouble)
              /\ Return(c, "error") /\ UNCHANGED clone
    /\ Local

Descends(x, y) == x \subseteq y

Ancestor(c) ==
    /\ At(c, {"resolve"}, "ancestor")
    /\ LET ok == Descends(clone.tracking[Integ(c)], clone.tracking[Conflict(call[c].task)])
       IN  \/ ok /\ Goto(c, "checkout") /\ Remain
           \/ ~ok /\ Return(c, "error")
    /\ UNCHANGED clone /\ Smooth /\ Local

-----------------------------------------------------------------------------
(* Who calls *)

\* Every task of the graph is integrated; fixes come after that.
Delivered(g) == \A t \in Tasks : GraphOf[t] = g /\ (t \in Fixes => fate[t] # "working") =>
                    fate[t] = "integrated"

\* A worker ends: it started from its graph's integration branch, or from the base.
WorkerPushes(t) ==
    /\ fate[t] = "working" /\ promotion[GraphOf[t]] = "none"
    /\ t \in Fixes => Delivered(GraphOf[t])
    /\ LET g == GraphOf[t]
           from == IF origin[Integration(g)] = NoCommit THEN Base ELSE Integration(g)
       IN  \E b \in {from, Base} : origin' = [origin EXCEPT ![TaskBranch(t)] = origin[b] \cup {t}]
    /\ fate' = [fate EXCEPT ![t] = "pushed"]
    /\ UNCHANGED <<policy, clone, call, promotion, lied, gitTroubles>>

OtherPushes(w) ==
    /\ w \notin origin[Base]
    /\ origin' = [origin EXCEPT ![Base] = @ \cup {w}]
    /\ UNCHANGED <<policy, clone, call, fate, promotion, lied, gitTroubles>>

\* onTaskCompleted merges the branch, once.
MergeTask(c, t) ==
    /\ fate[t] = "pushed" /\ Begin(c, "merge", t, GraphOf[t])
    /\ fate' = [fate EXCEPT ![t] = "merging"]
    /\ UNCHANGED <<policy, origin, clone, promotion, lied, gitTroubles>>

\* The coordinator has resolved the conflict on its branch.
Resolve(c, t) ==
    /\ fate[t] = "conflict" /\ t \notin Fixes
    /\ Begin(c, "resolve", t, GraphOf[t])
    /\ fate' = [fate EXCEPT ![t] = "merging"]
    /\ UNCHANGED <<policy, origin, clone, promotion, lied, gitTroubles>>

\* A fix that conflicts has failed its round: its branches are deleted.
Discard(c, t) ==
    /\ fate[t] = "conflict" /\ t \in Fixes
    /\ Begin(c, "discard", t, GraphOf[t])
    /\ fate' = [fate EXCEPT ![t] = "merging"]
    /\ UNCHANGED <<policy, origin, clone, promotion, lied, gitTroubles>>

\* The graph is done; for a pr-only destination nothing is touched.
Promote(c, g) ==
    /\ promotion[g] = "none" /\ Delivered(g)
    /\ \/ policy = "promote" /\ Begin(c, "promote", NoTask, g)
          /\ promotion' = [promotion EXCEPT ![g] = "promoting"]
       \/ policy = "pr-only" /\ call[c] = Idle /\ UNCHANGED call
          /\ promotion' = [promotion EXCEPT ![g] = "deferred"]
    /\ UNCHANGED <<policy, origin, clone, fate, lied, gitTroubles>>

\* getIntegrationDiff, of a rework round: only its fetch leaves a trace.
Diff(c, g) ==
    /\ Fixes # {} /\ Begin(c, "diff", NoTask, g)
    /\ UNCHANGED <<policy, origin, clone, fate, promotion, lied, gitTroubles>>

CloneNext ==
    \/ \E c \in Callers :
        \/ EnsureClone(c) \/ FetchBase(c) \/ FetchIntegration(c) \/ Checkout(c)
        \/ FetchTask(c) \/ RevParse(c) \/ FastForward(c) \/ AutoMerge(c)
        \/ OnConflict(c) \/ PushConflict(c) \/ ResetHard(c)
        \/ Push(c) \/ Verify(c) \/ DeleteRemote(c) \/ FetchConflict(c) \/ Ancestor(c)
        \/ \E t \in Tasks : MergeTask(c, t) \/ Resolve(c, t) \/ Discard(c, t)
        \/ \E g \in Graphs : Promote(c, g) \/ Diff(c, g)
    \/ \E t \in Tasks : WorkerPushes(t)
    \/ \E w \in Others : OtherPushes(w)

CloneSpec == CloneInit /\ [][CloneNext]_cloneVars

-----------------------------------------------------------------------------
(* Properties *)

On(b, t) == origin[b] # NoCommit /\ t \in origin[b]

CloneTypeOK ==
    /\ policy \in Policies
    /\ origin \in [Branches -> SUBSET Works \cup {NoCommit}]
    /\ clone.branch \in Branches /\ Tip \in SUBSET Works \cup {NoCommit}
    /\ DOMAIN call = Callers
    /\ fate \in [Tasks -> {"working", "pushed", "merging", "integrated", "conflict",
                           "discarded", "error", "transient"}]
    /\ promotion \in [Graphs -> {"none", "promoting", "integrated", "conflict", "error",
                                 "transient", "deferred"}]

\* What mergeTaskIntoIntegration reports merged is on the integration branch, or on the
\* base once that is promoted: the engine then deletes the worker's branch and lets the
\* dependents clone (remote-merge.ts:424-437).
ReportedIsThere ==
    \A t \in Tasks : fate[t] = "integrated" =>
        On(Integration(GraphOf[t]), t) \/ On(Base, t)

\* The same, but for the work of a resolution whose push, which nobody verifies, did nothing.  And
\* a worker's work is on some branch of origin until a fix is discarded, and what a promotion
\* reports is on the base: what one call at a time guarantees, whatever fails or is deleted.
NothingLostAlone ==
    \A t \in Tasks \ lied :
        /\ fate[t] = "integrated" => On(Integration(GraphOf[t]), t) \/ On(Base, t)
        /\ fate[t] \notin {"working", "discarded"} => \E b \in Branches : On(b, t)
        /\ promotion[GraphOf[t]] = "integrated" =>
              fate[t] \in {"working", "discarded"} \/ On(Base, t)
=============================================================================
