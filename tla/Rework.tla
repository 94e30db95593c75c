------------------------------- MODULE Rework -------------------------------
(***************************************************************************)
(* The end of a graph whose tasks are done (src/src/task-graph.ts): the    *)
(* validation gate, its child graphs and their verdicts, the bounded       *)
(* rework loop (a fix child, then the gate again), the pin of the          *)
(* integration branch's head (rework/sha-pin.ts) and the promotion.        *)
(*                                                                         *)
(* A drive is one call of checkGraphCompletion or resumeReworkRound, made  *)
(* by a task's or a child graph's completion or by a health sweep, on any  *)
(* engine.  It keeps what it has read between two awaits, and only the     *)
(* SET-NX keys (completionlock, reworkclaim, reworkfix, reworkreval)       *)
(* exclude another drive.  Two assumptions on time: drives are short and   *)
(* keys live long (300 s), so keys expire, in the order they were set,     *)
(* when no drive is under way; and a child graph has no verdict while the  *)
(* drive that dispatches the gate is at it (a pod has to start, to clone   *)
(* and to run the tests first).                                            *)
(*                                                                         *)
(* A record's read-modify-write is one step.  An agent criterion is a      *)
(* criterion like an exec one, whose failure is never fixable.             *)
(***************************************************************************)
EXTENDS Integers, Sequences, FiniteSets, Functions

CONSTANTS
    Drives,           \* concurrent drives
    Settings,         \* what a graph may ask for: see SettingType
    Absent,           \* a pin nobody recorded: undefined
    Unknown           \* a head that could not be read: ""

\* A setting: which gate, of how many exec criteria, autoRework.maxAttempts (0: none),
\* how many of the graph's tasks complete at the same time, at last, and (a bound) how
\* many crashes, cancelations, pushes by others and failed reads of the head there are.
SettingType ==
    [gate : {"exec", "mixed", "inline", "none"}, criteria : Nat, maxAttempts : Nat,
     together : Nat, disturbances : Nat]

ASSUME ReworkAssumption ==
    /\ Settings \subseteq SettingType
    /\ \A s \in Settings : s.gate \in {"exec", "mixed"} => s.criteria > 0
    /\ Absent \notin Nat /\ Unknown \notin Nat /\ Absent # Unknown

VARIABLES
    setting,       \* the one of Settings
    status,        \* the graph's status
    round,         \* currentRound: attempt (0: there is none), startHead, validationChildIds
                   \* and revalidationHead
    dispatchHead,  \* validationDispatchHead
    children,      \* childGraphIds and the child graphs they name, in order
    budget,        \* length of the list graph:<id>:rework:__validation__
    locks,         \* the SET-NX keys that exist, oldest first
    head,          \* head of the integration branch: how many commits it has
    promotions,    \* history: what has been promoted, and on which verdicts
    at, my,        \* drive -> where it is, and what it remembers
    regated,       \* history: the gate has been dispatched for a graph past its gate
    crashes, cancelations,
    troubles       \* pushes to the integration branch, and failed reads of its head

graph == <<status, round, dispatchHead>>
history == <<promotions, regated>>
faults == <<crashes, cancelations, troubles>>
vars == <<setting, graph, children, budget, locks, head, at, my, history, faults>>

Terminal == {"completed", "validated", "validation_failed", "failed", "canceled"}
Failed == {"fixable", "failed"}          \* a child's ends but success and cancelation
CountedFailed == Failed \cup {"canceled"}
\* Mutant: a canceled child is waited for.
Running_Canceled == {"empty", "live", "cloned", "canceled"}

Running == {"empty", "live", "cloned"}

NoRound == [attempt |-> 0, start |-> Unknown, ids |-> {}, pin |-> Absent]
Blank == [kind |-> "none", attempt |-> 0, todo |-> 0, ids |-> {}, pin |-> Absent,
          head |-> Absent, reason |-> "none"]

Criteria == 1 .. setting.criteria
Kids == DOMAIN children
Ends(ids) == {children[i].st : i \in ids}
Disturb == crashes + cancelations + troubles < setting.disturbances

\* Reading the head yields it, or "" when git fails (twice, where it is retried).
ReadHead(h) ==
    \/ h = head /\ UNCHANGED troubles
    \/ h = Unknown /\ Disturb /\ troubles' = troubles + 1

\* The last tasks of the graph complete: a drive starts from each.
Init ==
    /\ setting \in Settings
    /\ status = "active" /\ round = NoRound /\ dispatchHead = Absent
    /\ children = <<>> /\ budget = 0 /\ locks = <<>> /\ head = 1
    /\ promotions = <<>> /\ regated = FALSE
    /\ \E first \in SUBSET Drives :
           /\ Cardinality(first) = setting.together
           /\ at = [d \in Drives |-> IF d \in first THEN "check" ELSE "idle"]
    /\ my = [d \in Drives |-> Blank]
    /\ crashes = 0 /\ cancelations = 0 /\ troubles = 0

-----------------------------------------------------------------------------
(* Steps of a drive *)

Goto(d, next) == at' = [at EXCEPT ![d] = next]
Keep(d, memory) == my' = [my EXCEPT ![d] = memory]

Leave(d) == Goto(d, "idle") /\ Keep(d, Blank) /\ UNCHANGED locks

Completion(n) == <<"completionlock", n>>
RoundClaim(n) == <<"reworkclaim", n>>
FixClaim(n) == <<"reworkfix", n>>
RevalClaim(n) == <<"reworkreval", n>>

\* Mutant: nothing excludes another drive.
Taken_Never(key) == FALSE

Taken(key) == \E i \in DOMAIN locks : locks[i] = key

\* SET key NX EX 300, never released: the winner goes on, the loser returns having done
\* nothing.
Claim(d, key, next, memory) ==
    \/ Taken(key) /\ Leave(d)
    \/ ~Taken(key) /\ locks' = Append(locks, key) /\ Goto(d, next) /\ Keep(d, memory)

\* A child has ended, or the sweep comes by.  (A drive that finds an ended graph may as
\* well have begun before the end.)
Begin(d) ==
    /\ at[d] = "idle" /\ status \in {"validating", "reworking"}
    /\ Goto(d, "check")
    /\ UNCHANGED <<setting, graph, children, budget, locks, head, my, history, faults>>

\* checkGraphCompletion: the guards on the status, first read.
Check(d) ==
    /\ at[d] = "check"
    /\ CASE status \in Terminal -> Leave(d)
         [] status = "reworking" -> Goto(d, "resume") /\ UNCHANGED <<my, locks>>
         [] OTHER -> Goto(d, "reread") /\ UNCHANGED <<my, locks>>
    /\ UNCHANGED <<setting, graph, children, budget, head, history, faults>>

\* The graph is read again: only "validating" keeps the drive from the gate.
\* A validating graph waits for all its children; canceled is no end here.
Reread(d) ==
    /\ at[d] = "reread"
    /\ LET memory(ids, reason) ==
               [Blank EXCEPT !.attempt = round.attempt, !.pin = dispatchHead,
                             !.ids = ids, !.reason = reason]
           failing == {i \in Kids : children[i].st \in Failed}
           first == CHOOSE i \in failing : \A j \in failing : i <= j
       IN  \/ /\ status = "validating"
              /\ Kids = {} \/ ~(Ends(Kids) \subseteq Failed \cup {"passed"})
              /\ Leave(d)
           \/ /\ status = "validating" /\ Kids # {}
              /\ Ends(Kids) = {"passed"}
              /\ Claim(d, Completion(round.attempt), "pin", memory(Kids, "none"))
           \/ /\ status = "validating" /\ failing # {}
              /\ Ends(Kids) \subseteq Failed \cup {"passed"}
              /\ Claim(d, Completion(round.attempt), "fail", memory({}, children[first].st))
           \/ /\ status # "validating" /\ setting.gate # "none"
              /\ Goto(d, "gate") /\ Keep(d, memory({}, "none")) /\ UNCHANGED locks
           \/ /\ status # "validating" /\ setting.gate = "none"
              /\ Ends(Kids) \subseteq Failed \cup {"passed"}
              /\ Claim(d, Completion(round.attempt), "promote", memory({}, "none"))
    /\ UNCHANGED <<setting, graph, children, budget, head, history, faults>>

\* The gate opens: the status is written whatever it has become meanwhile.
Gate(d) ==
    /\ at[d] = "gate"
    /\ status' = "validating"
    /\ regated' = (regated \/ status \notin {"active", "validating"})
    /\ Goto(d, IF setting.gate = "inline" THEN "inline" ELSE "capture")
    /\ UNCHANGED <<setting, round, dispatchHead, children, budget, locks, head, my,
                   promotions, faults>>

\* Only inline criteria: their results alone decide.
Inline(d) ==
    /\ at[d] = "inline"
    /\ \/ Claim(d, Completion(my[d].attempt), "pin", my[d])
       \/ Goto(d, "mark") /\ UNCHANGED <<my, locks>>
    /\ UNCHANGED <<setting, graph, children, budget, head, history, faults>>

\* markValidationFailed: a failed inline criterion is never fixable.
Mark(d) ==
    /\ at[d] = "mark"
    /\ IF status = "reworking" THEN Goto(d, "resume") /\ UNCHANGED <<my, locks>>
       ELSE Claim(d, Completion(round.attempt), "refuse", Blank)
    /\ UNCHANGED <<setting, graph, children, budget, head, history, faults>>

\* Mutant: the last criterion is dropped.
Capture_DropsOne(d) ==
    /\ at[d] = "capture"
    /\ \E h \in {head, Unknown} :
           /\ ReadHead(h)
           /\ Keep(d, [my[d] EXCEPT !.head = h, !.kind = "gate", !.attempt = 0,
                                    !.todo = setting.criteria - 1])
    /\ Goto(d, "declare")
    /\ UNCHANGED <<setting, graph, children, budget, locks, head, history, crashes,
                   cancelations>>

\* captureIntegrationHeadForPin, before the first child of the gate is declared.
Capture(d) ==
    /\ at[d] = "capture"
    /\ \E h \in {head, Unknown} :
           /\ ReadHead(h)
           /\ Keep(d, [my[d] EXCEPT !.head = h, !.kind = "gate", !.attempt = 0,
                                    !.todo = setting.criteria])
    /\ Goto(d, "declare")
    /\ UNCHANGED <<setting, graph, children, budget, locks, head, history, crashes,
                   cancelations>>

\* declareGraph of a child: it is in the parent's list before it has a task ...
Declare(d) ==
    /\ at[d] = "declare"
    /\ children' = Append(children, [kind |-> my[d].kind, attempt |-> my[d].attempt,
                                     criterion |-> my[d].todo, st |-> "empty", head |-> 0])
    /\ Keep(d, [my[d] EXCEPT !.ids = @ \cup {Len(children) + 1}, !.todo = @ - 1])
    /\ Goto(d, "launch")
    /\ UNCHANGED <<setting, graph, budget, locks, head, history, faults>>

\* ... and then its task is written and dispatched, which may fail it at once.
Launch(d) ==
    /\ at[d] = "launch"
    /\ LET c == CHOOSE i \in my[d].ids : children[i].st = "empty"
       IN  \E st \in {"live", "failed"} : children' = [children EXCEPT ![c].st = st]
    /\ \/ my[d].todo > 0 /\ Goto(d, "declare") /\ UNCHANGED <<my, locks>>
       \/ my[d].todo = 0 /\ my[d].kind = "fix" /\ Leave(d)
       \/ my[d].todo = 0 /\ my[d].kind # "fix" /\ Goto(d, "record") /\ UNCHANGED <<my, locks>>
    /\ UNCHANGED <<setting, graph, budget, head, history, faults>>

\* Mutant: the head is read when the children have been dispatched.
Record_LateRead(d) ==
    /\ at[d] = "record"
    /\ \/ /\ my[d].kind = "gate"
          /\ dispatchHead' = head
          /\ UNCHANGED round
          /\ \/ Leave(d)
             \/ setting.gate = "mixed" /\ Goto(d, "mark") /\ UNCHANGED <<my, locks>>
       \/ /\ my[d].kind = "reval"
          /\ round' = [round EXCEPT !.ids = my[d].ids, !.pin = head]
          /\ Leave(d)
          /\ UNCHANGED dispatchHead
    /\ UNCHANGED <<setting, status, children, budget, head, history, faults>>

\* The pin (and a round's children) are recorded; failed inline criteria of a mixed
\* gate end the graph under its children.
Record(d) ==
    /\ at[d] = "record"
    /\ \/ /\ my[d].kind = "gate"
          /\ dispatchHead' = my[d].head
          /\ UNCHANGED round
          /\ \/ Leave(d)
             \/ setting.gate = "mixed" /\ Goto(d, "mark") /\ UNCHANGED <<my, locks>>
       \/ /\ my[d].kind = "reval"
          /\ round' = [round EXCEPT !.ids = my[d].ids, !.pin = my[d].head]
          /\ Leave(d)
          /\ UNCHANGED dispatchHead
    /\ UNCHANGED <<setting, status, children, budget, head, history, faults>>

\* The SHA pin: the live head is read again and compared.  An absent pin and an
\* unreadable live head let pass, a pin whose capture failed does not.
PinAllows(pin, live) == pin = Absent \/ (pin # Unknown /\ live \in {pin, Unknown})

\* checkValidationDispatchPin and checkHeadPinForPromote.
Pin(d) ==
    /\ at[d] = "pin"
    /\ \E live \in {head, Unknown} :
           /\ ReadHead(live)
           /\ IF PinAllows(my[d].pin, live)
              THEN Goto(d, "settle") /\ Keep(d, [my[d] EXCEPT !.head = live])
              ELSE Goto(d, "refuse") /\ UNCHANGED my
    /\ UNCHANGED <<setting, graph, children, budget, locks, head, history, crashes,
                   cancelations>>

\* Mutant: validated work is not promoted.
Settle_NoPromote(d) ==
    /\ at[d] = "settle"
    /\ status' = "validated" /\ Leave(d)
    /\ UNCHANGED <<setting, round, dispatchHead, children, budget, head, history, faults>>

\* updateGraphStatus "validated", whatever the status is.
Settle(d) ==
    /\ at[d] = "settle"
    /\ status' = "validated" /\ Goto(d, "promote")
    /\ UNCHANGED <<setting, round, dispatchHead, children, budget, locks, head, my,
                   history, faults>>

\* updateGraphStatus "validation_failed", whatever the status is.
Refuse(d) ==
    /\ at[d] = "refuse"
    /\ status' = "validation_failed" /\ Leave(d)
    /\ UNCHANGED <<setting, round, dispatchHead, children, budget, head, history, faults>>

\* promoteIntegrationIfPod: git takes the branch as it is then.  A failure fails the graph.
Promote(d) ==
    /\ at[d] = "promote"
    /\ \/ /\ promotions' = Append(promotions,
                 [head |-> head, attempt |-> my[d].attempt,
                  pin |-> my[d].pin, checked |-> my[d].head,
                  verdicts |-> {[criterion |-> children[i].criterion,
                                 head |-> children[i].head] : i \in my[d].ids}])
          /\ \/ setting.gate = "none" /\ Goto(d, "complete") /\ UNCHANGED <<my, locks>>
             \/ setting.gate # "none" /\ Leave(d)
          /\ UNCHANGED status
       \/ status' = "failed" /\ Leave(d) /\ UNCHANGED promotions
    /\ UNCHANGED <<setting, round, dispatchHead, children, budget, head, regated, faults>>

\* A graph without a gate is completed once it is promoted.
Complete(d) ==
    /\ at[d] = "complete"
    /\ status' = "completed" /\ Leave(d)
    /\ UNCHANGED <<setting, round, dispatchHead, children, budget, head, history, faults>>

-----------------------------------------------------------------------------
(* The rework loop *)

Eligible(reason) == setting.maxAttempts > 0 /\ reason = "fixable"

\* maybeStartRework, after the log of the failed pod has been read.
Fail(d) ==
    /\ at[d] = "fail"
    /\ \/ ~Eligible(my[d].reason) /\ Goto(d, "refuse") /\ UNCHANGED my
       \/ Eligible(my[d].reason) /\ status = "reworking" /\ Goto(d, "resume") /\ UNCHANGED my
       \/ /\ Eligible(my[d].reason) /\ status # "reworking"
          /\ Goto(d, "enter") /\ Keep(d, [my[d] EXCEPT !.attempt = round.attempt])
    /\ UNCHANGED <<setting, graph, children, budget, locks, head, history, faults>>

\* enterReworkRound: the budget is checked and the round is claimed ...
Enter(d) ==
    /\ at[d] = "enter"
    /\ LET key == RoundClaim(my[d].attempt + 1)
       IN  \/ /\ budget >= setting.maxAttempts \/ Taken(key)
              /\ Goto(d, "refuse") /\ UNCHANGED locks
           \/ /\ budget < setting.maxAttempts /\ ~Taken(key)
              /\ Goto(d, "spend") /\ locks' = Append(locks, key)
    /\ UNCHANGED <<setting, graph, children, budget, head, my, history, faults>>

\* Mutant: a round costs nothing.
Spend_Free(d) ==
    /\ at[d] = "spend"
    /\ \E h \in {head, Unknown} : ReadHead(h) /\ Keep(d, [my[d] EXCEPT !.head = h])
    /\ Goto(d, "write")
    /\ UNCHANGED <<setting, graph, children, budget, locks, head, history, crashes,
                   cancelations>>

\* ... recordRejection consumes one unit, and the head is read ...
Spend(d) ==
    /\ at[d] = "spend"
    /\ budget' = budget + 1
    /\ \E h \in {head, Unknown} : ReadHead(h) /\ Keep(d, [my[d] EXCEPT !.head = h])
    /\ Goto(d, "write")
    /\ UNCHANGED <<setting, graph, children, locks, head, history, crashes, cancelations>>

\* ... and the status and the new round are written, whatever the status is.
Write(d) ==
    /\ at[d] = "write"
    /\ status' = "reworking"
    /\ round' = [NoRound EXCEPT !.attempt = my[d].attempt + 1, !.start = my[d].head]
    /\ Goto(d, "resume") /\ Keep(d, Blank)
    /\ UNCHANGED <<setting, dispatchHead, children, budget, locks, head, history, faults>>

\* Mutant: a fix child that has ended is not recognised.
Fixes_OnlyLive ==
    {i \in Kids : /\ children[i].kind = "fix" /\ children[i].attempt = round.attempt
                  /\ children[i].st \in Running}

Fixes == {i \in Kids : children[i].kind = "fix" /\ children[i].attempt = round.attempt}

\* A failed round's reason: that of a failed child that has one.
Reasons(ids) ==
    LET reasons == Ends(ids) \cap Failed IN IF reasons = {} THEN {"failed"} ELSE reasons

\* resumeReworkRound: what the round, as it is recorded, needs next.
Resume(d) ==
    /\ at[d] = "resume"
    /\ LET n == round.attempt
           memory(kind, todo) == [Blank EXCEPT !.kind = kind, !.attempt = n, !.todo = todo,
                                               !.ids = {}]
           judged(reason) == [Blank EXCEPT !.attempt = n, !.pin = round.pin,
                                           !.ids = round.ids, !.reason = reason]
           fix == CHOOSE i \in Fixes : \A j \in Fixes : i <= j
           fixed == Fixes # {} /\ children[fix].st \notin Running
       IN  \/ status # "reworking" /\ Leave(d)
           \/ /\ status = "reworking" /\ Fixes = {}
              /\ Claim(d, FixClaim(n), "declare", memory("fix", 1))
           \/ /\ status = "reworking" /\ Fixes # {} /\ ~fixed
              /\ Leave(d)
           \/ /\ status = "reworking" /\ fixed /\ round.ids = {}
              /\ \/ /\ children[fix].st \in CountedFailed
                    /\ Claim(d, Completion(n), "refuse", Blank)
                 \/ /\ children[fix].st = "passed"
                    /\ Goto(d, "guard")
                    /\ Keep(d, [judged("none") EXCEPT !.head = round.start])
                    /\ UNCHANGED locks
           \/ /\ status = "reworking" /\ fixed /\ round.ids # {}
              /\ Ends(round.ids) \cap Running # {}
              /\ Leave(d)
           \/ /\ status = "reworking" /\ fixed /\ Ends(round.ids) = {"passed"}
              /\ \/ Claim(d, Completion(n), "pin", judged("none"))
                 \/ Claim(d, Completion(n), "refuse", Blank)     \* checkFixIntegrity
           \/ /\ status = "reworking" /\ fixed /\ Ends(round.ids) \cap Running = {}
              /\ Ends(round.ids) \cap CountedFailed # {}
              /\ \E reason \in Reasons(round.ids) :
                     Claim(d, Completion(n), IF Eligible(reason) THEN "enter" ELSE "refuse",
                           judged(reason))
    /\ UNCHANGED <<setting, graph, children, budget, head, history, faults>>

\* The fix is done: a head that has not moved ends the loop, another gets the gate.
Guard(d) ==
    /\ at[d] = "guard"
    /\ \E h \in {head, Unknown} :
           /\ ReadHead(h)
           /\ IF h # Unknown /\ h = my[d].head
              THEN Claim(d, Completion(my[d].attempt), "refuse", Blank)
              ELSE Claim(d, RevalClaim(my[d].attempt), "declare",
                         [Blank EXCEPT !.kind = "reval", !.attempt = my[d].attempt,
                                       !.todo = setting.criteria, !.head = h])
    /\ UNCHANGED <<setting, graph, children, budget, head, history, crashes, cancelations>>

-----------------------------------------------------------------------------
(* Child graphs, and what else happens *)

\* A drive is dispatching the gate.
Dispatching == \E d \in Drives : at[d] \in {"gate", "capture", "declare", "launch", "record"}

\* A validation pod clones the integration branch.
Clone(c) ==
    /\ children[c].st = "live" /\ children[c].kind # "fix"
    /\ children' = [children EXCEPT ![c].st = "cloned", ![c].head = head]
    /\ UNCHANGED <<setting, graph, budget, locks, head, at, my, history, faults>>

\* Its verdict: passed, a fixable failure, or another.
Verdict(c) ==
    /\ children[c].st = "cloned" /\ ~Dispatching
    /\ \E st \in {"passed"} \cup Failed : children' = [children EXCEPT ![c].st = st]
    /\ UNCHANGED <<setting, graph, budget, locks, head, at, my, history, faults>>

\* The fix agent's branch is merged into the parent's integration branch; it may hold
\* no commit, or the agent may fail.
Fix(c) ==
    /\ children[c].kind = "fix" /\ children[c].st = "live" /\ ~Dispatching
    /\ \/ /\ children' = [children EXCEPT ![c].st = "passed"]
          /\ head' \in {head, head + 1}
       \/ /\ children' = [children EXCEPT ![c].st = "failed"]
          /\ UNCHANGED head
    /\ UNCHANGED <<setting, graph, budget, locks, at, my, history, faults>>

\* Somebody else pushes to the integration branch.
Push ==
    /\ Disturb
    /\ head' = head + 1 /\ troubles' = troubles + 1
    /\ UNCHANGED <<setting, graph, children, budget, locks, at, my, history, crashes,
                   cancelations>>

Quiet == \A d \in Drives : at[d] = "idle"

\* The 300 seconds of the oldest key are over (of no account once the graph has ended).
Expire ==
    /\ Quiet /\ locks # <<>> /\ status \notin Terminal
    /\ locks' = Tail(locks)
    /\ UNCHANGED <<setting, graph, children, budget, head, at, my, history, faults>>

\* The engine of a drive dies.
Crash(d) ==
    /\ Disturb /\ at[d] # "idle"
    /\ crashes' = crashes + 1
    /\ Leave(d)
    /\ UNCHANGED <<setting, graph, children, budget, head, history, cancelations, troubles>>

\* cancel_task_graph; nothing guards a graph that has ended.
Cancel ==
    /\ Disturb
    /\ status' = "canceled" /\ cancelations' = cancelations + 1
    /\ UNCHANGED <<setting, round, dispatchHead, children, budget, locks, head, at, my,
                   history, crashes, troubles>>

\* cancel_task_graph, of a child graph.
CancelChild(c) ==
    /\ Disturb
    /\ children[c].st \in {"live", "cloned"}
    /\ children' = [children EXCEPT ![c].st = "canceled"]
    /\ cancelations' = cancelations + 1
    /\ UNCHANGED <<setting, graph, budget, locks, head, at, my, history, crashes, troubles>>

\* reapStaleGraphs: half an hour in which nothing lived, six times a key's life.
Reap ==
    /\ status \in {"active", "validating", "reworking"}
    /\ Quiet /\ locks = <<>>
    /\ \A c \in Kids : children[c].st \notin {"live", "cloned"}
    /\ status' = "failed"
    /\ UNCHANGED <<setting, round, dispatchHead, children, budget, locks, head, at, my,
                   history, faults>>

-----------------------------------------------------------------------------
Step(d) ==
    \/ Check(d) \/ Reread(d)
    \/ Gate(d) \/ Inline(d) \/ Mark(d)
    \/ Capture(d) \/ Declare(d) \/ Launch(d) \/ Record(d)
    \/ Pin(d) \/ Settle(d) \/ Refuse(d) \/ Promote(d) \/ Complete(d)
    \/ Fail(d) \/ Enter(d) \/ Spend(d) \/ Write(d)
    \/ Resume(d) \/ Guard(d)

Next ==
    \/ \E d \in Drives : Begin(d) \/ Step(d) \/ Crash(d)
    \/ \E c \in Kids : Clone(c) \/ Verdict(c) \/ Fix(c) \/ CancelChild(c)
    \/ Expire \/ Push \/ Cancel \/ Reap

Spec == Init /\ [][Next]_vars

\* Every engine sweeps (health-sweep.ts), calls return and pods end; if every drive keeps
\* returning, now and then none is under way.  The reaper is not counted on.
MaxKids == 8
FairSpec ==
    /\ Spec
    /\ \A d \in Drives : WF_vars(Begin(d)) /\ WF_vars(Step(d))
    /\ \A c \in 1 .. MaxKids : WF_vars(c \in Kids /\ (Clone(c) \/ Verdict(c) \/ Fix(c)))
    /\ SF_vars(Expire)
    /\ (\E d \in Drives : <>[](at[d] # "idle")) \/ []<>Quiet

-----------------------------------------------------------------------------
(* Properties *)

ChildType ==
    [kind : {"gate", "fix", "reval"}, attempt : Nat, criterion : Nat,
     st : Running \cup CountedFailed \cup {"passed"}, head : Nat]
HeadType == Nat \cup {Absent, Unknown}
Places ==
    {"idle", "check", "reread", "gate", "inline", "mark", "capture", "declare", "launch",
     "record", "pin", "settle", "refuse", "promote", "complete", "fail", "enter", "spend",
     "write", "resume", "guard"}

\* Every variable holds a value of its kind.
TypeOK ==
    /\ setting \in Settings
    /\ status \in {"active", "validating", "reworking"} \cup Terminal
    /\ round.attempt \in Nat /\ {round.start, round.pin, dispatchHead} \subseteq HeadType
    /\ round.ids \subseteq Kids
    /\ \A c \in Kids : children[c] \in ChildType
    /\ budget \in Nat /\ head \in Nat
    /\ at \in [Drives -> Places]
    /\ \A d \in Drives : my[d].attempt \in Nat /\ my[d].ids \subseteq Kids

\* The loop is bounded: whatever crashes, expires or runs at once, a graph's rounds are
\* paid for from its budget, and the budget is never overdrawn.
RoundsArePaid ==
    /\ budget <= setting.maxAttempts
    /\ round.attempt <= budget

\* A round has one fix child, however many drives find none and whatever crashes.
OneFixPerRound ==
    \A c1, c2 \in Kids :
        children[c1].kind = "fix" /\ children[c2].kind = "fix"
            /\ children[c1].attempt = children[c2].attempt => c1 = c2

\* Rounds are paid for, and what is paid for is had once.
RoundsArePaidAndHadOnce == RoundsArePaid /\ OneFixPerRound

\* What is promoted after its head has been compared with the pin has a verdict, for
\* every criterion judged, on that very head (and, where two drives have dispatched the
\* gate, maybe others): the pin says what the pods have cloned.
PinIsWhatWasJudged ==
    \A p \in Range(promotions) :
        p.pin \in Nat /\ p.checked \in Nat =>
            \A v \in p.verdicts : [v EXCEPT !.head = p.checked] \in p.verdicts

\* Unless an engine crashes while it dispatches a first gate, what is promoted through a
\* gate has been judged on each of its criteria.
EveryCriterionJudged ==
    \A p \in Range(promotions) :
        setting.gate \in {"exec", "mixed"} /\ (p.attempt > 0 \/ crashes = 0) =>
            {v.criterion : v \in p.verdicts} = Criteria

\* Unless it has been gated again, a graph's integration branch is promoted once.
PromotedOnce == ~regated => Len(promotions) <= 1

\* What is promoted is what was judged: all of it, on the head it had, and once.
PromotedAsJudged == PinIsWhatWasJudged /\ EveryCriterionJudged /\ PromotedOnce

\* A refused graph stays refused, unless somebody cancels it or it is gated again: no
\* drive that was under way overwrites the verdict, and nothing of it is promoted.
RefusalIsFinal ==
    [][~regated' /\ cancelations' = 0 /\ status \in {"validation_failed", "failed"} =>
           status' = status /\ promotions' = promotions]_vars

\* An end is an end: once a graph has ended, no drive takes it back into the gate or a
\* round (cancelations apart).
EndIsEnd == [][cancelations' = 0 /\ status \in Terminal => status' \in Terminal]_vars

\* What may strand a validation: nothing was registered, a child has no task, or a
\* child of the first gate was canceled.
Stranded ==
    \/ children = <<>>
    \/ \E c \in Kids : children[c].st = "empty"
    \/ \E c \in Kids : children[c].kind = "gate" /\ children[c].st = "canceled"

\* A graph in its gate or in a round comes to an end, crashed drives included.
ValidationSettles ==
    status \in {"validating", "reworking"} ~> status \in Terminal \/ Stranded \/ regated

\* Without a crash or a cancelation, validated work is promoted, or the graph fails.
ValidatedIsPromoted ==
    status = "validated" ~> promotions # <<>> \/ status = "failed" \/ crashes + cancelations > 0

\* No graph stays in its gate, nor between its gate and its promotion.
GatesComeToAnEnd == ValidationSettles /\ ValidatedIsPromoted
=============================================================================
