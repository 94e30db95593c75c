----------------------------- MODULE InlineCriteria -----------------------------
(***************************************************************************)
(* The inline acceptance criteria of a graph (criterion-engine.ts, and its *)
(* use in task-graph.ts, checkGraphCompletion): commands, scripts and      *)
(* assertions that the engine runs itself, one after the other, while the  *)
(* graph is already `validating` and its children may end.                 *)
(*                                                                         *)
(* Rework has the gate's other half, exec criteria and their rounds, and   *)
(* there an inline gate is one step with either outcome; here that step    *)
(* is the evaluation, and the exec gate one child with either outcome.     *)
(***************************************************************************)
EXTENDS Naturals, Sequences, FiniteSets

CONSTANTS
    CriteriaLists,      \* acceptanceCriteria, the inline ones in their order
    MaxChildren         \* bound: children besides those of the gate

CriterionType ==
    [type : {"command", "script", "assertion"}, onFail : {"fail", "retry", "fix"},
     maxRetries : Nat]

\* The module is about graphs that have inline criteria.
ASSUME CriteriaAssumption ==
    /\ MaxChildren \in Nat
    /\ CriteriaLists \subseteq Seq(CriterionType) /\ <<>> \notin CriteriaLists

VARIABLES
    criterionList, execGate, cwdThere,  \* the graph's settings; the engine sees the cwd
    graphState,     \* the graph's status
    children,       \* childGraphIds, and how each of them is
    claimed,        \* completionlock:<graph>:0
    evaluation,     \* evaluateAll: where, the criterion and the attempt it is at
    results,        \* per criterion, the last result
    drive,          \* checkGraphCompletion, called at the end of a child or by the sweep
    attempts, fixes, promoted, early    \* history

settingVars == <<criterionList, execGate, cwdThere>>
criteriaVars == <<settingVars, graphState, children, claimed, evaluation, results, drive, attempts,
                  fixes, promoted, early>>

Process == {"command", "script"}
NoDrive == [at |-> "none", passed |-> FALSE, early |-> FALSE]

CriteriaInit ==
    /\ criterionList \in CriteriaLists /\ execGate \in BOOLEAN /\ cwdThere \in BOOLEAN
    /\ graphState = "active" /\ claimed = FALSE /\ drive = NoDrive
    /\ \E n \in 0 .. MaxChildren : children = [i \in 1 .. n |-> [kind |-> "other", st |-> "live"]]
    /\ evaluation = [at |-> "none", criterion |-> 1, attempt |-> 1]
    /\ results = [i \in DOMAIN criterionList |-> "none"]
    /\ attempts = [i \in DOMAIN criterionList |-> 0] /\ fixes = attempts
    /\ promoted = FALSE /\ early = FALSE

Current == criterionList[evaluation.criterion]
EvaluationGoes(at) == evaluation' = [evaluation EXCEPT !.at = at]
CountsAsPassed(result) == result \in {"passed", "skipped"}
inlineAllPassed == \A i \in DOMAIN results : CountsAsPassed(results[i])

-----------------------------------------------------------------------------
(* evaluateAll *)

\* All tasks have ended: the gate opens.
BeginValidation ==
    /\ graphState = "active" /\ graphState' = "validating"
    /\ EvaluationGoes("attempt")
    /\ UNCHANGED <<settingVars, children, claimed, results, drive, attempts, fixes, promoted,
                   early>>

\* What an attempt may come to. "failed" is a verdict, a timeout, an unknown plugin or a throw.
runProcess == IF cwdThere THEN {"passed", "failed"} ELSE {"skipped"}
runAssertion == {"passed", "failed"}
Outcomes(criterion) == IF criterion.type \in Process THEN runProcess ELSE runAssertion

NextCriterion(e) ==
    IF e.criterion = Len(criterionList) THEN [e EXCEPT !.at = "decide"]
    ELSE [at |-> "attempt", criterion |-> e.criterion + 1, attempt |-> 1]

\* Mutant: maxRetries bounds the attempts.
Repeat_OneLess(e) ==
    IF e.attempt < criterionList[e.criterion].maxRetries
    THEN [at |-> "attempt", criterion |-> e.criterion, attempt |-> e.attempt + 1]
    ELSE NextCriterion(e)

\* The loops of onFail retry and fix: attempts 2 to maxRetries + 1.
Repeat(e) ==
    IF e.attempt <= criterionList[e.criterion].maxRetries
    THEN [at |-> "attempt", criterion |-> e.criterion, attempt |-> e.attempt + 1]
    ELSE NextCriterion(e)

AfterResult(e, result) ==
    LET onFail == criterionList[e.criterion].onFail IN
    IF result = "passed" \/ onFail = "fail" THEN NextCriterion(e)
    ELSE IF onFail = "fix" /\ e.attempt = 1 THEN [e EXCEPT !.at = "fix"] ELSE Repeat(e)

EvaluateOneAttempt ==
    /\ evaluation.at = "attempt"
    /\ \E result \in Outcomes(Current) :
           /\ results' = [results EXCEPT ![evaluation.criterion] = result]
           /\ evaluation' = AfterResult(evaluation, result)
    /\ attempts' = [attempts EXCEPT ![evaluation.criterion] = @ + 1]
    /\ UNCHANGED <<settingVars, graphState, children, claimed, drive, fixes, promoted, early>>

\* onDispatch: a child graph is declared, and nobody waits for it. It may not be: then
\* evaluateAll, and the handler with it, ends here.
DispatchFix ==
    /\ evaluation.at = "fix"
    /\ \/ /\ children' = Append(children, [kind |-> "fix", st |-> "live"])
          /\ fixes' = [fixes EXCEPT ![evaluation.criterion] = @ + 1]
          /\ evaluation' = Repeat(evaluation)
       \/ EvaluationGoes("lost") /\ UNCHANGED <<children, fixes>>
    /\ UNCHANGED <<settingVars, graphState, claimed, results, drive, attempts, promoted, early>>

\* The exec criteria are dispatched whatever the inline ones have come to.
DispatchGate ==
    /\ evaluation.at = "decide" /\ execGate
    /\ children' = Append(children, [kind |-> "gate", st |-> "live"])
    /\ EvaluationGoes(IF inlineAllPassed THEN "over" ELSE "mark")
    /\ UNCHANGED <<settingVars, graphState, claimed, results, drive, attempts, fixes, promoted,
                   early>>

PromoteGraph == graphState' = "validated" /\ promoted' = TRUE
RefuseGraph == graphState' = "validation_failed" /\ UNCHANGED promoted

\* No exec criteria: the inline results decide.
ResolveInline ==
    /\ evaluation.at = "decide" /\ ~execGate
    /\ IF inlineAllPassed /\ ~claimed THEN claimed' = TRUE /\ PromoteGraph
       ELSE UNCHANGED <<claimed, graphState, promoted>>
    /\ EvaluationGoes(IF inlineAllPassed THEN "over" ELSE "mark")
    /\ UNCHANGED <<settingVars, children, results, drive, attempts, fixes, early>>

\* markValidationFailed.
MarkFailed ==
    /\ evaluation.at = "mark" /\ EvaluationGoes("over")
    /\ IF claimed THEN UNCHANGED <<claimed, graphState, promoted>>
       ELSE claimed' = TRUE /\ RefuseGraph
    /\ UNCHANGED <<settingVars, children, results, drive, attempts, fixes, early>>

EvaluationLost ==
    /\ evaluation.at \in {"attempt", "fix", "decide", "mark"} /\ EvaluationGoes("lost")
    /\ drive' = NoDrive
    /\ UNCHANGED <<settingVars, graphState, children, claimed, results, attempts, fixes, promoted,
                   early>>

-----------------------------------------------------------------------------
(* The children, and the end of each *)

ChildEnds(i) ==
    /\ children[i].st = "live"
    /\ \E st \in {"completed", "failed"} : children' = [children EXCEPT ![i].st = st]
    /\ UNCHANGED <<settingVars, graphState, claimed, evaluation, results, drive, attempts, fixes,
                   promoted, early>>

\* Every child of the graph counts, whatever it was declared for, and nothing says that the
\* evaluation is not over.
CheckChildren ==
    /\ graphState = "validating" /\ drive = NoDrive
    /\ children # <<>> /\ \A i \in DOMAIN children : children[i].st # "live"
    /\ drive' = [at |-> "claim", passed |-> \A i \in DOMAIN children : children[i].st = "completed",
                 early |-> evaluation.at # "over"]
    /\ UNCHANGED <<settingVars, graphState, children, claimed, evaluation, results, attempts, fixes,
                   promoted, early>>

ResolveByChildren ==
    /\ drive.at = "claim" /\ drive' = NoDrive
    /\ IF claimed THEN UNCHANGED <<claimed, graphState, promoted, early>>
       ELSE /\ claimed' = TRUE /\ early' = drive.early
            /\ (IF drive.passed THEN PromoteGraph ELSE RefuseGraph)
    /\ UNCHANGED <<settingVars, children, evaluation, results, attempts, fixes>>

CriteriaNext ==
    \/ BeginValidation \/ EvaluateOneAttempt \/ DispatchFix \/ DispatchGate \/ ResolveInline
    \/ MarkFailed \/ EvaluationLost
    \/ \E i \in DOMAIN children : ChildEnds(i)
    \/ CheckChildren \/ ResolveByChildren

-----------------------------------------------------------------------------
\* What is promoted has every inline criterion passed or skipped, and the exec gate.
PromotedOnItsCriteria ==
    promoted => /\ inlineAllPassed
                /\ execGate => \E i \in DOMAIN children :
                                   children[i] = [kind |-> "gate", st |-> "completed"]

\* A refusal has a reason: a criterion that had all the attempts its onFail and maxRetries give
\* it, or a failed child of the graph.
RefusedForAReason ==
    graphState = "validation_failed" =>
        \/ \E i \in DOMAIN results :
              /\ ~CountsAsPassed(results[i])
              /\ attempts[i] = IF criterionList[i].onFail = "fail" THEN 1
                               ELSE criterionList[i].maxRetries + 1
        \/ \E i \in DOMAIN children : children[i].st = "failed"

\* A criterion has one fix at most, and only if onFail asks for one and it was tried before.
FixesAreAskedFor ==
    \A i \in DOMAIN fixes :
        fixes[i] > 0 => fixes[i] = 1 /\ criterionList[i].onFail = "fix" /\ attempts[i] > 0

\* The inline gate promotes and refuses by its criteria; unless the end of a child -- a fix that
\* the evaluation itself dispatched, or any other child of the graph -- was taken for the gate's
\* before the evaluation was over (task-graph.ts:1670).
CriteriaDecideAlone ==
    (early \/ (PromotedOnItsCriteria /\ RefusedForAReason)) /\ FixesAreAskedFor
=============================================================================
