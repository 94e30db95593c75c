--------------------------- MODULE Judging_proofs ---------------------------
(*****************************************************************************)
(* Proofs about the judges of a graph: the criteria which the engine runs    *)
(* itself, for any lists of criteria, any retries and any children; the      *)
(* guard over the commits of fix agents, for any tests, rounds and commits;  *)
(* the review of a graph, for any findings, windows and limits; and what an  *)
(* input becomes before there is anything to judge, for any tasks.           *)
(*****************************************************************************)
EXTENDS InlineCriteria, FixIntegrity, Retrospective, Declaration, FiniteSetTheorems,
        WellFoundedInduction, TLAPS

-----------------------------------------------------------------------------
\* Criteria. The induction follows the evaluation: the criteria before the one it is at are
\* done, those after it are untouched, and once it is over nothing of it changes any more, so
\* that what a later drive decides still fits.

CriteriaSpec == CriteriaInit /\ [][CriteriaNext]_criteriaVars

Indices == DOMAIN criterionList
Given(i) == IF criterionList[i].onFail = "fail" THEN 1 ELSE criterionList[i].maxRetries + 1
Done(i) == CountsAsPassed(results[i]) \/ attempts[i] = Given(i)

ChildType == [kind : {"other", "fix", "gate"}, st : {"live", "completed", "failed"}]
EvaluationType ==
    [at : {"none", "attempt", "fix", "decide", "mark", "over", "lost"}, criterion : Nat,
     attempt : Nat]

Again(e) == [at |-> "attempt", criterion |-> e.criterion, attempt |-> e.attempt + 1]

CriteriaTypeOK ==
    /\ criterionList \in CriteriaLists /\ execGate \in BOOLEAN
    /\ evaluation \in EvaluationType
    /\ results \in [Indices -> {"none", "passed", "failed", "skipped"}]
    /\ attempts \in [Indices -> Nat] /\ fixes \in [Indices -> Nat]
    /\ children \in Seq(ChildType)
    /\ drive \in [at : {"none", "claim"}, passed : BOOLEAN, early : BOOLEAN]
    /\ {claimed, promoted, early} \subseteq BOOLEAN

\* An evaluation e stands where attempts, results and fixes say.
Stands(e) ==
    /\ e.criterion \in Indices /\ e.attempt \in Nat \ {0}
    /\ e.attempt <= criterionList[e.criterion].maxRetries + 1
    /\ attempts[e.criterion] = IF e.at = "fix" THEN e.attempt ELSE e.attempt - 1
    /\ e.attempt = 1 => fixes[e.criterion] = 0
    /\ e.attempt > 1 => criterionList[e.criterion].onFail # "fail"
    /\ e.at = "fix" => e.attempt = 1 /\ criterionList[e.criterion].onFail = "fix"
    /\ \A i \in Indices : (i < e.criterion => Done(i))
                            /\ (i > e.criterion => attempts[i] = 0 /\ fixes[i] = 0)

EvaluationInv ==
    /\ evaluation.at = "none" <=> graphState = "active"
    /\ evaluation.at \in {"none", "attempt", "fix"} => Stands(evaluation)
    /\ evaluation.at \in {"decide", "mark", "over"} => \A i \in Indices : Done(i)

ChildInv ==
    evaluation.at \in {"mark", "over"} /\ execGate =>
        \E i \in DOMAIN children : children[i].kind = "gate"

DriveInv ==
    /\ drive.at = "claim" => graphState # "active"
    /\ drive.at = "claim" /\ ~drive.early =>
          /\ evaluation.at = "over"
          /\ IF drive.passed THEN \A i \in DOMAIN children : children[i].st = "completed"
             ELSE \E i \in DOMAIN children : children[i].st = "failed"

DecisionInv ==
    /\ evaluation.at = "mark" => ~inlineAllPassed
    /\ evaluation.at = "over" => inlineAllPassed \/ claimed
    /\ early \/ promoted \/ graphState = "validation_failed" => claimed
    /\ (promoted \/ graphState = "validation_failed") /\ ~early => evaluation.at = "over"

IInv ==
    /\ CriteriaTypeOK /\ EvaluationInv /\ ChildInv /\ DriveInv /\ DecisionInv /\ CriteriaDecideAlone

-----------------------------------------------------------------------------
LEMMA ListFacts ==
    ASSUME criterionList \in CriteriaLists
    PROVE  /\ Len(criterionList) \in Nat \ {0} /\ Indices = 1 .. Len(criterionList)
           /\ \A i \in Indices : criterionList[i] \in CriterionType
  BY CriteriaAssumption DEF Indices

LEMMA EvaluationTypes ==
    ASSUME NEW e \in EvaluationType
    PROVE  /\ NextCriterion(e) \in EvaluationType
           /\ [e EXCEPT !.at = "fix"] \in EvaluationType
           /\ Again(e) \in EvaluationType
<1>1. e.criterion \in Nat /\ e.attempt \in Nat
  BY DEF EvaluationType
<1>2. [e EXCEPT !.at = "decide"] \in EvaluationType
  BY DEF EvaluationType
<1>3. [at |-> "attempt", criterion |-> e.criterion + 1, attempt |-> 1] \in EvaluationType
  BY <1>1 DEF EvaluationType
<1>4. Again(e) \in EvaluationType
  BY <1>1 DEF EvaluationType, Again
<1>5. [e EXCEPT !.at = "fix"] \in EvaluationType
  BY DEF EvaluationType
<1> QED
  BY <1>2, <1>3, <1>4, <1>5 DEF NextCriterion

LEMMA CriteriaInitially == CriteriaInit => IInv
<1> SUFFICES ASSUME CriteriaInit PROVE IInv
  OBVIOUS
<1> USE CriteriaAssumption DEF CriteriaInit
<1>1. criterionList \in CriteriaLists
  OBVIOUS
<1>2. PICK n \in 0 .. MaxChildren : children = [i \in 1 .. n |-> [kind |-> "other", st |-> "live"]]
  OBVIOUS
<1>3. CriteriaTypeOK
  <2>1. children \in Seq(ChildType)
    BY <1>2 DEF ChildType
  <2>2. /\ results \in [Indices -> {"none", "passed", "failed", "skipped"}]
        /\ attempts \in [Indices -> Nat] /\ fixes \in [Indices -> Nat]
    BY DEF Indices
  <2> QED
    BY <2>1, <2>2 DEF CriteriaTypeOK, EvaluationType, NoDrive
<1>4. EvaluationInv
  <2>1. /\ Len(criterionList) \in Nat \ {0} /\ Indices = 1 .. Len(criterionList)
        /\ \A i \in Indices : criterionList[i] \in CriterionType
    BY ListFacts
  <2>2. \A i \in Indices : attempts[i] = 0 /\ fixes[i] = 0
    BY DEF Indices
  <2>3. /\ evaluation = [at |-> "none", criterion |-> 1, attempt |-> 1] /\ 1 \in Indices
        /\ criterionList[1].maxRetries \in Nat /\ graphState = "active"
    BY <2>1 DEF CriterionType
  <2> HIDE DEF CriteriaInit, Indices
  <2> QED
    BY <2>1, <2>2, <2>3 DEF EvaluationInv, Stands
<1>5. ChildInv /\ DriveInv /\ DecisionInv /\ CriteriaDecideAlone
  BY DEF ChildInv, DriveInv, DecisionInv, CriteriaDecideAlone, PromotedOnItsCriteria,
     RefusedForAReason, FixesAreAskedFor, NoDrive
<1> QED
  BY <1>3, <1>4, <1>5 DEF IInv

\* The evaluation leaves the criterion it is at, which is done.
LEMMA OnToTheNext ==
    ASSUME CriteriaTypeOK, Stands(evaluation), criterionList' = criterionList,
           evaluation' = NextCriterion(evaluation), CriteriaTypeOK',
           graphState' = graphState, graphState # "active",
           NEW c, c = evaluation.criterion, Done(c)',
           \A i \in Indices \ {c} :
               attempts'[i] = attempts[i] /\ results'[i] = results[i] /\ fixes'[i] = fixes[i]
    PROVE  EvaluationInv' /\ evaluation'.at \in {"attempt", "decide"}
<1> USE DEF Indices
<1>1. c \in Indices /\ Indices = 1 .. Len(criterionList) /\ c + 1 > c /\ c \in Nat
        /\ (\A i \in Indices : criterionList[i] \in CriterionType) /\ Len(criterionList) \in Nat
  BY ListFacts DEF Stands, CriteriaTypeOK
<1>2. \A i \in Indices : i <= c => Done(i)'
  BY <1>1 DEF Stands, Done, Given, CountsAsPassed
<1>3. CASE c = Len(criterionList)
  <2>1. evaluation'.at = "decide"
    BY <1>3 DEF NextCriterion, CriteriaTypeOK, EvaluationType
  <2> QED
    BY <1>1, <1>2, <1>3, <2>1 DEF EvaluationInv
<1>4. CASE c # Len(criterionList)
  <2>1. /\ evaluation' = [at |-> "attempt", criterion |-> c + 1, attempt |-> 1]
        /\ c + 1 \in Indices
    BY <1>1, <1>4 DEF NextCriterion
  <2>2. Stands(evaluation)'
    <3>1. attempts'[c + 1] = 0 /\ fixes'[c + 1] = 0 /\ criterionList[c + 1].maxRetries \in Nat
      BY <1>1, <2>1 DEF Stands, CriterionType
    <3>2. \A i \in Indices : (i < c + 1 => Done(i)')
                              /\ (i > c + 1 => attempts'[i] = 0 /\ fixes'[i] = 0)
      BY <1>1, <1>2 DEF Stands
    <3> QED
      BY <1>1, <2>1, <3>1, <3>2 DEF Stands
  <2> QED
    BY <2>1, <2>2 DEF EvaluationInv
<1> QED
  BY <1>3, <1>4

\* As long as the evaluation has not come to its end, nothing rests on it.
LEMMA Undecided ==
    ASSUME IInv, evaluation.at # "over", evaluation'.at \notin {"mark", "over"},
           UNCHANGED <<claimed, promoted, early>>, drive' \in {drive, NoDrive},
           graphState' = graphState \/ graphState' = "validating", FixesAreAskedFor'
    PROVE  ChildInv' /\ DriveInv' /\ DecisionInv' /\ CriteriaDecideAlone'
  BY DEF IInv, ChildInv, DriveInv, DecisionInv, CriteriaDecideAlone, PromotedOnItsCriteria,
     RefusedForAReason, NoDrive

LEMMA CriteriaSteps == IInv /\ [CriteriaNext]_criteriaVars => IInv'
<1> SUFFICES ASSUME IInv, [CriteriaNext]_criteriaVars PROVE IInv'
  OBVIOUS
<1> USE CriteriaAssumption DEF IInv
<1>l. /\ Len(criterionList) \in Nat \ {0} /\ Indices = 1 .. Len(criterionList)
      /\ \A i \in Indices : criterionList[i] \in CriterionType
  BY ListFacts DEF CriteriaTypeOK, EvaluationType
<1>1. CASE BeginValidation
  <2>1. /\ graphState = "active" /\ graphState' = "validating"
        /\ evaluation' = [evaluation EXCEPT !.at = "attempt"]
        /\ UNCHANGED <<criterionList, execGate, children, claimed, results, drive, attempts, fixes,
                       promoted, early>>
    BY <1>1 DEF BeginValidation, EvaluationGoes, settingVars
  <2>2. /\ evaluation'.at = "attempt" /\ evaluation'.criterion = evaluation.criterion
        /\ evaluation'.attempt = evaluation.attempt
    BY <2>1 DEF CriteriaTypeOK, EvaluationType
  <2>3. CriteriaTypeOK'
    BY <2>1 DEF CriteriaTypeOK, EvaluationType, Indices
  <2>4. EvaluationInv'
    <3>1. evaluation.at = "none" /\ Stands(evaluation)
      BY <2>1 DEF EvaluationInv
    <3>2. Stands(evaluation)'
      BY <2>1, <2>2, <3>1 DEF Stands, Indices, Done, Given, CountsAsPassed
    <3> QED
      BY <2>1, <2>2, <3>2 DEF EvaluationInv
  <2>5. FixesAreAskedFor'
    BY <2>1 DEF CriteriaDecideAlone, FixesAreAskedFor
  <2>6. evaluation.at # "over"
    BY <2>1 DEF EvaluationInv
  <2> QED
    BY <2>1, <2>2, <2>3, <2>4, <2>5, <2>6, Undecided
<1>2. CASE EvaluateOneAttempt
  <2> DEFINE e == evaluation
  <2>1. PICK c \in Indices : c = e.criterion
    BY <1>2 DEF EvaluateOneAttempt, EvaluationInv, Stands
  <2>2. PICK result \in {"passed", "failed", "skipped"} :
           /\ results' = [results EXCEPT ![c] = result] /\ evaluation' = AfterResult(e, result)
    BY <1>2, <2>1 DEF EvaluateOneAttempt, Outcomes, runProcess, runAssertion
  <2>3. /\ e.at = "attempt" /\ attempts' = [attempts EXCEPT ![c] = @ + 1]
        /\ UNCHANGED <<criterionList, execGate, graphState, children, claimed, drive, fixes,
                       promoted, early>>
    BY <1>2, <2>1 DEF EvaluateOneAttempt, settingVars
  <2>4. /\ Stands(e) /\ attempts'[c] = e.attempt /\ results'[c] = result
        /\ \A i \in Indices \ {c} : attempts'[i] = attempts[i] /\ results'[i] = results[i]
    BY <2>1, <2>2, <2>3 DEF EvaluationInv, Stands, CriteriaTypeOK
  <2>5. FixesAreAskedFor'
    BY <2>1, <2>3, <2>4 DEF CriteriaDecideAlone, FixesAreAskedFor, CriteriaTypeOK, Stands
  <2>6. \/ /\ evaluation' = NextCriterion(e)
           /\ result = "passed" \/ e.attempt = Given(c)
        \/ /\ evaluation' = [e EXCEPT !.at = "fix"]
           /\ criterionList[c].onFail = "fix" /\ e.attempt = 1
        \/ /\ evaluation' = Again(e)
           /\ e.attempt <= criterionList[c].maxRetries /\ criterionList[c].onFail # "fail"
    BY <1>l, <2>1, <2>2, <2>4 DEF AfterResult, Repeat, Again, Stands, Given, CriterionType
  <2>7. evaluation' \in EvaluationType
    BY <2>6, EvaluationTypes DEF CriteriaTypeOK
  <2>8. CriteriaTypeOK'
    BY <2>2, <2>3, <2>7 DEF CriteriaTypeOK, EvaluationType, Indices
  <2>9. EvaluationInv' /\ evaluation'.at \in {"attempt", "fix", "decide"}
    <3>1. CASE evaluation' = NextCriterion(e) /\ (result = "passed" \/ e.attempt = Given(c))
      <4>1. Done(c)'
        BY <2>3, <2>4, <3>1 DEF Done, Given, CountsAsPassed
      <4> QED
        BY <2>1, <2>3, <2>4, <2>8, <3>1, <4>1, OnToTheNext DEF EvaluationInv
    <3>2. CASE /\ evaluation' = [e EXCEPT !.at = "fix"]
               /\ criterionList[c].onFail = "fix" /\ e.attempt = 1
      <4>1. evaluation'.at = "fix" /\ evaluation'.criterion = c /\ evaluation'.attempt = 1
        BY <2>1, <3>2 DEF CriteriaTypeOK, EvaluationType
      <4>2. Stands(evaluation)'
        BY <1>l, <2>1, <2>3, <2>4, <3>2, <4>1 DEF Stands, Indices, Done, Given, CountsAsPassed
      <4> QED
        BY <2>3, <4>1, <4>2 DEF EvaluationInv
    <3>3. CASE /\ evaluation' = Again(e)
               /\ e.attempt <= criterionList[c].maxRetries /\ criterionList[c].onFail # "fail"
      <4>1. /\ evaluation'.at = "attempt" /\ evaluation'.criterion = c
            /\ evaluation'.attempt = e.attempt + 1
        BY <2>1, <3>3 DEF Again
      <4>2. Stands(evaluation)'
        <5>1. \A i \in Indices \ {c} : Done(i) => Done(i)'
          BY <2>3, <2>4 DEF Done, Given, CountsAsPassed
        <5> QED
          BY <1>l, <2>1, <2>3, <2>4, <3>3, <4>1, <5>1 DEF Stands, Indices, CriterionType
      <4> QED
        BY <2>3, <4>1, <4>2 DEF EvaluationInv
    <3> QED
      BY <2>6, <3>1, <3>2, <3>3
  <2> QED
    BY <2>3, <2>5, <2>8, <2>9, Undecided
<1>3. CASE DispatchFix
  <2> DEFINE e == evaluation
  <2>1. PICK c \in Indices : c = e.criterion
    BY <1>3 DEF DispatchFix, EvaluationInv, Stands
  <2>2. /\ e.at = "fix"
        /\ UNCHANGED <<criterionList, execGate, graphState, claimed, results, drive, attempts,
                       promoted, early>>
    BY <1>3 DEF DispatchFix, settingVars
  <2>3. Stands(e)
    BY <2>2 DEF EvaluationInv
  <2>4. CASE evaluation' = [e EXCEPT !.at = "lost"] /\ UNCHANGED <<children, fixes>>
    <3>1. CriteriaTypeOK' /\ evaluation'.at = "lost"
      BY <2>2, <2>4 DEF CriteriaTypeOK, EvaluationType, Indices
    <3>2. EvaluationInv' /\ FixesAreAskedFor'
      BY <2>2, <2>4, <3>1 DEF EvaluationInv, CriteriaDecideAlone, FixesAreAskedFor
    <3> QED
      BY <2>2, <3>1, <3>2, Undecided
  <2>5. CASE /\ children' = Append(children, [kind |-> "fix", st |-> "live"])
             /\ fixes' = [fixes EXCEPT ![c] = @ + 1] /\ evaluation' = Repeat(e)
    <3>1. \/ evaluation' = NextCriterion(e) /\ e.attempt = Given(c)
          \/ /\ evaluation' = Again(e)
             /\ e.attempt <= criterionList[c].maxRetries
      BY <1>l, <2>1, <2>2, <2>3, <2>5 DEF Repeat, Again, Stands, Given, CriterionType
    <3>2. evaluation' \in EvaluationType
      BY <3>1, EvaluationTypes DEF CriteriaTypeOK
    <3>3. CriteriaTypeOK'
      BY <2>2, <2>5, <3>2 DEF CriteriaTypeOK, ChildType, Indices
    <3>4. fixes'[c] = 1 /\ (\A i \in Indices \ {c} : fixes'[i] = fixes[i])
      BY <2>1, <2>2, <2>3, <2>5 DEF Stands, CriteriaTypeOK
    <3>5. FixesAreAskedFor'
      <4>1. DOMAIN fixes' = Indices /\ DOMAIN fixes = Indices
        BY <2>2, <3>3 DEF CriteriaTypeOK, Indices
      <4>2. criterionList[c].onFail = "fix" /\ attempts[c] = 1
        BY <2>1, <2>2, <2>3 DEF Stands
      <4> QED
        BY <2>2, <3>4, <4>1, <4>2 DEF CriteriaDecideAlone, FixesAreAskedFor
    <3>6. EvaluationInv' /\ evaluation'.at \in {"attempt", "decide"}
      <4>1. CASE evaluation' = NextCriterion(e) /\ e.attempt = Given(c)
        <5>1. Done(c)'
          BY <2>1, <2>2, <2>3, <4>1 DEF Stands, Done, Given, CountsAsPassed
        <5> QED
          BY <2>1, <2>2, <2>3, <3>3, <3>4, <4>1, <5>1, OnToTheNext DEF EvaluationInv
      <4>2. CASE /\ evaluation' = Again(e)
                 /\ e.attempt <= criterionList[c].maxRetries
        <5>1. /\ evaluation'.at = "attempt" /\ evaluation'.criterion = c
              /\ evaluation'.attempt = e.attempt + 1
          BY <2>1, <4>2 DEF Again
        <5>2. Stands(evaluation)'
          <6>1. \A i \in Indices \ {c} : Done(i) => Done(i)'
            BY <2>2 DEF Done, Given, CountsAsPassed
          <6>2. criterionList[c].onFail # "fail"
            BY <2>1, <2>2, <2>3 DEF Stands
          <6> QED
            <7>1. /\ evaluation'.attempt \in Nat \ {0} /\ attempts'[c] = e.attempt
                  /\ evaluation'.attempt <= criterionList[c].maxRetries + 1
                  /\ evaluation'.attempt # 1
              BY <1>l, <2>1, <2>2, <2>3, <4>2, <5>1 DEF Stands, CriterionType
            <7>2. \A i \in Indices : (i < c => Done(i)')
                                      /\ (i > c => attempts'[i] = 0 /\ fixes'[i] = 0)
              BY <2>1, <2>2, <2>3, <3>4, <6>1 DEF Stands
            <7>3. evaluation'.attempt - 1 = e.attempt
              BY <2>3, <5>1 DEF Stands
            <7> QED
              BY <2>1, <2>2, <5>1, <6>2, <7>1, <7>2, <7>3 DEF Stands, Indices
        <5> QED
          BY <2>2, <5>1, <5>2 DEF EvaluationInv
      <4> QED
        BY <3>1, <4>1, <4>2
    <3> QED
      BY <2>2, <3>3, <3>5, <3>6, Undecided
  <2> QED
    <3>1. \/ evaluation' = [e EXCEPT !.at = "lost"] /\ UNCHANGED <<children, fixes>>
          \/ /\ children' = Append(children, [kind |-> "fix", st |-> "live"])
             /\ fixes' = [fixes EXCEPT ![c] = @ + 1] /\ evaluation' = Repeat(e)
      BY <1>3, <2>1 DEF DispatchFix, EvaluationGoes
    <3> QED
      BY <2>4, <2>5, <3>1
<1>4. CASE DispatchGate
  <2>1. /\ evaluation.at = "decide" /\ execGate
        /\ children' = Append(children, [kind |-> "gate", st |-> "live"])
        /\ evaluation' = [evaluation EXCEPT !.at = IF inlineAllPassed THEN "over" ELSE "mark"]
        /\ UNCHANGED <<criterionList, execGate, graphState, claimed, results, drive, attempts,
                       fixes, promoted, early>>
    BY <1>4 DEF DispatchGate, EvaluationGoes, settingVars
  <2>2. evaluation'.at = IF inlineAllPassed THEN "over" ELSE "mark"
    BY <2>1 DEF CriteriaTypeOK, EvaluationType
  <2>3. CriteriaTypeOK'
    <3>1. evaluation' \in EvaluationType
      BY <2>1 DEF CriteriaTypeOK, EvaluationType
    <3>2. children' \in Seq(ChildType)
      BY <2>1 DEF CriteriaTypeOK, ChildType
    <3> QED
      BY <2>1, <3>1, <3>2 DEF CriteriaTypeOK, Indices
  <2>4. EvaluationInv'
    BY <2>1, <2>2 DEF EvaluationInv, Done, Given, Indices, CountsAsPassed
  <2>5. ChildInv'
    <3>1. Len(children') = Len(children) + 1 /\ Len(children) \in Nat
            /\ children'[Len(children) + 1].kind = "gate"
      BY <2>1 DEF CriteriaTypeOK
    <3>2. Len(children) + 1 \in DOMAIN children'
      BY <2>3, <3>1 DEF CriteriaTypeOK
    <3> QED
      BY <2>3, <3>1, <3>2 DEF ChildInv, CriteriaTypeOK
  <2>6. DriveInv' /\ DecisionInv' /\ CriteriaDecideAlone'
    BY <2>1, <2>2 DEF DriveInv, DecisionInv, inlineAllPassed, CountsAsPassed, CriteriaDecideAlone,
       PromotedOnItsCriteria, RefusedForAReason, FixesAreAskedFor
  <2> QED
    BY <2>3, <2>4, <2>5, <2>6
<1>5. CASE ResolveInline
  <2>1. /\ evaluation.at = "decide" /\ ~execGate
        /\ evaluation' = [evaluation EXCEPT !.at = IF inlineAllPassed THEN "over" ELSE "mark"]
        /\ \/ /\ inlineAllPassed /\ ~claimed /\ claimed' = TRUE
              /\ graphState' = "validated" /\ promoted' = TRUE
           \/ ~(inlineAllPassed /\ ~claimed) /\ UNCHANGED <<claimed, graphState, promoted>>
        /\ UNCHANGED <<criterionList, execGate, children, results, drive, attempts, fixes, early>>
    BY <1>5 DEF ResolveInline, EvaluationGoes, PromoteGraph, settingVars
  <2>2. evaluation'.at = IF inlineAllPassed THEN "over" ELSE "mark"
    BY <2>1 DEF CriteriaTypeOK, EvaluationType
  <2>3. CriteriaTypeOK'
    <3>1. evaluation' \in EvaluationType
      BY <2>1 DEF CriteriaTypeOK, EvaluationType
    <3> QED
      BY <2>1, <3>1 DEF CriteriaTypeOK, Indices
  <2>4. EvaluationInv'
    BY <2>1, <2>2 DEF EvaluationInv, Done, Given, Indices, CountsAsPassed
  <2>5. ChildInv' /\ DriveInv' /\ DecisionInv'
    BY <2>1, <2>2 DEF ChildInv, DriveInv, DecisionInv, inlineAllPassed, CountsAsPassed
  <2>6. CriteriaDecideAlone'
    BY <2>1, <2>2 DEF DecisionInv, inlineAllPassed, CountsAsPassed, CriteriaDecideAlone,
       PromotedOnItsCriteria, RefusedForAReason, FixesAreAskedFor
  <2> QED
    BY <2>3, <2>4, <2>5, <2>6
<1>6. CASE MarkFailed
  <2>1. /\ evaluation.at = "mark" /\ evaluation' = [evaluation EXCEPT !.at = "over"]
        /\ \/ claimed /\ UNCHANGED <<claimed, graphState, promoted>>
           \/ /\ ~claimed /\ claimed' = TRUE
              /\ graphState' = "validation_failed" /\ promoted' = promoted
        /\ UNCHANGED <<criterionList, execGate, children, results, drive, attempts, fixes, early>>
    BY <1>6 DEF MarkFailed, EvaluationGoes, RefuseGraph, settingVars
  <2>2. evaluation'.at = "over"
    BY <2>1 DEF CriteriaTypeOK, EvaluationType
  <2>3. CriteriaTypeOK'
    <3>1. evaluation' \in EvaluationType
      BY <2>1 DEF CriteriaTypeOK, EvaluationType
    <3> QED
      BY <2>1, <3>1 DEF CriteriaTypeOK, Indices
  <2>4. EvaluationInv'
    BY <2>1, <2>2 DEF EvaluationInv, Done, Given, Indices, CountsAsPassed
  <2>5. ChildInv' /\ DriveInv' /\ DecisionInv'
    BY <2>1, <2>2 DEF CriteriaTypeOK, ChildInv, DriveInv, DecisionInv
  <2>6. \E i \in Indices : ~CountsAsPassed(results[i]) /\ attempts[i] = Given(i)
    BY <2>1 DEF DecisionInv, EvaluationInv, inlineAllPassed, Done, CriteriaTypeOK
  <2>7. CriteriaDecideAlone'
    <3>1. (early \/ RefusedForAReason)'
      BY <2>1, <2>3, <2>6 DEF CriteriaDecideAlone, RefusedForAReason, Given, CriteriaTypeOK,
         CountsAsPassed, Indices
    <3>2. (early \/ PromotedOnItsCriteria)' /\ FixesAreAskedFor'
      BY <2>1, <2>2 DEF DecisionInv, CriteriaDecideAlone, PromotedOnItsCriteria, FixesAreAskedFor,
         inlineAllPassed, CountsAsPassed
    <3> QED
      BY <3>1, <3>2 DEF CriteriaDecideAlone
  <2> QED
    BY <2>3, <2>4, <2>5, <2>7
<1>7. CASE EvaluationLost
  <2>1. /\ evaluation.at \in {"attempt", "fix", "decide", "mark"}
        /\ evaluation' = [evaluation EXCEPT !.at = "lost"] /\ drive' = NoDrive
        /\ UNCHANGED <<criterionList, execGate, graphState, children, claimed, results, attempts,
                       fixes, promoted, early>>
    BY <1>7 DEF EvaluationLost, EvaluationGoes, settingVars
  <2>2. evaluation'.at = "lost" /\ CriteriaTypeOK'
    <3>1. evaluation' \in EvaluationType /\ evaluation'.at = "lost"
      BY <2>1 DEF CriteriaTypeOK, EvaluationType
    <3> QED
      BY <2>1, <3>1 DEF CriteriaTypeOK, Indices, NoDrive
  <2>3. EvaluationInv' /\ FixesAreAskedFor'
    BY <2>1, <2>2 DEF EvaluationInv, CriteriaDecideAlone, FixesAreAskedFor
  <2> QED
    BY <2>1, <2>2, <2>3, Undecided
<1>8. ASSUME NEW k \in DOMAIN children, ChildEnds(k) PROVE IInv'
  <2>1. PICK st \in {"completed", "failed"} : children' = [children EXCEPT ![k].st = st]
    BY <1>8 DEF ChildEnds
  <2>2. /\ children[k].st = "live"
        /\ UNCHANGED <<criterionList, execGate, graphState, claimed, evaluation, results, drive,
                       attempts, fixes, promoted, early>>
    BY <1>8 DEF ChildEnds, settingVars
  <2>3. /\ DOMAIN children' = DOMAIN children /\ children'[k].st = st
        /\ \A i \in DOMAIN children : /\ children'[i].kind = children[i].kind
                                      /\ i # k => children'[i] = children[i]
        /\ children' \in Seq(ChildType)
    <3> DEFINE ended == [children[k] EXCEPT !.st = st]
    <3>1. children[k] \in ChildType
      BY DEF CriteriaTypeOK
    <3>2. ended \in ChildType /\ ended.kind = children[k].kind /\ ended.st = st
      BY <3>1 DEF ChildType
    <3>3. children' = [children EXCEPT ![k] = ended]
      BY <2>1
    <3> HIDE DEF ended
    <3> QED
      BY <3>2, <3>3 DEF CriteriaTypeOK
  <2>4. CriteriaTypeOK' /\ DecisionInv' /\ ChildInv'
    <3>1. CriteriaTypeOK'
      BY <2>2, <2>3 DEF CriteriaTypeOK, Indices
    <3>2. DecisionInv'
      BY <2>2 DEF DecisionInv, inlineAllPassed, CountsAsPassed
    <3>3. ChildInv'
      BY <2>2, <2>3 DEF ChildInv
    <3> QED
      BY <3>1, <3>2, <3>3
  <2>7. EvaluationInv'
    BY <2>2 DEF Indices, EvaluationInv, Stands, Done, Given, CountsAsPassed
  <2>5. DriveInv'
    BY <2>2, <2>3 DEF DriveInv
  <2>6. CriteriaDecideAlone'
    <3>1. \A i \in DOMAIN children : children[i].st # "live" => children'[i] = children[i]
      BY <2>2, <2>3
    <3>2. \A i \in DOMAIN children : children[i] = [kind |-> "gate", st |-> "completed"]
                                       => children'[i] = children[i]
      BY <3>1
    <3> QED
      BY <2>2, <2>3, <3>1, <3>2 DEF CriteriaDecideAlone, PromotedOnItsCriteria, RefusedForAReason,
         FixesAreAskedFor, inlineAllPassed, CountsAsPassed
  <2> QED
    BY <2>4, <2>5, <2>6, <2>7
<1>9. CASE CheckChildren
  <2>1. /\ \A i \in DOMAIN children : children[i].st # "live"
        /\ drive' = [at |-> "claim",
                     passed |-> \A i \in DOMAIN children : children[i].st = "completed",
                     early |-> evaluation.at # "over"]
        /\ UNCHANGED <<criterionList, execGate, graphState, children, claimed, evaluation, results,
                       attempts, fixes, promoted, early>>
    BY <1>9 DEF CheckChildren, settingVars
  <2>2. CriteriaTypeOK'
    BY <2>1 DEF CriteriaTypeOK, Indices
  <2>3. DriveInv'
    <3>1. \A i \in DOMAIN children : children[i] \in ChildType
      BY DEF CriteriaTypeOK
    <3>2. \A i \in DOMAIN children : children[i].st \in {"completed", "failed"}
      BY <2>1, <3>1 DEF ChildType
    <3>3. graphState # "active"
      BY <1>9 DEF CheckChildren
    <3> QED
      BY <2>1, <3>2, <3>3 DEF DriveInv
  <2>4. EvaluationInv' /\ DecisionInv' /\ ChildInv' /\ CriteriaDecideAlone'
    BY <2>1 DEF Indices, EvaluationInv, Stands, Done, Given, CountsAsPassed, DecisionInv,
       inlineAllPassed, ChildInv, CriteriaDecideAlone, PromotedOnItsCriteria, RefusedForAReason,
       FixesAreAskedFor
  <2> QED
    BY <2>2, <2>3, <2>4
<1>10. CASE ResolveByChildren
  <2>1. /\ drive.at = "claim" /\ drive' = NoDrive
        /\ \/ claimed /\ UNCHANGED <<claimed, graphState, promoted, early>>
           \/ /\ ~claimed /\ claimed' = TRUE /\ early' = drive.early
              /\ \/ drive.passed /\ graphState' = "validated" /\ promoted' = TRUE
                 \/ ~drive.passed /\ graphState' = "validation_failed" /\ promoted' = promoted
        /\ UNCHANGED <<criterionList, execGate, children, evaluation, results, attempts, fixes>>
    BY <1>10 DEF ResolveByChildren, PromoteGraph, RefuseGraph, settingVars
  <2>2. CriteriaTypeOK'
    BY <2>1 DEF CriteriaTypeOK, Indices, NoDrive
  <2>3. EvaluationInv'
    BY <2>1 DEF DriveInv, EvaluationInv, Indices, Stands, Done, Given, CountsAsPassed
  <2>4. ChildInv' /\ DriveInv' /\ DecisionInv'
    BY <2>1 DEF ChildInv, DriveInv, DecisionInv, inlineAllPassed, CountsAsPassed, NoDrive
  <2>5. FixesAreAskedFor'
    BY <2>1 DEF CriteriaDecideAlone, FixesAreAskedFor
  <2>6. ASSUME claimed PROVE CriteriaDecideAlone'
    BY <2>1, <2>5, <2>6 DEF CriteriaDecideAlone, PromotedOnItsCriteria, RefusedForAReason,
       inlineAllPassed, CountsAsPassed
  <2>7. ASSUME ~claimed, ~early' PROVE CriteriaDecideAlone'
    <3>1. ~promoted /\ graphState # "validation_failed"
      BY <2>7 DEF DecisionInv
    <3>2. evaluation.at = "over" /\ inlineAllPassed
      BY <2>1, <2>7 DEF DriveInv, DecisionInv
    <3>3. CASE drive.passed
      <4>1. ASSUME execGate
            PROVE  \E i \in DOMAIN children : children[i] = [kind |-> "gate", st |-> "completed"]
        <5>1. PICK i \in DOMAIN children : children[i].kind = "gate"
          BY <3>2, <4>1 DEF ChildInv
        <5>2. children[i] \in ChildType /\ children[i].st = "completed"
          BY <2>1, <2>7, <3>3 DEF CriteriaTypeOK, DriveInv
        <5>3. children[i] = [kind |-> "gate", st |-> "completed"]
          BY <5>1, <5>2 DEF ChildType
        <5> QED
          BY <5>3
      <4> QED
        BY <2>1, <2>5, <2>7, <3>2, <3>3, <4>1 DEF CriteriaDecideAlone, PromotedOnItsCriteria,
           RefusedForAReason, inlineAllPassed, CountsAsPassed
    <3>4. CASE ~drive.passed
      <4>1. \E i \in DOMAIN children : children[i].st = "failed"
        BY <2>1, <2>7, <3>4 DEF DriveInv
      <4> QED
        BY <2>1, <2>5, <2>7, <3>1, <3>4, <4>1 DEF CriteriaDecideAlone, PromotedOnItsCriteria,
           RefusedForAReason
    <3> QED
      BY <3>3, <3>4
  <2>8. ASSUME early' PROVE CriteriaDecideAlone'
    BY <2>5, <2>8 DEF CriteriaDecideAlone
  <2> QED
    BY <2>2, <2>3, <2>4, <2>6, <2>7, <2>8
<1>11. CASE UNCHANGED criteriaVars
  BY <1>11
  DEF criteriaVars, settingVars, CriteriaTypeOK, Indices, EvaluationInv, Stands, Done, Given,
     CountsAsPassed, DecisionInv, inlineAllPassed, ChildInv, DriveInv, CriteriaDecideAlone,
     PromotedOnItsCriteria, RefusedForAReason, FixesAreAskedFor
<1> QED
  BY <1>1, <1>2, <1>3, <1>4, <1>5, <1>6, <1>7, <1>8, <1>9, <1>10, <1>11 DEF CriteriaNext

\* Whatever the criteria come to, retries and fixes included, and whenever children end: the inline
\* gate promotes and refuses by its criteria, unless the end of a child was taken for the gate's
\* before the evaluation was over (criterion-engine.ts; task-graph.ts:1670).
THEOREM CriteriaAlwaysDecideAlone == CriteriaSpec => []CriteriaDecideAlone
<1>1. IInv => CriteriaDecideAlone
  BY DEF IInv
<1> QED
  BY CriteriaInitially, CriteriaSteps, <1>1, PTL DEF CriteriaSpec


-----------------------------------------------------------------------------
\* The guard over fixes. Unless a git command failed, the baseline is the first commit, as
\* nobody commits before the first fix; the pin is the head that was judged, and the guard
\* has compared it with the baseline.

IntegritySpec == IntegrityInit /\ [][IntegrityNext]_integrityVars

Trees == [fate : [TestFiles -> Fates], fixed : BOOLEAN]

IntegrityTypeOK ==
    /\ gateKind \in {"suite", "files", "coverage"} /\ toolchain \in {"node", "dotnet", "other"}
    /\ trees \in Seq(Trees) /\ Len(trees) > 0
    /\ stage \in {"rejected", "fixing", "judging", "judged", "failed", "promoted"}
    /\ round \in Nat /\ judged \in 0 .. Len(trees)
    /\ {startHead, baselineHead, revalidationHead} \subseteq 0 .. Len(trees)
    /\ readFailures \in Nat /\ blind \in BOOLEAN

\* Until the first round's fix, nobody commits: the baseline that it reads is the first commit.
BaselineInv ==
    /\ \A f \in TestFiles : trees[1].fate[f] = "runs"
    /\ round = 0 => stage = "rejected" /\ Len(trees) = 1
    /\ round > 0 /\ ~blind => baselineHead = 1
    /\ stage = "judged" => judged # Unknown

FixInv == IntegrityTypeOK /\ BaselineInv /\ NoTestIsLost

-----------------------------------------------------------------------------
LEMMA IntegrityInitially == IntegrityInit => FixInv
<1> SUFFICES ASSUME IntegrityInit PROVE FixInv
  OBVIOUS
<1> DEFINE tree == [fate |-> [f \in TestFiles |-> "runs"], fixed |-> FALSE]
<1>1. tree \in Trees
  BY DEF Trees, Fates
<1>2. trees = <<tree>>
  BY DEF IntegrityInit
<1>3. \A f \in TestFiles : tree.fate[f] = "runs"
  OBVIOUS
<1> HIDE DEF tree
<1>4. trees \in Seq(Trees) /\ Len(trees) = 1 /\ trees[1] = tree
  BY <1>1, <1>2
<1>5. IntegrityTypeOK
  <2>1. /\ gateKind \in {"suite", "files", "coverage"}
        /\ toolchain \in {"node", "dotnet", "other"} /\ stage = "rejected"
        /\ round = 0 /\ startHead = 0 /\ baselineHead = 0 /\ revalidationHead = 0
        /\ judged = 0 /\ readFailures = 0
        /\ blind = FALSE
    BY DEF IntegrityInit, Unknown
  <2>2. trees \in Seq(Trees) /\ Len(trees) > 0
    BY <1>4
  <2>3. {startHead, baselineHead, revalidationHead} \subseteq 0 .. Len(trees)
    BY <1>4, <2>1
  <2>4. judged \in 0 .. Len(trees)
    BY <1>4, <2>1
  <2> QED
    BY <2>1, <2>2, <2>3, <2>4 DEF IntegrityTypeOK
<1>6. BaselineInv
  BY <1>3, <1>4 DEF IntegrityInit, BaselineInv
<1>7. NoTestIsLost
  BY DEF IntegrityInit, NoTestIsLost
<1> QED
  BY <1>5, <1>6, <1>7 DEF FixInv

\* What the guard passes, between the first commit and a later one, loses no test but by a gap.
LEMMA GuardSees ==
    ASSUME FixInv, NEW to \in Trees, ClassifyDiffShape(trees[1], to),
           NEW f \in TestFiles, to.fate[f] # "runs"
    PROVE  Gap(f, to.fate[f])
<1> DEFINE entry == [file |-> f,
                     status |-> IF to.fate[f] \in {"deleted", "renamed"} THEN to.fate[f]
                                ELSE IF trees[1].fate[f] \in {"deleted", "renamed"} THEN "added"
                                ELSE "modified"]
<1>1. trees[1].fate[f] = "runs" /\ to.fate[f] \in Fates
  BY DEF FixInv, BaselineInv, Trees
<1>2. entry \in NameStatus(trees[1], to)
  BY <1>1 DEF NameStatus
<1>3. /\ entry.file = f
      /\ entry.status = IF to.fate[f] \in {"deleted", "renamed"} THEN to.fate[f] ELSE "modified"
  BY <1>1
<1> HIDE DEF entry
<1>4. /\ entry.status \notin {"deleted", "renamed"}
      /\ ~AddsSkipMarker(entry, to) /\ ~RemovesAttributes(entry, to)
  BY <1>2 DEF ClassifyDiffShape
<1>5. LanguageOf[f] \in Languages
  BY IntegrityAssumption
<1> QED
  BY <1>1, <1>3, <1>4, <1>5 DEF AddsSkipMarker, RemovesAttributes, Gap, Fates

LEMMA IntegritySteps == FixInv /\ [IntegrityNext]_integrityVars => FixInv'
<1> SUFFICES ASSUME FixInv, [IntegrityNext]_integrityVars PROVE FixInv'
  OBVIOUS
<1>t. IntegrityTypeOK /\ BaselineInv /\ NoTestIsLost
  BY DEF FixInv
<1>1. CASE Commit
  <2>1. PICK tree \in Trees : trees' = Append(trees, tree)
    <3>1. trees[BranchHead] \in Trees
      BY <1>t DEF IntegrityTypeOK, BranchHead
    <3>2. [trees[BranchHead] EXCEPT !.fixed = TRUE] \in Trees
      BY <3>1 DEF Trees
    <3>3. ASSUME NEW f \in TestFiles, NEW fate \in Fates
          PROVE [trees[BranchHead] EXCEPT !.fate[f] = fate] \in Trees
      BY <3>1 DEF Trees
    <3> QED
      BY <1>1, <3>2, <3>3 DEF Commit
  <2>2. /\ trees' \in Seq(Trees) /\ Len(trees') = Len(trees) + 1 /\ trees'[1] = trees[1]
    BY <1>t, <2>1 DEF IntegrityTypeOK
  <2>3. /\ stage \in {"fixing", "judging", "judged"}
        /\ UNCHANGED <<gateKind, toolchain, roundVars, readFailures, blind>>
    BY <1>1 DEF Commit
  <2> QED
    BY <1>t, <2>2, <2>3
    DEF FixInv, IntegrityTypeOK, BaselineInv, NoTestIsLost, roundVars
<1>2. CASE EnterReworkRound
  <2>1. PICK fails \in BOOLEAN :
           /\ Read(fails)
           /\ startHead' = (IF fails THEN Unknown ELSE BranchHead)
           /\ baselineHead' = Baseline(startHead')
           /\ blind' = (blind \/ (fails /\ round = 0))
    BY <1>2 DEF EnterReworkRound
  <2>2. /\ stage' = "fixing" /\ round' = round + 1
        /\ UNCHANGED <<gateKind, toolchain, trees, revalidationHead, judged>>
    BY <1>2 DEF EnterReworkRound, branchVars
  <2>3. IntegrityTypeOK'
    BY <1>t, <2>1, <2>2 DEF IntegrityTypeOK, Read, Baseline, BranchHead, Unknown
  <2>4. BaselineInv'
    BY <1>t, <2>1, <2>2 DEF IntegrityTypeOK, BaselineInv, Baseline, BranchHead
  <2> QED
    BY <2>2, <2>3, <2>4 DEF FixInv, NoTestIsLost
<1>3. CASE DispatchRevalidation
  <2>1. /\ stage = "fixing" /\ stage' \in {"failed", "judging"}
        /\ readFailures' \in {readFailures, readFailures + 1}
        /\ revalidationHead' \in {Unknown, BranchHead}
        /\ UNCHANGED <<gateKind, toolchain, trees, round, startHead, baselineHead, judged, blind>>
    BY <1>3 DEF DispatchRevalidation, Read, branchVars
  <2> QED
    BY <1>t, <2>1
    DEF FixInv, IntegrityTypeOK, BaselineInv, NoTestIsLost, BranchHead, Unknown
<1>4. CASE FixFails \/ Revalidate \/ Reject
  <2>1. /\ stage # "rejected" /\ stage' \in {"failed", "judged", "rejected"}
        /\ judged' \in {judged, BranchHead} /\ (stage' = "judged" => judged' = BranchHead)
        /\ UNCHANGED <<gateKind, toolchain, trees, round, startHead, baselineHead,
                       revalidationHead, readFailures, blind>>
    BY <1>4 DEF FixFails, Revalidate, Reject, branchVars
  <2> QED
    BY <1>t, <2>1
    DEF FixInv, IntegrityTypeOK, BaselineInv, NoTestIsLost, BranchHead, Unknown
<1>5. CASE ResolveRound
  <2>1. /\ stage = "judged" /\ Passes(trees[judged])
        /\ UNCHANGED <<gateKind, toolchain, trees, round, startHead, baselineHead,
                       revalidationHead, judged>>
    BY <1>5 DEF ResolveRound, branchVars
  <2>2. PICK fails \in {"none", "diff", "head"} :
           /\ Read(fails # "none")
           /\ stage' =
                IF /\ EvaluateFixIntegrity(baselineHead, revalidationHead, fails = "diff")
                   /\ CheckHeadPin(revalidationHead, IF fails = "head" THEN Unknown ELSE BranchHead)
                THEN "promoted" ELSE "failed"
           /\ blind' = (blind \/ fails # "none")
    BY <1>5 DEF ResolveRound
  <2>3. judged \in 1 .. Len(trees) /\ round > 0 /\ BranchHead \in 1 .. Len(trees)
    BY <1>t, <2>1 DEF IntegrityTypeOK, BaselineInv, Unknown, BranchHead
  <2>4. trees[judged] \in Trees /\ trees[BranchHead] \in Trees
    BY <1>t, <2>3 DEF IntegrityTypeOK
  <2>5. IntegrityTypeOK' /\ BaselineInv'
    BY <1>t, <2>1, <2>2 DEF IntegrityTypeOK, BaselineInv, Read
  <2>6. ASSUME stage' = "promoted", NEW f \in TestFiles, trees[BranchHead].fate[f] # "runs"
        PROVE  /\ blind' \/ Gap(f, trees[BranchHead].fate[f])
               /\ gateKind = "coverage" /\ BranchHead = judged =>
                     trees[BranchHead].fate[f] = "muted"
    <3>1. ASSUME ~blind' PROVE Gap(f, trees[BranchHead].fate[f])
      <4>1. fails = "none" /\ baselineHead = 1
        BY <1>t, <2>2, <2>3, <3>1 DEF BaselineInv
      <4>2. revalidationHead = BranchHead /\ BranchHead # Unknown
        BY <2>2, <2>3, <2>6, <4>1 DEF CheckHeadPin, Unknown
      <4>3. ClassifyDiffShape(trees[1], trees[BranchHead])
        BY <2>2, <2>6, <4>1, <4>2 DEF EvaluateFixIntegrity, Unknown
      <4> QED
        BY <2>4, <2>6, <4>3, GuardSees
    <3>2. ASSUME gateKind = "coverage", BranchHead = judged
          PROVE  trees[BranchHead].fate[f] = "muted"
      BY <2>1, <2>6, <3>2 DEF Passes
    <3> QED
      BY <3>1, <3>2
  <2>7. NoTestIsLost'
    BY <2>1, <2>6 DEF NoTestIsLost, Gap, BranchHead
  <2> QED
    BY <2>5, <2>7 DEF FixInv
<1>6. CASE UNCHANGED integrityVars
  BY <1>6, <1>t
  DEF FixInv, IntegrityTypeOK, BaselineInv, NoTestIsLost, Gap, integrityVars, branchVars, roundVars,
      BranchHead
<1> QED
  BY <1>1, <1>2, <1>3, <1>4, <1>5, <1>6 DEF IntegrityNext

\* Whatever fix agents commit and in however many rounds, no test that ran before the rework has
\* stopped to run when their work is promoted, save by what the guard says it cannot see or by a
\* git command that failed; and where the gate counts tests, not even so (rework/fix-integrity.ts).
THEOREM TestsAreNeverLost == IntegritySpec => []NoTestIsLost
<1>1. FixInv => NoTestIsLost
  BY DEF FixInv
<1> QED
  BY IntegrityInitially, IntegritySteps, <1>1, PTL DEF IntegritySpec

-----------------------------------------------------------------------------
\* Reviews. Of the events the pattern matched, Threshold per anomaly are used up, and what a
\* window has counted is still there. One drive at most completes the graph, under the lock.
\* What is still to be filed has no issue, and what has one was counted.

RetroSpec == RetroInit /\ [][RetroNext]_retroVars

Windows == [count : Nat, start : Nat]
RoutingSteps == {"none", "read", "execute", "ask", "over"}

DetectorTyped ==
    /\ moment \in Nat /\ windowCounters \in [Groups -> Windows]
    /\ anomalies \in Seq([severity : {"critical", "low"}, group : Groups, at : Nat])
    /\ matched \in Seq([group : Groups, at : Nat])
    /\ misfortunes \in Nat

\* Events of group g that the window may count and that no anomaly has been recorded for.
Fresh(owned, g) ==
    {e \in DOMAIN matched \ owned :
        matched[e].group = g /\ matched[e].at >= windowCounters[g].start}

InTime(k) ==
    {e \in DOMAIN matched : /\ matched[e].group = anomalies[k].group
                            /\ matched[e].at + Duration >= anomalies[k].at
                            /\ matched[e].at <= anomalies[k].at}

\* Of the events, Threshold per anomaly are used up; what a window has counted is still there.
EarnedInv ==
    /\ \A g \in Groups : windowCounters[g].start <= moment
    /\ \A e \in DOMAIN matched : matched[e].at <= moment
    /\ \A k \in DOMAIN anomalies : Cardinality(InTime(k)) >= Threshold
    /\ \E owned \in SUBSET DOMAIN matched :
          /\ Cardinality(owned) >= Len(anomalies) * Threshold
          /\ \A g \in Groups : Cardinality(Fresh(owned, g)) >= windowCounters[g].count

RoutingRecords == [at : RoutingSteps, left : SUBSET DOMAIN findings, count : 0 .. MaxIssues]

Asked == \/ review.flag = "yes"
         \/ review.flag = "unset" /\ review.byDefault = "yes"
Refused == \/ review.flag = "no"
           \/ review.flag = "unset" /\ review.byDefault = "no"

\* One drive at most completes the graph, under the lock, and nobody reviews it before.
ReviewInv ==
    /\ completing \in [CompletionDrives -> {"none", "claim", "complete", "handle"}]
    /\ resolution \in BOOLEAN /\ root \in {"active", "completed"}
    /\ review.flag \in Choice /\ review.byDefault \in Choice
    /\ reviews \in {0, 1} /\ unreviewed \in BOOLEAN
    /\ \A d \in CompletionDrives :
          /\ completing[d] \in {"complete", "handle"} => resolution /\ reviews = 0
          /\ completing[d] = "complete" => root = "active"
          /\ completing[d] = "handle" => root = "completed"
          /\ completing[d] = "claim" /\ ~resolution => root = "active"
          /\ \A c \in CompletionDrives :
                completing[c] \in {"complete", "handle"} /\ completing[d] \in {"complete", "handle"}
                   => c = d
    /\ root = "active" => reviews = 0
    /\ reviews = 1 => resolveReviewDecision
    /\ unreviewed => ~Asked
    /\ retro = "none" <=> reviews = 0
    /\ retro \in {"none", "running", "failed"} <=> routing.at = "none"

FiledIssues == {i \in DOMAIN findings : issues[i] = 1}

\* What is still to be filed has no issue; what has one was counted.
FilingInv ==
    /\ findings \in Seq([category : STRING, filed : BOOLEAN])
    /\ issues \in [DOMAIN findings -> {0, 1}]
    /\ routing \in RoutingRecords
    /\ \A i \in routing.left : issues[i] = 0
    /\ Cardinality(FiledIssues) <= routing.count
    /\ misfortunes = 0 => Cardinality(FiledIssues) = routing.count
    /\ FiledIssues \subseteq AutoFix \cup AskUser
    /\ routing.at \in {"none", "read"} => FiledIssues = {} /\ routing.left = {} /\ routing.count = 0
    /\ routing.at \in {"none", "read", "execute"} => kept = {} /\ reported = {}
    /\ routing.at = "execute" =>
          /\ routing.left \subseteq AutoFix /\ FiledIssues \subseteq AutoFix
          /\ misfortunes = 0 => AutoFix \subseteq routing.left \cup FiledIssues
    /\ routing.at = "ask" =>
          /\ routing.left \subseteq AskUser /\ kept = Defer
          /\ misfortunes = 0 =>
                \/ AutoFix \cup AskUser \subseteq routing.left \cup FiledIssues
                \/ routing.count = MaxIssues
    /\ kept \subseteq Defer

RetInv == DetectorTyped /\ EarnedInv /\ ReviewInv /\ FilingInv /\ NothingFoundIsLost

LEMMA Bounded ==
    ASSUME NEW n \in Nat, NEW S, S \subseteq 1 .. n
    PROVE  IsFiniteSet(S) /\ Cardinality(S) \in Nat
<1>1. IsFiniteSet(1 .. n)
  BY FS_Interval
<1> QED
  BY <1>1, FS_Subset, FS_CardinalityType

LEMMA Larger ==
    ASSUME NEW n \in Nat, NEW S, NEW T, S \subseteq T, T \subseteq 1 .. n
    PROVE  Cardinality(S) <= Cardinality(T)
<1>1. IsFiniteSet(T)
  BY Bounded
<1> QED
  BY <1>1, FS_Subset

\* An event that the pattern matches. What its window had counted and the event itself are at hand.
LEMMA EvaluateSteps ==
    ASSUME DetectorTyped, EarnedInv, NEW g \in Groups, Evaluate(g)
    PROVE  DetectorTyped' /\ EarnedInv'
<1> DEFINE n == Len(matched)
           opened == Opened(windowCounters[g])
           window == [opened EXCEPT !.count = @ + 1]
           event == [group |-> g, at |-> moment]
           found == [severity |-> ResolveSeverity, group |-> g, at |-> moment]
<1>a. /\ n \in Nat /\ n + 1 \in Nat /\ DOMAIN matched = 1 .. n
      /\ \A e \in 1 .. n : matched[e].at \in Nat
  <2>1. n \in Nat /\ DOMAIN matched = 1 .. n
    BY DEF DetectorTyped
  <2>2. \A e \in 1 .. n : matched[e] \in [group : Groups, at : Nat]
    <3> DEFINE R == [group : Groups, at : Nat]
    <3>1. matched \in Seq(R)
      BY DEF DetectorTyped
    <3> HIDE DEF R
    <3>2. \A e \in 1 .. n : matched[e] \in R
      BY <3>1
    <3> QED
      BY <3>2 DEF R
  <2> QED
    BY <2>1, <2>2
<1>b. found \in [severity : {"critical", "low"}, group : Groups, at : Nat]
  BY DEF DetectorTyped, ResolveSeverity
<1>c. moment \in Nat /\ windowCounters[g] \in Windows /\ event \in [group : Groups, at : Nat]
  BY DEF DetectorTyped
<1>d. /\ windowCounters[g].start <= moment
      /\ \A e \in 1 .. n : matched[e].at <= moment
  BY <1>a DEF EarnedInv
<1>e. Threshold \in Nat /\ Threshold > 0 /\ Duration \in Nat
  BY RetrospectiveAssumption
<1>t. /\ n \in Nat /\ n + 1 \in Nat /\ DOMAIN matched = 1 .. n /\ moment \in Nat
      /\ windowCounters[g] \in Windows /\ windowCounters[g].start <= moment
      /\ Threshold \in Nat /\ Threshold > 0 /\ Duration \in Nat
      /\ \A e \in 1 .. n : matched[e].at \in Nat /\ matched[e].at <= moment
      /\ event \in [group : Groups, at : Nat]
  BY <1>a, <1>c, <1>d, <1>e
<1>1. /\ opened \in Windows /\ opened.start <= moment /\ opened.start + Duration >= moment
      /\ opened.count = 0 \/ opened = windowCounters[g]
  <2>1. CASE windowCounters[g].count = 0 \/ moment - windowCounters[g].start > Duration
    <3>1. opened = [count |-> 0, start |-> moment]
      BY <2>1 DEF Opened
    <3> HIDE DEF opened
    <3> QED
      BY <1>t, <3>1 DEF Windows
  <2>2. CASE ~(windowCounters[g].count = 0 \/ moment - windowCounters[g].start > Duration)
    <3>1. opened = windowCounters[g]
      BY <2>2 DEF Opened
    <3> HIDE DEF opened
    <3>2. opened.start \in Nat
      BY <1>t, <3>1 DEF Windows
    <3> QED
      BY <1>t, <2>2, <3>1, <3>2
  <2> QED
    BY <2>1, <2>2
<1>2. /\ window \in Windows /\ window.count = opened.count + 1 /\ window.start = opened.start
      /\ opened.count \in Nat /\ opened.start \in Nat
  <2> HIDE DEF opened
  <2> QED
    BY <1>1 DEF Windows
<1>3. /\ matched' = Append(matched, event) /\ moment' = moment
      /\ \/ /\ window.count < Threshold
            /\ windowCounters' = [windowCounters EXCEPT ![g] = window]
            /\ UNCHANGED <<anomalies, misfortunes>>
         \/ /\ window.count >= Threshold
            /\ windowCounters' = [windowCounters EXCEPT ![g] = [NoWindow EXCEPT !.start = moment]]
            /\ \/ anomalies' = Append(anomalies, found) /\ UNCHANGED misfortunes
               \/ Misfortune /\ UNCHANGED anomalies
  BY DEF Evaluate, Record
<1>4. /\ DOMAIN matched' = 1 .. n + 1 /\ matched'[n + 1] = event
      /\ \A e \in 1 .. n : matched'[e] = matched[e]
      /\ matched' \in Seq([group : Groups, at : Nat])
  BY <1>3, <1>t DEF DetectorTyped
<1>m. \A e \in 1 .. n + 1 : matched'[e].at \in Nat /\ matched'[e].at <= moment
  BY <1>4, <1>t
<1> HIDE DEF opened, window, found
<1>5. /\ \A h \in Groups : h # g => windowCounters'[h] = windowCounters[h]
      /\ \/ window.count < Threshold /\ windowCounters'[g] = window
         \/ /\ window.count >= Threshold /\ windowCounters'[g].count = 0
            /\ windowCounters'[g].start = moment
      /\ windowCounters' \in [Groups -> Windows]
  <2>1. [NoWindow EXCEPT !.start = moment] = [count |-> 0, start |-> moment]
    BY DEF NoWindow
  <2>2. [count |-> 0, start |-> moment] \in Windows
    BY <1>t DEF Windows
  <2> QED
    BY <1>2, <1>3, <2>1, <2>2 DEF DetectorTyped
<1>6. misfortunes' \in Nat
  BY <1>3 DEF Misfortune, DetectorTyped
<1>7. anomalies' \in Seq([severity : {"critical", "low"}, group : Groups, at : Nat])
  <2>1. anomalies \in Seq([severity : {"critical", "low"}, group : Groups, at : Nat])
    BY DEF DetectorTyped
  <2>2. anomalies' = anomalies \/ anomalies' = Append(anomalies, found)
    BY <1>3
  <2> DEFINE R == [severity : {"critical", "low"}, group : Groups, at : Nat]
  <2>3. anomalies \in Seq(R) /\ found \in R
    BY <1>b, <2>1
  <2> HIDE DEF R
  <2>4. anomalies' \in Seq(R)
    BY <2>2, <2>3
  <2> QED
    BY <2>4 DEF R
<1>8. DetectorTyped'
  BY <1>3, <1>4, <1>5, <1>6, <1>7, <1>t DEF DetectorTyped
<1>9. PICK owned \in SUBSET (1 .. n) :
         /\ Cardinality(owned) >= Len(anomalies) * Threshold
         /\ \A h \in Groups : Cardinality(Fresh(owned, h)) >= windowCounters[h].count
  BY <1>t DEF EarnedInv
<1> DEFINE W == {e \in (1 .. n + 1) \ owned :
                    matched'[e].group = g /\ matched'[e].at >= opened.start}
<1>10. Cardinality(W) >= window.count /\ W \subseteq 1 .. n + 1 /\ W \cap owned = {}
  <2> DEFINE F == IF opened.count = 0 THEN {} ELSE Fresh(owned, g)
  <2>1. F \subseteq 1 .. n /\ Cardinality(F) >= opened.count
    BY <1>1, <1>9, <1>t, FS_EmptySet DEF Fresh
  <2>2. F \cup {n + 1} \subseteq W
    <3>1. n + 1 \in W
      BY <1>1, <1>4, <1>t
    <3>2. ASSUME NEW e \in F PROVE e \in W
      <4>1. opened = windowCounters[g] /\ e \in Fresh(owned, g)
        BY <1>1, <3>2
      <4>2. e \in (1 .. n) \ owned /\ matched[e].group = g /\ matched[e].at >= opened.start
        BY <1>t, <4>1 DEF Fresh
      <4> QED
        BY <1>4, <1>t, <4>2
    <3> QED
      BY <3>1, <3>2
  <2> HIDE DEF F
  <2>3. IsFiniteSet(F) /\ Cardinality(F) \in Nat /\ n + 1 \notin F
    <3>1. n + 1 \notin 1 .. n
      BY <1>t
    <3>2. IsFiniteSet(F) /\ Cardinality(F) \in Nat
      BY <1>t, <2>1, Bounded
    <3> QED
      BY <2>1, <3>1, <3>2
  <2>4. Cardinality(F \cup {n + 1}) = Cardinality(F) + 1
    BY <2>3, FS_AddElement
  <2>5. Cardinality(F \cup {n + 1}) <= Cardinality(W)
    BY <1>t, <2>2, Larger
  <2>6. Cardinality(W) \in Nat
    BY <1>t, Bounded
  <2>7. W \subseteq 1 .. n + 1 /\ W \cap owned = {}
    OBVIOUS
  <2> HIDE DEF W
  <2> QED
    BY <1>2, <2>1, <2>3, <2>4, <2>5, <2>6, <2>7
<1>u. PICK used : used = W
  OBVIOUS
<1>11. ASSUME NEW h \in Groups, h # g, NEW mine, mine = owned \/ mine = owned \cup used
       PROVE  Cardinality(Fresh(mine, h)') >= windowCounters'[h].count
  <2>1. Fresh(owned, h) \subseteq Fresh(mine, h)' /\ Fresh(mine, h)' \subseteq 1 .. n + 1
    <3>1. ASSUME NEW e \in Fresh(owned, h) PROVE e \in Fresh(mine, h)'
      <4>1. e \in (1 .. n) \ owned /\ matched[e].group = h
            /\ matched[e].at >= windowCounters[h].start
        BY <1>t, <3>1 DEF Fresh
      <4>2. e \in 1 .. n + 1 /\ matched'[e] = matched[e] /\ e \notin mine
        BY <1>4, <1>11, <1>t, <1>u, <4>1
      <4> QED
        BY <1>4, <1>5, <1>11, <4>1, <4>2 DEF Fresh
    <3> QED
      BY <1>4, <3>1 DEF Fresh
  <2>2. Cardinality(Fresh(owned, h)) <= Cardinality(Fresh(mine, h)')
    BY <1>t, <2>1, Larger
  <2>3. /\ Cardinality(Fresh(owned, h)) \in Nat /\ Cardinality(Fresh(mine, h)') \in Nat
        /\ windowCounters[h].count \in Nat
    <3>1. Fresh(owned, h) \subseteq 1 .. n + 1 /\ windowCounters[h].count \in Nat
      BY <2>1 DEF DetectorTyped, Windows
    <3> QED
      BY <1>t, <2>1, <3>1, Bounded
  <2> QED
    BY <1>5, <1>9, <1>11, <2>2, <2>3
<1>12. ASSUME NEW k \in DOMAIN anomalies, anomalies'[k] = anomalies[k]
       PROVE  Cardinality(InTime(k)') >= Threshold
  <2>1. InTime(k) \subseteq InTime(k)' /\ InTime(k)' \subseteq 1 .. n + 1
    BY <1>4, <1>12, <1>t DEF InTime
  <2>2. Cardinality(InTime(k)) <= Cardinality(InTime(k)')
    BY <1>t, <2>1, Larger
  <2>3. Cardinality(InTime(k)) \in Nat /\ Cardinality(InTime(k)') \in Nat
    BY <1>t, <2>1, Bounded DEF InTime
  <2> QED
    BY <1>12, <1>t, <2>2, <2>3 DEF EarnedInv
<1>13. /\ \A h \in Groups : windowCounters'[h].start <= moment'
       /\ \A e \in DOMAIN matched' : matched'[e].at <= moment'
  <2>1. \A h \in Groups : windowCounters'[h].start <= moment
    BY <1>1, <1>2, <1>5, <1>t DEF EarnedInv
  <2>2. \A e \in 1 .. n + 1 : matched'[e].at <= moment
    BY <1>m
  <2> QED
    BY <1>3, <1>4, <2>1, <2>2
<1>14. /\ Cardinality(owned) \in Nat /\ Cardinality(used) \in Nat
       /\ IsFiniteSet(owned) /\ IsFiniteSet(used)
  <2>1. owned \subseteq 1 .. n + 1 /\ used \subseteq 1 .. n + 1
    BY <1>9, <1>10, <1>t, <1>u
  <2> QED
    BY <1>t, <2>1, Bounded
<1>w. Cardinality(used) >= window.count /\ used \subseteq 1 .. n + 1 /\ used \cap owned = {}
  BY <1>10, <1>u
<1> HIDE DEF W
<1>15. CASE window.count < Threshold /\ anomalies' = anomalies
  <2>1. windowCounters'[g] = window
    BY <1>2, <1>5, <1>15, <1>t DEF Windows
  <2>2. Fresh(owned, g)' = W
    BY <1>2, <1>4, <2>1 DEF Fresh, W
  <2>3. \A h \in Groups : Cardinality(Fresh(owned, h)') >= windowCounters'[h].count
    BY <1>10, <1>11, <2>1, <2>2
  <2>4. owned \in SUBSET DOMAIN matched' /\ Cardinality(owned) >= Len(anomalies') * Threshold
    BY <1>4, <1>9, <1>15, <1>t
  <2> QED
    BY <1>8, <1>12, <1>13, <1>15, <2>3, <2>4 DEF EarnedInv
<1>16. CASE window.count >= Threshold /\ anomalies' = anomalies
  <2>1. windowCounters'[g].count = 0
    BY <1>2, <1>5, <1>16, <1>t DEF Windows
  <2>2. Cardinality(Fresh(owned, g)') \in Nat
    BY <1>4, <1>t, Bounded DEF Fresh
  <2>3. \A h \in Groups : Cardinality(Fresh(owned, h)') >= windowCounters'[h].count
    BY <1>11, <2>1, <2>2
  <2>4. owned \in SUBSET DOMAIN matched' /\ Cardinality(owned) >= Len(anomalies') * Threshold
    BY <1>4, <1>9, <1>16, <1>t
  <2> QED
    BY <1>8, <1>12, <1>13, <1>16, <2>3, <2>4 DEF EarnedInv
<1>17. CASE window.count >= Threshold /\ anomalies' = Append(anomalies, found)
  <2>k. PICK k : k = Len(anomalies)
    OBVIOUS
  <2>m. PICK mine : mine = owned \cup used
    OBVIOUS
  <2>1. /\ k \in Nat /\ Len(anomalies') = k + 1 /\ DOMAIN anomalies' = 1 .. k + 1
        /\ \A j \in 1 .. k : anomalies'[j] = anomalies[j]
        /\ DOMAIN anomalies = 1 .. k /\ anomalies'[k + 1] = found
    BY <1>17, <2>k DEF DetectorTyped
  <2>2. Cardinality(mine) >= (k + 1) * Threshold
    <3>1. Cardinality(mine) = Cardinality(owned) + Cardinality(used)
      <4>1. Cardinality(owned \cap used) = 0 /\ Cardinality(owned \cup used)
               = Cardinality(owned) + Cardinality(used) - Cardinality(owned \cap used)
        BY <1>w, <1>14, FS_Union, FS_EmptySet
      <4> QED
        BY <1>14, <2>m, <4>1
    <3>2. Cardinality(used) >= Threshold
      BY <1>2, <1>w, <1>14, <1>17, <1>t DEF Windows
    <3>3. (k + 1) * Threshold = k * Threshold + Threshold /\ k * Threshold \in Nat
      BY <1>t, <2>1
    <3> QED
      BY <1>9, <1>14, <1>t, <2>k, <2>1, <3>1, <3>2, <3>3
  <2>3. windowCounters'[g].count = 0
    BY <1>2, <1>5, <1>17, <1>t DEF Windows
  <2>4. mine \in SUBSET (1 .. n + 1)
    <3>1. 1 .. n \subseteq 1 .. n + 1
      BY <1>t
    <3>2. owned \subseteq 1 .. n /\ used \subseteq 1 .. n + 1
      BY <1>9, <1>w
    <3> HIDE DEF n
    <3> QED
      BY <2>m, <3>1, <3>2
  <2>5. Cardinality(Fresh(mine, g)') \in Nat
    BY <1>4, <1>t, Bounded DEF Fresh
  <2>6. \A h \in Groups : Cardinality(Fresh(mine, h)') >= windowCounters'[h].count
    <3>1. ASSUME NEW h \in Groups PROVE Cardinality(Fresh(mine, h)') >= windowCounters'[h].count
      <4>1. CASE h = g
        BY <2>3, <2>5, <4>1
      <4>2. CASE h # g
        BY <1>11, <2>m, <4>2
      <4> QED
        BY <4>1, <4>2
    <3> QED
      BY <3>1
  <2>7. Cardinality(InTime(k + 1)') >= Threshold
    <3>1. found.group = g /\ found.at = moment
      BY DEF found
    <3>2. used \subseteq InTime(k + 1)' /\ InTime(k + 1)' \subseteq 1 .. n + 1
      <4>1. \A e : e \in InTime(k + 1)' <=>
                 /\ e \in DOMAIN matched' /\ matched'[e].group = anomalies'[k + 1].group
                 /\ matched'[e].at + Duration >= anomalies'[k + 1].at
                 /\ matched'[e].at <= anomalies'[k + 1].at
        BY DEF InTime
      <4>2. ASSUME NEW e \in used
            PROVE  /\ matched'[e].at + Duration >= moment /\ matched'[e].at <= moment
                   /\ matched'[e].group = g /\ e \in 1 .. n + 1
        <5>1. matched'[e].at \in Nat /\ matched'[e].at >= opened.start /\ e \in 1 .. n + 1
              /\ matched'[e].group = g
          <6>1. e \in W
            BY <1>u, <4>2
          <6>2. e \in 1 .. n + 1 /\ matched'[e].at >= opened.start /\ matched'[e].group = g
            BY <6>1 DEF W
          <6> QED
            BY <1>m, <6>2
        <5>2. matched'[e].at <= moment
          BY <1>m, <5>1
        <5> QED
          BY <1>1, <1>2, <1>t, <5>1, <5>2
      <4>3. anomalies'[k + 1].group = g /\ anomalies'[k + 1].at = moment
        <5>1. anomalies'[k + 1] = found
          BY <2>1
        <5> QED
          BY <3>1, <5>1
      <4> QED
        BY <1>4, <4>1, <4>2, <4>3
    <3>3. Cardinality(used) <= Cardinality(InTime(k + 1)') /\ Cardinality(InTime(k + 1)') \in Nat
      <4>1. PICK T : T = InTime(k + 1)'
        OBVIOUS
      <4> QED
        BY <1>t, <3>2, <4>1, Larger, Bounded
    <3> QED
      BY <1>2, <1>w, <1>14, <1>17, <1>t, <3>3 DEF Windows
  <2>8. \A j \in DOMAIN anomalies' : Cardinality(InTime(j)') >= Threshold
    <3>1. \A j \in 1 .. k : Cardinality(InTime(j)') >= Threshold
      BY <1>12, <2>1
    <3> QED
      BY <2>1, <2>7, <3>1
  <2>9. \E own \in SUBSET DOMAIN matched' :
           /\ Cardinality(own) >= Len(anomalies') * Threshold
           /\ \A h \in Groups : Cardinality(Fresh(own, h)') >= windowCounters'[h].count
    BY <1>4, <2>1, <2>2, <2>4, <2>6
  <2> QED
    BY <1>8, <1>13, <2>8, <2>9 DEF EarnedInv
<1> QED
  BY <1>3, <1>15, <1>16, <1>17

\* What is to be filed at once, what to be asked about and what to be deferred are apart.
LEMMA Categories ==
    /\ AutoFix \subseteq DOMAIN findings /\ AskUser \subseteq DOMAIN findings
    /\ Defer \subseteq DOMAIN findings
    /\ AutoFix \cap AskUser = {} /\ Defer \cap (AutoFix \cup AskUser) = {}
    /\ \A i \in AutoFix \cup AskUser : ~findings[i].filed
<1>1. AutoFix \subseteq Unfiled("auto-improve")
  BY DEF AutoFix, UpTo
<1>2. ~review.autoApprove => AutoFix = {}
  BY DEF AutoFix
<1>3. /\ Unfiled("auto-improve") \cap Unfiled("ask-user") = {}
      /\ Unfiled("auto-improve") \cap Unfiled("investigate") = {}
      /\ Unfiled("ask-user") \cap Unfiled("investigate") = {}
      /\ \A category : Unfiled(category) \subseteq DOMAIN findings
      /\ \A category : \A i \in Unfiled(category) : ~findings[i].filed
  BY DEF Unfiled
<1> DEFINE auto == Unfiled("auto-improve")
           ask == Unfiled("ask-user")
           later == Unfiled("investigate")
<1>4. /\ AskUser \subseteq ask \cup auto /\ Defer \subseteq later \cup (auto \ AutoFix)
      /\ review.autoApprove => AskUser \subseteq ask
      /\ ~review.autoApprove => Defer \subseteq later
  BY DEF AskUser, Defer
<1>5. /\ auto \subseteq DOMAIN findings /\ ask \subseteq DOMAIN findings
      /\ later \subseteq DOMAIN findings
  BY <1>3
<1>6. \A i \in auto \cup ask : ~findings[i].filed
  BY <1>3
<1> HIDE DEF auto, ask, later
<1>7. /\ AutoFix \subseteq auto
      /\ auto \cap ask = {} /\ auto \cap later = {} /\ ask \cap later = {}
  BY <1>1, <1>3 DEF auto, ask, later
<1> QED
  BY <1>2, <1>4, <1>5, <1>6, <1>7

\* Steps that have nothing to do with the findings.
LEMMA FilingKept ==
    ASSUME FilingInv, NothingFoundIsLost, UNCHANGED <<review, routingVars>>,
           misfortunes' = 0 => misfortunes = 0
    PROVE  FilingInv' /\ NothingFoundIsLost'
<1>1. UNCHANGED <<review, findings, routing, issues, kept, reported>>
  BY DEF routingVars
<1>2. /\ FiledIssues' = FiledIssues /\ AutoFix' = AutoFix /\ AskUser' = AskUser /\ Defer' = Defer
  BY <1>1 DEF FiledIssues, AutoFix, AskUser, Defer, Unfiled, UpTo
<1>3. RoutingRecords' = RoutingRecords
  BY <1>1 DEF RoutingRecords
<1> QED
  BY <1>1, <1>2, <1>3 DEF FilingInv, NothingFoundIsLost

LEMMA Continued ==
    ASSUME routing \in RoutingRecords, findings' = findings, NEW at \in RoutingSteps,
           NEW next \in SUBSET DOMAIN findings, Continue(at, next)
    PROVE  /\ routing' \in RoutingRecords'
           /\ routing'.at = at /\ routing'.left = next /\ routing'.count = routing.count
BY DEF Continue, RoutingRecords

LEMMA BeginRouting ==
    ASSUME FilingInv, NothingFoundIsLost, ReviewInv, RetroEnds \/ RouteFindings
    PROVE  FilingInv' /\ NothingFoundIsLost'
<1>1. CASE RetroEnds
  <2>1. retro = "running" /\ routing.at = "none" /\ review' = review /\ misfortunes' = misfortunes
        /\ kept' = kept /\ reported' = reported
    BY <1>1 DEF RetroEnds, ReviewInv
  <2>2. CASE UNCHANGED <<findings, routing, issues>>
    BY <2>1, <2>2, FilingKept DEF routingVars
  <2>3. CASE /\ routing' = [NotRouting EXCEPT !.at = "read"]
             /\ findings' \in FindingLists /\ issues' = [k \in DOMAIN findings' |-> 0]
    <3>1. /\ routing'.at = "read" /\ routing'.left = {} /\ routing'.count = 0
          /\ routing' = [at |-> "read", left |-> {}, count |-> 0]
          /\ findings' \in Seq([category : STRING, filed : BOOLEAN])
          /\ issues' \in [DOMAIN findings' -> {0, 1}]
      BY <2>3, RetrospectiveAssumption DEF NotRouting
    <3>2. FiledIssues' = {}
      BY <2>3 DEF FiledIssues
    <3>3. kept' = {} /\ reported' = {} /\ MaxIssues \in Nat
      BY <2>1, RetrospectiveAssumption DEF FilingInv
    <3>4. routing' \in RoutingRecords'
      <4>1. "read" \in RoutingSteps /\ 0 \in 0 .. MaxIssues
        BY <3>3 DEF RoutingSteps
      <4> QED
        BY <3>1, <4>1 DEF RoutingRecords
    <3>5. Cardinality(FiledIssues') = 0 /\ FiledIssues' \subseteq AutoFix' \cup AskUser'
      BY <3>2, FS_EmptySet
    <3>6. kept' \subseteq Defer'
      BY <3>3
    <3> QED
      BY <3>1, <3>2, <3>3, <3>4, <3>5, <3>6 DEF FilingInv, NothingFoundIsLost
  <2> QED
    BY <1>1, <2>2, <2>3 DEF RetroEnds
<1>2. CASE RouteFindings
  <2>1. /\ routing.at = "read"
        /\ UNCHANGED <<review, findings, issues, kept, reported, misfortunes>>
        /\ IF findings = <<>> THEN Continue("over", {}) ELSE Continue("execute", AutoFix)
    BY <1>2 DEF RouteFindings
  <2>2. /\ FiledIssues' = FiledIssues /\ AutoFix' = AutoFix /\ AskUser' = AskUser /\ Defer' = Defer
    BY <2>1 DEF FiledIssues, AutoFix, AskUser, Defer, Unfiled, UpTo
  <2>3. /\ FiledIssues = {} /\ routing.count = 0 /\ kept = {} /\ reported = {}
        /\ 0 \in 0 .. MaxIssues /\ issues \in [DOMAIN findings -> {0, 1}]
        /\ findings \in Seq([category : STRING, filed : BOOLEAN]) /\ routing \in RoutingRecords
    BY <2>1, RetrospectiveAssumption DEF FilingInv
  <2>4. \A k \in DOMAIN findings : issues[k] = 0
    BY <2>3 DEF FiledIssues
  <2>5. CASE findings = <<>>
    <3>1. Continue("over", {}) /\ DOMAIN findings = {}
      BY <2>1, <2>5
    <3>2. /\ routing'.at = "over" /\ routing'.left = {} /\ routing'.count = 0
          /\ routing' \in RoutingRecords'
      <4>1. "over" \in RoutingSteps
        BY DEF RoutingSteps
      <4> QED
        BY <2>1, <2>3, <3>1, <4>1, Continued
    <3>3. AutoFix = {} /\ AskUser = {} /\ Defer = {}
      BY <3>1, Categories
    <3>4. Cardinality(FiledIssues') = 0
      BY <2>2, <2>3, FS_EmptySet
    <3>5. FilingInv'
      BY <2>1, <2>2, <2>3, <3>2, <3>3, <3>4 DEF FilingInv
    <3>6. NothingFoundIsLost'
      BY <2>1, <2>2, <2>3, <3>1, <3>3 DEF NothingFoundIsLost
    <3> QED
      BY <3>5, <3>6
  <2>6. CASE findings # <<>>
    <3>1. Continue("execute", AutoFix)
      BY <2>1, <2>6
    <3>2. /\ routing'.at = "execute" /\ routing'.left = AutoFix /\ routing'.count = 0
          /\ routing' \in RoutingRecords'
      <4>1. "execute" \in RoutingSteps /\ AutoFix \in SUBSET DOMAIN findings
        BY Categories DEF RoutingSteps
      <4> QED
        BY <2>1, <2>3, <3>1, <4>1, Continued
    <3>3. \A k \in AutoFix : issues[k] = 0
      BY <2>4, Categories
    <3>4. Cardinality(FiledIssues') = 0
      BY <2>2, <2>3, FS_EmptySet
    <3>5. FilingInv'
      BY <2>1, <2>2, <2>3, <3>2, <3>3, <3>4 DEF FilingInv
    <3> QED
      BY <3>2, <3>5 DEF NothingFoundIsLost
  <2> QED
    BY <2>5, <2>6
<1> QED
  BY <1>1, <1>2


\* One more finding is filed, or refused.
LEMMA FilingSteps ==
    ASSUME FilingInv, misfortunes \in Nat, FileForgejoIssue
    PROVE  FilingInv' /\ NothingFoundIsLost'
<1>1. /\ UNCHANGED <<review, findings, kept, reported>>
      /\ routing.at \in {"execute", "ask"} /\ routing.count < MaxIssues
      /\ findings \in Seq([category : STRING, filed : BOOLEAN])
      /\ issues \in [DOMAIN findings -> {0, 1}] /\ routing \in RoutingRecords
      /\ \A k \in routing.left : issues[k] = 0
      /\ Cardinality(FiledIssues) <= routing.count
      /\ misfortunes = 0 => Cardinality(FiledIssues) = routing.count
      /\ FiledIssues \subseteq AutoFix \cup AskUser /\ kept \subseteq Defer
  BY DEF FileForgejoIssue, FilingInv
<1>2. /\ AutoFix' = AutoFix /\ AskUser' = AskUser /\ Defer' = Defer
  BY <1>1 DEF AutoFix, AskUser, Defer, Unfiled, UpTo
<1>3. PICK i \in UpTo(1, routing.left) :
         /\ routing' = [routing EXCEPT !.left = @ \ {i}, !.count = @ + 1]
         /\ \/ issues' = [issues EXCEPT ![i] = @ + 1] /\ UNCHANGED misfortunes
            \/ Misfortune /\ UNCHANGED issues
  BY DEF FileForgejoIssue
<1>4. /\ i \in routing.left /\ i \in DOMAIN findings /\ issues[i] = 0
      /\ routing.left \subseteq DOMAIN findings /\ routing.count \in 0 .. MaxIssues
      /\ routing.at \in RoutingSteps
  BY <1>1, <1>3 DEF UpTo, RoutingRecords
<1>5. /\ routing'.at = routing.at /\ routing'.left = routing.left \ {i}
      /\ routing'.count = routing.count + 1 /\ routing' \in RoutingRecords'
  <2>1. routing.count + 1 \in 0 .. MaxIssues
    BY <1>1, <1>4, RetrospectiveAssumption
  <2> QED
    BY <1>1, <1>3, <1>4, <2>1 DEF RoutingRecords
<1>6. IsFiniteSet(FiledIssues) /\ Cardinality(FiledIssues) \in Nat
  <2>1. DOMAIN findings = 1 .. Len(findings) /\ Len(findings) \in Nat
    BY <1>1
  <2> QED
    BY <2>1, Bounded DEF FiledIssues
<1>7. \/ /\ FiledIssues' = FiledIssues \cup {i} /\ misfortunes' = misfortunes
         /\ issues' \in [DOMAIN findings -> {0, 1}]
         /\ \A k \in DOMAIN findings : k # i => issues'[k] = issues[k]
      \/ FiledIssues' = FiledIssues /\ misfortunes' # 0 /\ issues' = issues
  BY <1>1, <1>3, <1>4 DEF FiledIssues, Misfortune
<1>8. i \notin FiledIssues
  BY <1>4 DEF FiledIssues
<1>9. Cardinality(FiledIssues \cup {i}) = Cardinality(FiledIssues) + 1
  BY <1>6, <1>8, FS_AddElement
<1>10. /\ Cardinality(FiledIssues') <= routing'.count
       /\ misfortunes' = 0 => Cardinality(FiledIssues') = routing'.count
  <2>1. /\ Cardinality(FiledIssues) \in Nat /\ routing.count \in Nat
        /\ routing'.count = routing.count + 1
    BY <1>4, <1>5, <1>6, RetrospectiveAssumption
  <2>2. \/ /\ Cardinality(FiledIssues') = Cardinality(FiledIssues) + 1
           /\ misfortunes' = misfortunes
        \/ Cardinality(FiledIssues') = Cardinality(FiledIssues) /\ misfortunes' # 0
    BY <1>7, <1>9
  <2> QED
    BY <1>1, <2>1, <2>2
<1>11. /\ issues' \in [DOMAIN findings' -> {0, 1}]
       /\ \A k \in routing'.left : issues'[k] = 0
  BY <1>1, <1>4, <1>5, <1>7
<1>12. i \in AutoFix \cup AskUser
  BY <1>1, <1>4 DEF FilingInv
<1>13. FiledIssues' \subseteq AutoFix' \cup AskUser'
  BY <1>1, <1>2, <1>7, <1>12
<1>14. /\ FiledIssues' \subseteq FiledIssues \cup {i}
       /\ misfortunes' = 0 => /\ misfortunes = 0
                              /\ routing'.left \cup FiledIssues' = routing.left \cup FiledIssues
  BY <1>1, <1>4, <1>5, <1>7
<1>15. routing.at = "execute" =>
          /\ routing'.left \subseteq AutoFix' /\ FiledIssues' \subseteq AutoFix'
          /\ misfortunes' = 0 => AutoFix' \subseteq routing'.left \cup FiledIssues'
          /\ kept = {} /\ reported = {}
  BY <1>2, <1>4, <1>5, <1>14 DEF FilingInv
<1>16. routing.at = "ask" =>
          /\ routing'.left \subseteq AskUser' /\ kept' = Defer'
          /\ misfortunes' = 0 => AutoFix' \cup AskUser' \subseteq routing'.left \cup FiledIssues'
  <2>1. routing.count # MaxIssues
    BY <1>1, <1>4
  <2> QED
    BY <1>1, <1>2, <1>4, <1>5, <1>14, <2>1 DEF FilingInv
<1>17. FilingInv'
  BY <1>1, <1>2, <1>5, <1>10, <1>11, <1>13, <1>15, <1>16 DEF FilingInv
<1> QED
  BY <1>1, <1>5, <1>17 DEF NothingFoundIsLost

\* What is deferred is kept, what is left is asked about, and the report ends it; so does a crash.
LEMMA EndRouting ==
    ASSUME FilingInv, NothingFoundIsLost, misfortunes \in Nat,
           SaveDeferred \/ BroadcastReport \/ SessionCrashes
    PROVE  FilingInv' /\ NothingFoundIsLost'
<1>1. UNCHANGED <<review, findings, issues>>
  BY DEF SaveDeferred, BroadcastReport, SessionCrashes
<1>2. /\ FiledIssues' = FiledIssues /\ AutoFix' = AutoFix /\ AskUser' = AskUser /\ Defer' = Defer
  BY <1>1 DEF FiledIssues, AutoFix, AskUser, Defer, Unfiled, UpTo
<1>3. /\ findings \in Seq([category : STRING, filed : BOOLEAN])
      /\ issues \in [DOMAIN findings -> {0, 1}] /\ routing \in RoutingRecords
      /\ \A k \in routing.left : issues[k] = 0
      /\ Cardinality(FiledIssues) <= routing.count
      /\ misfortunes = 0 => Cardinality(FiledIssues) = routing.count
      /\ FiledIssues \subseteq AutoFix \cup AskUser /\ kept \subseteq Defer
  BY DEF FilingInv
<1>4. {"ask", "over"} \subseteq RoutingSteps /\ {} \in SUBSET DOMAIN findings
      /\ AskUser \in SUBSET DOMAIN findings
  BY Categories DEF RoutingSteps
<1>5. CASE SaveDeferred
  <2>1. /\ Filed("execute") /\ reported' = reported
        /\ \/ kept' = Defer /\ Continue("ask", AskUser) /\ UNCHANGED misfortunes
           \/ Defer # {} /\ Misfortune /\ Continue("over", {}) /\ UNCHANGED kept
    BY <1>5 DEF SaveDeferred
  <2>2. /\ routing.at = "execute" /\ (routing.left = {} \/ routing.count = MaxIssues)
        /\ FiledIssues \subseteq AutoFix
        /\ misfortunes = 0 => AutoFix \subseteq routing.left \cup FiledIssues
    BY <2>1 DEF Filed, FilingInv
  <2>3. CASE kept' = Defer /\ Continue("ask", AskUser) /\ UNCHANGED misfortunes
    <3>1. /\ routing'.at = "ask" /\ routing'.left = AskUser /\ routing'.count = routing.count
          /\ routing' \in RoutingRecords'
      BY <1>1, <1>3, <1>4, <2>3, Continued
    <3>2. \A k \in AskUser : issues[k] = 0
      BY <1>3, <2>2, Categories DEF FiledIssues
    <3>3. misfortunes = 0 => \/ AutoFix \cup AskUser \subseteq AskUser \cup FiledIssues
                             \/ routing.count = MaxIssues
      BY <2>2
    <3>4. FilingInv'
      BY <1>1, <1>2, <1>3, <2>3, <3>1, <3>2, <3>3 DEF FilingInv
    <3> QED
      BY <3>1, <3>4 DEF NothingFoundIsLost
  <2>4. CASE Misfortune /\ Continue("over", {}) /\ UNCHANGED kept
    <3>1. /\ routing'.at = "over" /\ routing'.left = {} /\ routing'.count = routing.count
          /\ routing' \in RoutingRecords'
      BY <1>1, <1>3, <1>4, <2>4, Continued
    <3>2. misfortunes' # 0
      BY <2>4 DEF Misfortune
    <3>3. FilingInv'
      BY <1>1, <1>2, <1>3, <2>4, <3>1, <3>2 DEF FilingInv
    <3> QED
      BY <3>2, <3>3 DEF NothingFoundIsLost
  <2> QED
    BY <2>1, <2>3, <2>4
<1>6. CASE BroadcastReport
  <2>1. /\ Filed("ask") /\ Continue("over", {}) /\ reported' = DOMAIN findings
        /\ UNCHANGED <<kept, misfortunes>>
    BY <1>6 DEF BroadcastReport
  <2>2. /\ routing.at = "ask" /\ (routing.left = {} \/ routing.count = MaxIssues)
        /\ kept = Defer
        /\ misfortunes = 0 => \/ AutoFix \cup AskUser \subseteq routing.left \cup FiledIssues
                              \/ routing.count = MaxIssues
    BY <2>1 DEF Filed, FilingInv
  <2>3. /\ routing'.at = "over" /\ routing'.left = {} /\ routing'.count = routing.count
        /\ routing' \in RoutingRecords'
    BY <1>1, <1>3, <1>4, <2>1, Continued
  <2>4. FilingInv'
    BY <1>1, <1>2, <1>3, <2>1, <2>2, <2>3 DEF FilingInv
  <2>5. DOMAIN issues = DOMAIN findings /\ {k \in DOMAIN issues : issues[k] = 1} = FiledIssues
    BY <1>3 DEF FiledIssues
  <2>6. misfortunes = 0 => \/ \A k \in AutoFix \cup AskUser : issues[k] = 1
                           \/ Cardinality(FiledIssues) = MaxIssues
    BY <1>3, <2>2 DEF FiledIssues
  <2>7. {k \in DOMAIN issues' : issues'[k] = 1} = FiledIssues
    BY <1>1, <2>5
  <2> QED
    BY <1>1, <1>2, <2>1, <2>2, <2>4, <2>6, <2>7 DEF NothingFoundIsLost
<1>7. CASE SessionCrashes
  <2>1. /\ misfortunes' # 0 /\ UNCHANGED <<kept, reported>>
        /\ routing' = IF routing.at = "none" THEN routing ELSE [routing EXCEPT !.at = "over"]
    BY <1>7 DEF SessionCrashes, Misfortune
  <2>2. /\ routing' \in RoutingRecords' /\ routing'.left = routing.left
        /\ routing'.count = routing.count
        /\ \/ routing.at = "none" /\ routing' = routing
           \/ routing'.at = "over"
    BY <1>1, <1>3, <1>4, <2>1 DEF RoutingRecords
  <2>3. FilingInv'
    <3>1. CASE routing' = routing /\ routing.at = "none"
      BY <1>1, <1>2, <1>3, <2>1, <2>2, <3>1 DEF FilingInv
    <3>2. CASE routing'.at = "over"
      BY <1>1, <1>2, <1>3, <2>1, <2>2, <3>2 DEF FilingInv
    <3> QED
      BY <2>2, <3>1, <3>2
  <2> QED
    BY <2>1, <2>3 DEF NothingFoundIsLost
<1> QED
  BY <1>5, <1>6, <1>7


\* A decision to review stands: the anomalies it may rest on stay.
LEMMA DecisionStands ==
    ASSUME review' = review, anomalies # <<>> => anomalies' # <<>>
    PROVE  (resolveReviewDecision => resolveReviewDecision') /\ Asked' = Asked
BY DEF resolveReviewDecision, shouldTriggerAnalysis, Asked

\* Steps of the detector and of the routing leave the review alone.
LEMMA ReviewKept ==
    ASSUME ReviewInv, review' = review, UNCHANGED reviewVars, retro' = retro,
           anomalies # <<>> => anomalies' # <<>>,
           routing.at = "none" <=> routing'.at = "none"
    PROVE  ReviewInv'
<1>1. (resolveReviewDecision => resolveReviewDecision') /\ Asked' = Asked
  BY DecisionStands
<1>2. UNCHANGED <<root, resolution, completing, reviews, unreviewed>>
  BY DEF reviewVars
<1> QED
  BY <1>1, <1>2 DEF ReviewInv

LEMMA CompletionSteps ==
    ASSUME ReviewInv, NEW d \in CompletionDrives,
           Check(d) \/ ClaimResolution(d) \/ Complete(d) \/ TriggerAnalysis(d)
    PROVE  ReviewInv'
<1>1. (resolveReviewDecision <=> resolveReviewDecision') /\ Asked' = Asked /\ review' = review
      /\ routing' = routing
  BY DEF resolveReviewDecision, shouldTriggerAnalysis, Asked, Check, ClaimResolution, Complete,
         TriggerAnalysis, detectorVars, routingVars
<1>2. CASE Check(d)
  <2>1. /\ completing[d] = "none" /\ root = "active"
        /\ completing' = [completing EXCEPT ![d] = "claim"]
        /\ UNCHANGED <<root, resolution, reviews, unreviewed, retro>>
    BY <1>2 DEF Check, CheckCompletion
  <2>2. /\ completing' \in [CompletionDrives -> {"none", "claim", "complete", "handle"}]
        /\ completing'[d] = "claim"
        /\ \A c \in CompletionDrives : c # d => completing'[c] = completing[c]
    BY <2>1 DEF ReviewInv
  <2> QED
    BY <1>1, <2>1, <2>2 DEF ReviewInv
<1>3. CASE ClaimResolution(d)
  <2>1. /\ completing[d] = "claim" /\ resolution' = TRUE
        /\ completing' = [completing EXCEPT ![d] = IF resolution THEN "none" ELSE "complete"]
        /\ UNCHANGED <<root, reviews, unreviewed, retro>>
    BY <1>3 DEF ClaimResolution
  <2>2. /\ completing' \in [CompletionDrives -> {"none", "claim", "complete", "handle"}]
        /\ completing'[d] = IF resolution THEN "none" ELSE "complete"
        /\ \A c \in CompletionDrives : c # d => completing'[c] = completing[c]
    BY <2>1 DEF ReviewInv
  <2>3. CASE resolution
    BY <1>1, <2>1, <2>2, <2>3 DEF ReviewInv
  <2>4. CASE ~resolution
    <3>1. /\ root = "active" /\ reviews = 0
          /\ \A c \in CompletionDrives : completing[c] \notin {"complete", "handle"}
      BY <2>1, <2>4 DEF ReviewInv
    <3> QED
      BY <1>1, <2>1, <2>2, <2>4, <3>1 DEF ReviewInv
  <2> QED
    BY <2>3, <2>4
<1>4. CASE Complete(d)
  <2>1. /\ completing[d] = "complete" /\ root' = "completed"
        /\ completing' = [completing EXCEPT ![d] = "handle"]
        /\ UNCHANGED <<resolution, reviews, unreviewed, retro>>
    BY <1>4 DEF Complete
  <2>2. /\ completing' \in [CompletionDrives -> {"none", "claim", "complete", "handle"}]
        /\ completing'[d] = "handle"
        /\ \A c \in CompletionDrives : c # d => completing'[c] = completing[c]
    BY <2>1 DEF ReviewInv
  <2>3. /\ resolution /\ reviews = 0
        /\ \A c \in CompletionDrives : c # d => completing[c] \notin {"complete", "handle"}
    BY <2>1 DEF ReviewInv
  <2> QED
    BY <1>1, <2>1, <2>2, <2>3 DEF ReviewInv
<1>5. CASE TriggerAnalysis(d)
  <2>1. /\ completing[d] = "handle" /\ completing' = [completing EXCEPT ![d] = "none"]
        /\ UNCHANGED <<root, resolution>>
        /\ \/ resolveReviewDecision /\ retro' = "running" /\ reviews' = reviews + 1
              /\ unreviewed' = unreviewed
           \/ ~resolveReviewDecision /\ unreviewed' = TRUE /\ UNCHANGED <<retro, reviews>>
           \/ UNCHANGED <<retro, reviews, unreviewed>>
    BY <1>5 DEF TriggerAnalysis
  <2>2. /\ completing' \in [CompletionDrives -> {"none", "claim", "complete", "handle"}]
        /\ completing'[d] = "none"
        /\ \A c \in CompletionDrives : c # d => completing'[c] = completing[c]
    BY <2>1 DEF ReviewInv
  <2>3. /\ resolution /\ reviews = 0 /\ root = "completed" /\ retro = "none" /\ routing.at = "none"
        /\ \A c \in CompletionDrives : c # d => completing[c] \notin {"complete", "handle"}
    BY <2>1 DEF ReviewInv
  <2>4. ~resolveReviewDecision => ~Asked
    BY DEF resolveReviewDecision, Asked
  <2>5. \/ /\ resolveReviewDecision' /\ retro' = "running" /\ reviews' = 1
           /\ unreviewed' = unreviewed
        \/ ~Asked' /\ unreviewed' = TRUE /\ UNCHANGED <<retro, reviews>>
        \/ UNCHANGED <<retro, reviews, unreviewed>>
    BY <1>1, <2>1, <2>3, <2>4
  <2>6. /\ completing' \in [CompletionDrives -> {"none", "claim", "complete", "handle"}]
        /\ \A c \in CompletionDrives :
              /\ completing'[c] \notin {"complete", "handle"}
              /\ completing'[c] = "claim" => resolution'
    BY <2>1, <2>2, <2>3
  <2>7. /\ reviews' \in {0, 1} /\ unreviewed' \in BOOLEAN /\ root' = "completed" /\ resolution'
        /\ reviews' = 1 => resolveReviewDecision'
        /\ unreviewed' => ~Asked'
        /\ (retro' = "none" <=> reviews' = 0)
        /\ retro' \in {"none", "running"} /\ routing'.at = "none"
    <3>1. /\ reviews = 0 /\ unreviewed \in BOOLEAN /\ (unreviewed => ~Asked')
          /\ root' = "completed" /\ resolution' /\ routing'.at = "none" /\ retro = "none"
      BY <1>1, <2>1, <2>3 DEF ReviewInv
    <3>2. CASE /\ resolveReviewDecision' /\ retro' = "running" /\ reviews' = 1
               /\ unreviewed' = unreviewed
      BY <3>1, <3>2
    <3>3. CASE ~Asked' /\ unreviewed' = TRUE /\ UNCHANGED <<retro, reviews>>
      BY <3>1, <3>3
    <3>4. CASE UNCHANGED <<retro, reviews, unreviewed>>
      BY <3>1, <3>4
    <3> QED
      BY <2>5, <3>2, <3>3, <3>4
  <2> QED
    BY <1>1, <2>1, <2>6, <2>7 DEF ReviewInv
<1> QED
  BY <1>2, <1>3, <1>4, <1>5

LEMMA OtherReviewSteps ==
    ASSUME ReviewInv, FilingInv, LockExpires \/ RetroEnds \/ SessionCrashes
    PROVE  ReviewInv'
<1>1. (resolveReviewDecision <=> resolveReviewDecision') /\ Asked' = Asked /\ review' = review
  BY DEF resolveReviewDecision, shouldTriggerAnalysis, Asked, LockExpires, RetroEnds,
         SessionCrashes, detectorVars
<1>2. CASE LockExpires
  <2>1. /\ \A d \in CompletionDrives : completing[d] = "none"
        /\ resolution' = FALSE
        /\ UNCHANGED <<root, completing, reviews, unreviewed, retro, routing>>
    BY <1>2 DEF LockExpires, routingVars
  <2> QED
    BY <1>1, <2>1 DEF ReviewInv
<1>3. CASE RetroEnds
  <2>1. /\ retro = "running" /\ UNCHANGED <<root, resolution, completing, reviews, unreviewed>>
        /\ \/ retro' = "completed" /\ routing'.at = "read"
           \/ retro' = "failed" /\ routing' = routing
    BY <1>3 DEF RetroEnds, reviewVars, NotRouting
  <2> QED
    BY <1>1, <2>1 DEF ReviewInv
<1>4. CASE SessionCrashes
  <2>1. /\ completing' = [d \in CompletionDrives |-> "none"]
        /\ UNCHANGED <<root, resolution, reviews, unreviewed, retro>>
        /\ routing' = IF routing.at = "none" THEN routing ELSE [routing EXCEPT !.at = "over"]
    BY <1>4 DEF SessionCrashes
  <2>2. routing'.at = "none" <=> routing.at = "none"
    BY <2>1 DEF FilingInv, RoutingRecords
  <2>3. /\ completing' \in [CompletionDrives -> {"none", "claim", "complete", "handle"}]
        /\ \A d \in CompletionDrives : completing'[d] = "none"
    BY <2>1
  <2> QED
    BY <1>1, <2>1, <2>2, <2>3 DEF ReviewInv
<1> QED
  BY <1>2, <1>3, <1>4


\* Time, and a crash, which forgets the windows but no event that one has been counted for.
LEMMA DetectorKept ==
    ASSUME DetectorTyped, EarnedInv, UNCHANGED <<anomalies, matched>>,
           moment' \in {moment, moment + 1}, misfortunes' \in Nat,
           windowCounters' = windowCounters \/ windowCounters' = [g \in Groups |-> NoWindow]
    PROVE  DetectorTyped' /\ EarnedInv'
<1>1. moment \in Nat /\ moment' \in Nat /\ moment <= moment'
  BY DEF DetectorTyped
<1>2. NoWindow \in Windows /\ NoWindow.count = 0 /\ NoWindow.start = 0
  BY DEF NoWindow, Windows
<1>3. DetectorTyped'
  BY <1>1, <1>2 DEF DetectorTyped
<1>4. \A g \in Groups : windowCounters'[g].start <= moment'
  <2>1. ASSUME NEW g \in Groups PROVE windowCounters'[g].start <= moment'
    <3>1. windowCounters[g].start \in Nat /\ windowCounters[g].start <= moment
      BY DEF DetectorTyped, EarnedInv, Windows
    <3>2. CASE windowCounters' = windowCounters
      BY <1>1, <3>1, <3>2
    <3>3. CASE windowCounters' = [h \in Groups |-> NoWindow]
      BY <1>1, <1>2, <3>3
    <3> QED
      BY <3>2, <3>3
  <2> QED
    BY <2>1
<1>5. /\ Len(matched) \in Nat /\ DOMAIN matched = 1 .. Len(matched)
      /\ \A e \in DOMAIN matched : matched[e].at \in Nat
  <2> DEFINE R == [group : Groups, at : Nat]
  <2>1. matched \in Seq(R)
    BY DEF DetectorTyped
  <2> HIDE DEF R
  <2>2. /\ \A e \in DOMAIN matched : matched[e] \in R
        /\ Len(matched) \in Nat /\ DOMAIN matched = 1 .. Len(matched)
    BY <2>1
  <2> QED
    BY <2>2 DEF R
<1>6. \A e \in DOMAIN matched' : matched'[e].at <= moment'
  BY <1>1, <1>5 DEF EarnedInv
<1>7. \A k \in DOMAIN anomalies : InTime(k)' = InTime(k)
  BY DEF InTime
<1>8. \A k \in DOMAIN anomalies' : Cardinality(InTime(k)') >= Threshold
  BY <1>7 DEF EarnedInv
<1>9. PICK owned \in SUBSET DOMAIN matched :
         /\ Cardinality(owned) >= Len(anomalies) * Threshold
         /\ \A h \in Groups : Cardinality(Fresh(owned, h)) >= windowCounters[h].count
  BY DEF EarnedInv
<1>10. \A h \in Groups : Cardinality(Fresh(owned, h)') >= windowCounters'[h].count
  <2>1. CASE windowCounters' = windowCounters
    <3>1. \A h \in Groups : Fresh(owned, h)' = Fresh(owned, h)
      BY <2>1 DEF Fresh
    <3> QED
      BY <1>9, <2>1, <3>1
  <2>2. CASE windowCounters' = [g \in Groups |-> NoWindow]
    <3>1. \A h \in Groups : windowCounters'[h].count = 0
      BY <1>2, <2>2
    <3>2. \A h \in Groups : Fresh(owned, h)' \subseteq 1 .. Len(matched)
      BY <1>5 DEF Fresh
    <3>3. \A h \in Groups : Cardinality(Fresh(owned, h)') \in Nat
      BY <1>5, <3>2, Bounded
    <3> QED
      BY <3>1, <3>3
  <2> QED
    BY <2>1, <2>2
<1>11. \E own \in SUBSET DOMAIN matched' :
          /\ Cardinality(own) >= Len(anomalies') * Threshold
          /\ \A h \in Groups : Cardinality(Fresh(own, h)') >= windowCounters'[h].count
  BY <1>9, <1>10
<1> QED
  BY <1>3, <1>4, <1>6, <1>8, <1>11 DEF EarnedInv

LEMMA RetroSteps ==
    ASSUME RetInv, [RetroNext]_retroVars
    PROVE  RetInv'
<1>a. DetectorTyped /\ EarnedInv /\ ReviewInv /\ FilingInv /\ NothingFoundIsLost
  BY DEF RetInv
<1>b. misfortunes \in Nat
  BY <1>a DEF DetectorTyped
<1>1. CASE TimePasses \/ GraphEnds
  <2>1. /\ UNCHANGED <<review, windowCounters, anomalies, matched, reviewVars, retro, routingVars,
                       misfortunes>>
        /\ moment' \in {moment, moment + 1}
    BY <1>1 DEF TimePasses, GraphEnds
  <2>2. routing' = routing
    BY <2>1 DEF routingVars
  <2> QED
    BY <1>a, <1>b, <2>1, <2>2, DetectorKept, ReviewKept, FilingKept DEF RetInv
<1>2. CASE RouteFindings \/ FileForgejoIssue \/ SaveDeferred \/ BroadcastReport
  <2>1. /\ UNCHANGED <<review, detectorVars, reviewVars, retro>>
        /\ misfortunes' \in Nat
    <3>1. /\ UNCHANGED <<review, detectorVars, reviewVars, retro>>
          /\ misfortunes' = misfortunes \/ misfortunes' = misfortunes + 1
      <4>1. CASE RouteFindings
        BY <4>1 DEF RouteFindings
      <4>2. CASE FileForgejoIssue
        BY <4>2 DEF FileForgejoIssue, Misfortune
      <4>3. CASE SaveDeferred
        BY <4>3 DEF SaveDeferred, Misfortune
      <4>4. CASE BroadcastReport
        BY <4>4 DEF BroadcastReport
      <4> QED
        BY <1>2, <4>1, <4>2, <4>3, <4>4
    <3> QED
      BY <1>b, <3>1
  <2>2. UNCHANGED <<moment, windowCounters, anomalies, matched>>
    BY <2>1 DEF detectorVars
  <2>3. FilingInv' /\ NothingFoundIsLost'
    BY <1>a, <1>b, <1>2, BeginRouting, FilingSteps, EndRouting
  <2>4. routing.at # "none" /\ routing'.at # "none"
    <3>1. routing \in RoutingRecords
      BY <1>a DEF FilingInv
    <3> QED
      BY <1>2, <3>1 DEF RouteFindings, FileForgejoIssue, SaveDeferred, BroadcastReport, Filed,
                        Continue, RoutingRecords
  <2> QED
    BY <1>a, <2>1, <2>2, <2>3, <2>4, DetectorKept, ReviewKept DEF RetInv
<1>3. CASE SessionCrashes
  <2>1. /\ UNCHANGED <<moment, anomalies, matched>> /\ misfortunes' \in Nat
        /\ windowCounters' = [g \in Groups |-> NoWindow]
    BY <1>b, <1>3 DEF SessionCrashes, Misfortune
  <2> QED
    BY <1>a, <1>b, <1>3, <2>1, DetectorKept, OtherReviewSteps, EndRouting DEF RetInv
<1>4. CASE RetroEnds
  <2>1. UNCHANGED <<moment, windowCounters, anomalies, matched, misfortunes>>
    BY <1>4 DEF RetroEnds, detectorVars
  <2> QED
    BY <1>a, <1>b, <1>4, <2>1, DetectorKept, OtherReviewSteps, BeginRouting DEF RetInv
<1>5. CASE LockExpires
  <2>1. UNCHANGED <<review, moment, windowCounters, anomalies, matched, misfortunes, routingVars>>
    BY <1>5 DEF LockExpires, detectorVars
  <2> QED
    BY <1>a, <1>b, <1>5, <2>1, DetectorKept, OtherReviewSteps, FilingKept DEF RetInv
<1>6. ASSUME NEW g \in Groups, Evaluate(g) PROVE RetInv'
  <2>1. /\ UNCHANGED <<review, reviewVars, retro, routingVars>>
        /\ misfortunes' = 0 => misfortunes = 0
        /\ anomalies' = anomalies
           \/ \E found \in [severity : {"critical", "low"}, group : Groups, at : Nat] :
                 anomalies' = Append(anomalies, found)
    <3>1. /\ UNCHANGED <<review, reviewVars, retro, routingVars>>
          /\ misfortunes' = misfortunes \/ misfortunes' = misfortunes + 1
      BY <1>6 DEF Evaluate, Misfortune
    <3> DEFINE found == [severity |-> ResolveSeverity, group |-> g, at |-> moment]
    <3>2. anomalies' = anomalies \/ anomalies' = Append(anomalies, found)
      BY <1>6 DEF Evaluate, Record
    <3>3. found \in [severity : {"critical", "low"}, group : Groups, at : Nat]
      BY <1>a DEF DetectorTyped, ResolveSeverity
    <3> HIDE DEF found
    <3> QED
      BY <1>b, <3>1, <3>2, <3>3
  <2>2. anomalies # <<>> => anomalies' # <<>>
    <3> DEFINE R == [severity : {"critical", "low"}, group : Groups, at : Nat]
    <3>1. /\ anomalies \in Seq(R)
          /\ anomalies' = anomalies \/ \E found \in R : anomalies' = Append(anomalies, found)
      BY <1>a, <2>1 DEF DetectorTyped
    <3> HIDE DEF R
    <3> QED
      BY <3>1
  <2>3. routing' = routing
    BY <2>1 DEF routingVars
  <2> QED
    BY <1>a, <1>6, <2>1, <2>2, <2>3, EvaluateSteps, ReviewKept, FilingKept DEF RetInv
<1>7. ASSUME NEW d \in CompletionDrives,
             Check(d) \/ ClaimResolution(d) \/ Complete(d) \/ TriggerAnalysis(d)
      PROVE  RetInv'
  <2>1. /\ UNCHANGED <<review, moment, windowCounters, anomalies, matched, routingVars>>
        /\ misfortunes' = misfortunes \/ misfortunes' = misfortunes + 1
    BY <1>7 DEF Check, ClaimResolution, Complete, TriggerAnalysis, detectorVars, Misfortune
  <2>2. misfortunes' \in Nat /\ (misfortunes' = 0 => misfortunes = 0)
    BY <1>b, <2>1
  <2> QED
    BY <1>a, <1>7, <2>1, <2>2, DetectorKept, CompletionSteps, FilingKept DEF RetInv
<1>8. CASE UNCHANGED retroVars
  <2>1. /\ UNCHANGED <<review, reviewVars, retro, routingVars, misfortunes>>
        /\ UNCHANGED <<moment, windowCounters, anomalies, matched>>
    BY <1>8 DEF retroVars, detectorVars
  <2>2. routing' = routing
    BY <2>1 DEF routingVars
  <2> QED
    BY <1>a, <1>b, <2>1, <2>2, DetectorKept, ReviewKept, FilingKept DEF RetInv
<1> QED
  BY <1>1, <1>2, <1>3, <1>4, <1>5, <1>6, <1>7, <1>8 DEF RetroNext

LEMMA RetroBegins ==
    ASSUME RetroInit
    PROVE  RetInv
<1>1. /\ review.flag \in Choice /\ review.byDefault \in Choice
  BY DEF RetroInit
<1>2. DetectorTyped
  BY DEF RetroInit, DetectorTyped, NoWindow, Windows
<1>3. /\ moment = 0 /\ matched = <<>> /\ anomalies = <<>>
      /\ \A g \in Groups : windowCounters[g].count = 0 /\ windowCounters[g].start = 0
  BY DEF RetroInit, NoWindow
<1>4. EarnedInv
  <2>1. DOMAIN matched = {} /\ DOMAIN anomalies = {} /\ Len(anomalies) = 0
    BY <1>3
  <2>2. \A g \in Groups : Fresh({}, g) = {}
    BY <2>1 DEF Fresh
  <2>3. Cardinality({}) = 0
    BY FS_EmptySet
  <2>4. /\ {} \in SUBSET DOMAIN matched /\ Cardinality({}) >= Len(anomalies) * Threshold
        /\ \A g \in Groups : Cardinality(Fresh({}, g)) >= windowCounters[g].count
    <3>1. 0 * Threshold = 0
      BY RetrospectiveAssumption
    <3>2. Cardinality({}) >= Len(anomalies) * Threshold
      BY <2>1, <2>3, <3>1
    <3>3. \A g \in Groups : Cardinality(Fresh({}, g)) = 0
      BY <2>2, <2>3
    <3>4. \A g \in Groups : Cardinality(Fresh({}, g)) >= windowCounters[g].count
      BY <1>3, <3>3
    <3> QED
      BY <3>2, <3>4
  <2> QED
    BY <1>3, <2>1, <2>4 DEF EarnedInv
<1>5. ReviewInv
  <2>1. /\ completing = [d \in CompletionDrives |-> "none"] /\ resolution = FALSE /\ root = "active"
        /\ reviews = 0 /\ unreviewed = FALSE /\ retro = "none" /\ routing.at = "none"
    BY DEF RetroInit, NotRouting
  <2>2. /\ completing \in [CompletionDrives -> {"none", "claim", "complete", "handle"}]
        /\ \A d \in CompletionDrives : completing[d] = "none"
    BY <2>1
  <2>3. /\ unreviewed => ~Asked
        /\ reviews = 1 => resolveReviewDecision
        /\ resolution \in BOOLEAN /\ unreviewed \in BOOLEAN
    <3>1. ~unreviewed /\ reviews # 1
      BY <2>1
    <3>2. resolution \in BOOLEAN /\ unreviewed \in BOOLEAN
      BY <2>1
    <3> QED
      BY <3>1, <3>2, Zenon
  <2> HIDE DEF Choice
  <2> QED
    BY <1>1, <2>1, <2>2, <2>3 DEF ReviewInv
<1>6. FilingInv
  <2>1. /\ findings = <<>> /\ issues = <<>> /\ routing = [at |-> "none", left |-> {}, count |-> 0]
        /\ kept = {} /\ reported = {} /\ misfortunes = 0 /\ MaxIssues \in Nat
    BY RetrospectiveAssumption DEF RetroInit, NotRouting
  <2>2. FiledIssues = {} /\ Cardinality(FiledIssues) = 0
    BY <2>1, FS_EmptySet DEF FiledIssues
  <2>3. routing \in RoutingRecords
    BY <2>1 DEF RoutingRecords, RoutingSteps
  <2>4. DOMAIN findings = {} /\ issues \in [DOMAIN findings -> {0, 1}]
    BY <2>1
  <2> QED
    BY <2>1, <2>2, <2>3, <2>4 DEF FilingInv
<1>7. NothingFoundIsLost
  BY DEF RetroInit, NotRouting, NothingFoundIsLost
<1> QED
  BY <1>2, <1>4, <1>5, <1>6, <1>7 DEF RetInv

LEMMA Bounds ==
    ASSUME RetInv
    PROVE  ReviewsAreBounded
<1>1. ReviewedAsAsked
  <2>1. /\ reviews \in {0, 1} /\ review.flag \in Choice /\ review.byDefault \in Choice
        /\ reviews = 1 => resolveReviewDecision
        /\ unreviewed => ~Asked
    BY DEF RetInv, ReviewInv
  <2> QED
    BY <2>1 DEF ReviewedAsAsked, resolveReviewDecision, shouldTriggerAnalysis, Asked, Choice
<1>2. FiledOnce
  <2>1. /\ findings \in Seq([category : STRING, filed : BOOLEAN])
        /\ issues \in [DOMAIN findings -> {0, 1}] /\ routing \in RoutingRecords
        /\ Cardinality(FiledIssues) <= routing.count
        /\ FiledIssues \subseteq AutoFix \cup AskUser /\ kept \subseteq Defer
    BY DEF RetInv, FilingInv
  <2>2. \A i \in FiledIssues : ~findings[i].filed /\ i \notin kept
    BY <2>1, Categories
  <2>3. {i \in DOMAIN issues : issues[i] > 0} = FiledIssues
    BY <2>1 DEF FiledIssues
  <2>4. routing.count \in 0 .. MaxIssues /\ MaxIssues \in Nat
    BY <2>1, RetrospectiveAssumption DEF RoutingRecords
  <2>5. Cardinality(FiledIssues) \in Nat
    <3>1. DOMAIN findings = 1 .. Len(findings) /\ Len(findings) \in Nat
      BY <2>1
    <3> QED
      BY <3>1, Bounded DEF FiledIssues
  <2>6. Cardinality({i \in DOMAIN issues : issues[i] > 0}) <= MaxIssues
    <3>1. Cardinality(FiledIssues) <= MaxIssues
      BY <2>1, <2>4, <2>5
    <3> QED
      BY <2>3, <3>1
  <2>7. \A i \in DOMAIN issues : issues[i] <= 1 /\ (issues[i] = 1 => i \in FiledIssues)
    BY <2>1 DEF FiledIssues
  <2> QED
    BY <2>2, <2>6, <2>7 DEF FiledOnce
<1>3. AnomaliesAreEarned
  <2>1. DOMAIN matched = 1 .. Len(matched) /\ Len(matched) \in Nat /\ Len(anomalies) \in Nat
    BY DEF RetInv, DetectorTyped
  <2>2. PICK owned \in SUBSET DOMAIN matched : Cardinality(owned) >= Len(anomalies) * Threshold
    BY DEF RetInv, EarnedInv
  <2>3. /\ Cardinality(owned) \in Nat
        /\ Cardinality(owned) <= Cardinality(1 .. Len(matched))
        /\ Cardinality(1 .. Len(matched)) = Len(matched)
    <3>1. Cardinality(1 .. Len(matched)) = Len(matched)
      <4>1. PICK n \in Nat : n = Len(matched)
        BY <2>1
      <4>2. 1 \in Int /\ n \in Int
        OBVIOUS
      <4>3. Cardinality(1 .. n) = IF 1 > n THEN 0 ELSE n - 1 + 1
        BY <4>2, FS_Interval
      <4> QED
        BY <4>1, <4>3
    <3> QED
      BY <2>1, <3>1, Bounded, Larger
  <2>4. Len(anomalies) * Threshold <= Len(matched)
    <3>1. Len(anomalies) * Threshold \in Nat
      BY <2>1, RetrospectiveAssumption
    <3> QED
      BY <2>1, <2>2, <2>3, <3>1
  <2>5. \A k \in DOMAIN anomalies : Cardinality(InTime(k)) >= Threshold
    BY DEF RetInv, EarnedInv
  <2> QED
    BY <2>4, <2>5 DEF AnomaliesAreEarned, InTime
<1> QED
  BY <1>1, <1>2, <1>3 DEF RetInv, ReviewsAreBounded

\* Reviews are had once and as asked, their findings filed once and none of them lost, and every
\* anomaly stands for events of its own, for any window, threshold, lists of findings and drives.
THEOREM ReviewsAreAlwaysBounded == RetroSpec => []ReviewsAreBounded
<1>1. RetroInit => RetInv
  BY RetroBegins
<1>2. RetInv /\ [RetroNext]_retroVars => RetInv'
  BY RetroSteps
<1>3. RetInv => ReviewsAreBounded
  BY Bounds
<1> QED
  BY <1>1, <1>2, <1>3, PTL DEF RetroSpec

-----------------------------------------------------------------------------
\* Declaration. An input is walked by recursion, so this rests on induction over the naturals
\* in its form for sets: a set that has 0 and, with a number, the next is all of them.

Less == {ss \in Nat \X Nat : ss[1] < ss[2]}
LEMMA NaturalsWellFounded == IsWellFoundedOn(Less, Nat)
  BY NatLessThanWellFounded DEF OpToRel, Less
LEMMA LeastOf ==
    ASSUME NEW S \in SUBSET Nat, S # {}
    PROVE  \E m \in S : \A k \in S : m <= k
  <1>1. \A k, m \in Nat : k < m => <<k, m>> \in Less  BY DEF Less
  <1>2. PICK m \in S : \A k \in S : <<k, m>> \notin Less  BY NaturalsWellFounded, WFMin, Zenon
  <1>3. \A k \in S : ~(k < m)  BY <1>1, <1>2
  <1> QED BY <1>3
LEMMA AllNaturals ==
    ASSUME NEW S \in SUBSET Nat, 0 \in S, \A n \in S : n + 1 \in S
    PROVE  S = Nat
  <1> SUFFICES ASSUME Nat \ S # {} PROVE FALSE
    OBVIOUS
  <1>1. PICK m \in Nat \ S : \A k \in Nat \ S : m <= k  BY LeastOf
  <1>2. m # 0 /\ m - 1 \in Nat /\ m - 1 \in S
    BY <1>1
  <1> QED BY <1>1, <1>2

\* Recursion over an initial segment of the naturals defines a function.
IsRecursive(g, V, b, F, len) ==
    /\ g \in [0..len -> V] /\ g[0] = b
    /\ \A i \in 1..len : g[i] = F[<<i, g[i - 1]>>]
LEMMA Recursion ==
    ASSUME NEW V, NEW b \in V, NEW F \in [Nat \X V -> V], NEW len \in Nat
    PROVE  \E g : IsRecursive(g, V, b, F, len)
  <1> DEFINE Built(n) == {g \in [0..n -> V] : g[0] = b /\ \A i \in 1..n : g[i] = F[<<i, g[i - 1]>>]}
             S == {n \in Nat : Built(n) # {}}
  <1>1. 0 \in S
    <2>1. [i \in 0..0 |-> b] \in Built(0)  OBVIOUS
    <2> QED BY <2>1
  <1>2. ASSUME NEW n \in S PROVE n + 1 \in S
    <2>1. PICK g \in Built(n) : TRUE  OBVIOUS
    <2> DEFINE h == [i \in 0..n + 1 |-> IF i = n + 1 THEN F[<<n + 1, g[n]>>] ELSE g[i]]
    <2>2. n \in 0..n /\ g[n] \in V  BY <2>1
    <2>3. h \in [0..n + 1 -> V]  BY <2>1, <2>2
    <2>4. h[0] = b  BY <2>1
    <2>5. ASSUME NEW i \in 1..n + 1 PROVE h[i] = F[<<i, h[i - 1]>>]
      <3>1. CASE i = n + 1
        <4>1. n + 1 \in 0..n + 1 /\ n \in 0..n + 1 /\ n # n + 1  OBVIOUS
        <4>2. h[n + 1] = F[<<n + 1, g[n]>>] /\ h[n] = g[n]  BY <4>1
        <4>3. i - 1 = n  BY <3>1
        <4> HIDE DEF h
        <4> QED BY <3>1, <4>2, <4>3, Zenon
      <3>2. CASE i \in 1..n
        <4>1. i - 1 \in 0..n /\ i \in 0..n  BY <3>2
        <4> QED BY <3>2, <4>1, <2>1
      <3> QED BY <3>1, <3>2
    <2> HIDE DEF h
    <2>6. h \in Built(n + 1)  BY <2>3, <2>4, <2>5
    <2> QED BY <2>6
  <1>3. len \in S  BY <1>1, <1>2, AllNaturals
  <1>4. PICK g \in Built(len) : TRUE  BY <1>3
  <1>5. IsRecursive(g, V, b, F, len)  BY <1>4 DEF IsRecursive
  <1> QED BY <1>5


-----------------------------------------------------------------------------
DeclarationSpec == DeclarationInit /\ [][DeclarationNext]_declarationVars

Wanted(c) == IF c = "integrationTest" THEN 3 ELSE 2
\* The tasks that can give the gate its command c.
Givers(c) == {t \in ToSet(tasks) : Priority[t.level] >= Wanted(c) /\ t.commands[c] # None}

HasEnded == phase \in {"judged", "no runnable command"}
HasGraph == phase = "active" \/ HasEnded
IsChecked == phase = "checked" \/ HasGraph

DeclarationTypeOK ==
    /\ tasks \in Seq(InputTasks) /\ recipe \in Recipes /\ defaults \in Defaults
    /\ phase \in {"template", "input", "resolved", "checked", "active", "judged",
                  "no runnable command", "rejected"}

\* What the checks of a tool have left out.
GatedCanRun ==
    IsChecked =>
        /\ \A t \in ToSet(tasks) : t.level # None => t.commands["test"] # None
        /\ (\E t \in ToSet(tasks) : IsGated(t)) =>
              \E t \in ToSet(tasks) :
                  IsGated(t) /\ (t.commands["install"] # None \/ t.commands["test"] = "installs")

\* What the level and the commands of a graph have to do with its tasks.
LevelIsHighest ==
    HasGraph =>
        /\ tasks # <<>> => level \in DOMAIN Priority
        /\ \A t \in ToSet(tasks) : Priority[t.level] <= Priority[level]
        /\ level \in {"unit", "integration"} => "agent" \notin criteria
GateIsGiven ==
    HasGraph =>
        \A c \in Commands :
            IF Givers(c) = {} THEN gate[c] = None ELSE \E t \in Givers(c) : gate[c] = t.commands[c]

LastOnes ==
    {tasks[k] : k \in {j \in DOMAIN tasks : \A i \in DOMAIN tasks : i > j => tasks[i].id # tasks[j].id}}
DeclaredAreLast ==
    HasGraph =>
        /\ declared = LastOnes
        /\ \A t \in ToSet(tasks) : t.deps \subseteq Ids
        /\ \A C \in (SUBSET Ids) \ {{}} :
              \E i \in C : \A t \in ToSet(tasks) : t.id = i => t.deps \cap C = {}

EndIsDecided ==
    HasEnded => phase = "judged" \/ (level \in {"unit", "integration"} /\ GateTest = None)

DeclarationInv ==
    /\ DeclarationTypeOK /\ GatedCanRun /\ LevelIsHighest /\ GateIsGiven /\ DeclaredAreLast
    /\ EndIsDecided

-----------------------------------------------------------------------------
LEMMA VisitedIs ==
    Visited = (CHOOSE visit : visit = [n \in 0..Len(tasks) |->
                  IF n = 0 THEN {}
                  ELSE {i \in Ids : \A t \in ToSet(tasks) : t.id = i => t.deps \subseteq visit[n - 1]}])[Len(tasks)]
  BY Zenon DEF Visited

\* Of ids that wait for each other in a circle the walk visits none.
LEMMA CirclesAreNotVisited ==
    ASSUME tasks \in Seq(InputTasks), NEW C \in SUBSET Ids,
           \A i \in C : \E t \in ToSet(tasks) : t.id = i /\ t.deps \cap C # {}
    PROVE  Visited \cap C = {}
  <1> DEFINE Next(s) == {i \in Ids : \A t \in ToSet(tasks) : t.id = i => t.deps \subseteq s}
             F == [p \in Nat \X SUBSET Ids |-> Next(p[2])]
             len == Len(tasks)
             Walk(visit) == visit = [n \in 0..len |-> IF n = 0 THEN {} ELSE Next(visit[n - 1])]
  <1>0. len \in Nat  OBVIOUS
  <1>1. F \in [Nat \X SUBSET Ids -> SUBSET Ids]  OBVIOUS
  <1>2. PICK g \in [0..len -> SUBSET Ids] : g[0] = {} /\ \A i \in 1..len : g[i] = F[<<i, g[i - 1]>>]
    <2> DEFINE V == SUBSET Ids
    <2>1. {} \in V  OBVIOUS
    <2>2. F \in [Nat \X V -> V]  BY <1>1
    <2> HIDE DEF F, V, len
    <2>3. \E g : IsRecursive(g, V, {}, F, len)  BY <2>1, <2>2, <1>0, Recursion
    <2> QED BY <2>3 DEF IsRecursive, V
  <1>3. \A i \in 1..len : g[i] = Next(g[i - 1])
    <2> SUFFICES ASSUME NEW i \in 1..len PROVE g[i] = Next(g[i - 1])  OBVIOUS
    <2>1. i - 1 \in 0..len /\ i \in Nat  BY <1>0
    <2>2. <<i, g[i - 1]>> \in Nat \X SUBSET Ids  BY <2>1
    <2>3. F[<<i, g[i - 1]>>] = Next(g[i - 1])  BY <2>2
    <2> QED BY <2>3, <1>2
  <1>4. Walk(g)
    <2> HIDE DEF Next, len
    <2>1. \A n \in 0..len : g[n] = IF n = 0 THEN {} ELSE Next(g[n - 1])  BY <1>0, <1>2, <1>3
    <2> QED BY <2>1
  <1> DEFINE visit == CHOOSE v : Walk(v)
  <1>5. Walk(visit)
    <2> HIDE DEF Walk
    <2> QED BY <1>4, Zenon
  <1>6. Visited = visit[len]  BY VisitedIs, Zenon
  <1> HIDE DEF visit
  <1>7. visit[0] = {} /\ \A n \in 1..len : visit[n] = Next(visit[n - 1])
    <2> HIDE DEF Next, len
    <2>1. visit = [n \in 0..len |-> IF n = 0 THEN {} ELSE Next(visit[n - 1])]  BY <1>5
    <2> HIDE DEF Walk
    <2>2. 0 \in 0..len /\ \A n \in 1..len : n \in 0..len /\ n # 0  BY <1>0
    <2>3. visit[0] = {}  BY <2>1, <2>2, Zenon
    <2>4. \A n \in 1..len : visit[n] = Next(visit[n - 1])  BY <2>1, <2>2, Zenon
    <2> QED BY <2>3, <2>4
  <1> DEFINE S == {n \in Nat : n \in 0..len => visit[n] \cap C = {}}
  <1>8. 0 \in S  BY <1>7
  <1>9. ASSUME NEW n \in S PROVE n + 1 \in S
    <2> SUFFICES ASSUME n + 1 \in 0..len PROVE visit[n + 1] \cap C = {}  OBVIOUS
    <2>1. n \in 0..len /\ n + 1 \in 1..len /\ (n + 1) - 1 = n  BY <1>0
    <2>2. visit[n + 1] = Next(visit[n])  BY <2>1, <1>7
    <2>3. visit[n] \cap C = {}  BY <2>1
    <2> QED BY <2>2, <2>3
  <1>10. len \in S
    <2> HIDE DEF S
    <2>1. S = Nat
      <3>1. S \in SUBSET Nat  BY DEF S
      <3> QED BY <3>1, <1>8, <1>9, AllNaturals
    <2> QED BY <2>1, <1>0
  <1> QED BY <1>10, <1>6, <1>0

\* The tasks of several sequences in a row are a sequence of tasks.
LEMMA FlattenIs ==
    ASSUME NEW ss, Len(ss) # 0
    PROVE  FlattenSeq(ss) = (CHOOSE g : g = [i \in 1..Len(ss) |->
               IF i = 1 THEN ss[i] ELSE g[i-1] \o ss[i]])[Len(ss)]
  BY Zenon DEF FlattenSeq

LEMMA FlattenType ==
    ASSUME NEW T, NEW ss \in Seq(Seq(T))
    PROVE  FlattenSeq(ss) \in Seq(T)
  <1>1. CASE Len(ss) = 0
    <2>1. FlattenSeq(ss) = ss /\ ss = <<>>  BY <1>1 DEF FlattenSeq
    <2> QED BY <2>1
  <1>2. CASE Len(ss) # 0
    <2> DEFINE len == Len(ss)
               V == Seq(T)
               F == [p \in Nat \X V |-> IF p[1] \in 2..len THEN p[2] \o ss[p[1]] ELSE ss[1]]
               Joins(h) == h = [i \in 1..len |-> IF i = 1 THEN ss[i] ELSE h[i - 1] \o ss[i]]
    <2>1. len \in Nat \ {0} /\ \A i \in 1..len : ss[i] \in V  BY <1>2
    <2>2. F \in [Nat \X V -> V]
      <3> SUFFICES ASSUME NEW p \in Nat \X V
                   PROVE  (IF p[1] \in 2..len THEN p[2] \o ss[p[1]] ELSE ss[1]) \in V
        OBVIOUS
      <3>1. 1 \in 1..len /\ (p[1] \in 2..len => p[1] \in 1..len)  BY <2>1
      <3>2. p[1] \in 2..len => ss[p[1]] \in Seq(T) /\ p[2] \in Seq(T)  BY <2>1, <3>1
      <3> QED BY <2>1, <3>1, <3>2
    <2>3. PICK g : IsRecursive(g, V, <<>>, F, len)
      <3>1. <<>> \in V  OBVIOUS
      <3> HIDE DEF F, V, len
      <3> QED BY <2>1, <2>2, <3>1, Recursion
    <2> DEFINE h0 == [i \in 1..len |-> g[i]]
    <2>4. \A i \in 1..len : g[i] \in V /\ g[i - 1] \in V /\ g[i] = F[<<i, g[i - 1]>>]
      <3> HIDE DEF F, V, len
      <3> QED BY <2>1, <2>3 DEF IsRecursive
    <2>5. \A i \in 1..len : g[i] = IF i \in 2..len THEN g[i - 1] \o ss[i] ELSE ss[1]
      <3> SUFFICES ASSUME NEW i \in 1..len
                   PROVE  g[i] = IF i \in 2..len THEN g[i - 1] \o ss[i] ELSE ss[1]
        OBVIOUS
      <3>1. i \in Nat /\ g[i - 1] \in V
        <4> HIDE DEF F, len, V
        <4>1. i \in Nat  BY <2>1
        <4>2. g[i - 1] \in V  BY <2>4, Zenon
        <4> QED BY <4>1, <4>2
      <3>2. F[<<i, g[i - 1]>>] = IF i \in 2..len THEN g[i - 1] \o ss[i] ELSE ss[1]  BY <3>1
      <3> QED BY <3>2, <2>4
    <2>6. Joins(h0)
      <3>1. \A i \in 1..len : i \in 2..len => i - 1 \in 1..len  BY <2>1
      <3>2. \A i \in 1..len : i \in 2..len <=> i # 1  BY <2>1
      <3> HIDE DEF len
      <3>3. \A i \in 1..len : h0[i] = IF i = 1 THEN ss[i] ELSE h0[i - 1] \o ss[i]
        BY <2>5, <3>1, <3>2
      <3> QED BY <3>3
    <2> DEFINE joined == CHOOSE h : Joins(h)
    <2>7. Joins(joined)
      <3> HIDE DEF Joins, h0
      <3> QED BY <2>6, Zenon
    <2>8. FlattenSeq(ss) = joined[len]  BY <1>2, FlattenIs, Zenon
    <2> HIDE DEF joined
    <2> DEFINE S == {n \in Nat : n \in 1..len => joined[n] \in Seq(T)}
    <2>9. 0 \in S  OBVIOUS
    <2>10. ASSUME NEW n \in S PROVE n + 1 \in S
      <3> SUFFICES ASSUME n + 1 \in 1..len PROVE joined[n + 1] \in Seq(T)  OBVIOUS
      <3>1. joined[n + 1] = IF n + 1 = 1 THEN ss[n + 1] ELSE joined[(n + 1) - 1] \o ss[n + 1]
        <4> HIDE DEF len
        <4> QED BY <2>7
      <3>2. n + 1 # 1 => n \in 1..len  BY <2>1
      <3>3. ss[n + 1] \in Seq(T)  BY <2>1
      <3>4. CASE n + 1 = 1  BY <3>1, <3>3, <3>4
      <3>5. CASE n + 1 # 1
        <4>1. joined[n] \in Seq(T)  BY <3>2, <3>5
        <4>2. (n + 1) - 1 = n  BY DEF S
        <4>3. joined[n + 1] = joined[n] \o ss[n + 1]  BY <3>1, <3>5, <4>2, Zenon
        <4> QED BY <4>1, <4>3, <3>3
      <3> QED BY <3>4, <3>5
    <2>11. S = Nat
      <3>1. S \in SUBSET Nat  OBVIOUS
      <3> HIDE DEF S
      <3> QED BY <3>1, <2>9, <2>10, AllNaturals
    <2> QED BY <2>8, <2>11, <2>1
  <1> QED BY <1>1, <1>2

LEMMA HighestLevel ==
    ASSUME tasks \in Seq(InputTasks)
    PROVE  /\ MaxValidationLevel \in DOMAIN Priority
           /\ \A t \in ToSet(tasks) : Priority[t.level] <= Priority[MaxValidationLevel]
  <1> DEFINE Below == {n \in Nat : \E t \in ToSet(tasks) : n = 3 - Priority[t.level]}
             Highest(t) == \A u \in ToSet(tasks) : Priority[u.level] <= Priority[t.level]
  <1>1. CASE tasks = <<>>  BY <1>1 DEF MaxValidationLevel, ToSet, Priority, None
  <1>2. CASE tasks # <<>>
    <2>1. ToSet(tasks) # {} /\ ToSet(tasks) \subseteq InputTasks
      <3>1. \A k \in DOMAIN tasks : tasks[k] \in InputTasks  OBVIOUS
      <3>2. 1 \in DOMAIN tasks  BY <1>2
      <3> QED BY <3>1, <3>2 DEF ToSet
    <2>2. \A t \in ToSet(tasks) : t.level \in DOMAIN Priority /\ Priority[t.level] \in 0..3
      BY <2>1 DEF InputTasks, Priority
    <2>3. Below \in SUBSET Nat /\ \A t \in ToSet(tasks) : 3 - Priority[t.level] \in Below
      <3> SUFFICES ASSUME NEW t \in ToSet(tasks) PROVE 3 - Priority[t.level] \in Below
        OBVIOUS
      <3>1. 3 - Priority[t.level] \in Nat  BY <2>2
      <3> QED BY <3>1
    <2>4. Below # {}  BY <2>1, <2>3
    <2>5. PICK m \in Below : \A k \in Below : m <= k
      <3> HIDE DEF Below
      <3> QED BY <2>3, <2>4, LeastOf
    <2>6. PICK t \in ToSet(tasks) : m = 3 - Priority[t.level]  OBVIOUS
    <2>7. Highest(t)
      <3> SUFFICES ASSUME NEW u \in ToSet(tasks) PROVE Priority[u.level] <= Priority[t.level]
        OBVIOUS
      <3>1. m <= 3 - Priority[u.level]  BY <2>3, <2>5
      <3> QED BY <3>1, <2>6, <2>2
    <2> DEFINE top == CHOOSE u \in ToSet(tasks) : Highest(u)
    <2>8. top \in ToSet(tasks) /\ Highest(top)
      <3> HIDE DEF Highest
      <3> QED BY <2>7, Zenon
    <2>9. MaxValidationLevel = top.level  BY <1>2, Zenon DEF MaxValidationLevel
    <2> HIDE DEF top
    <2> QED BY <2>2, <2>8, <2>9
  <1> QED BY <1>1, <1>2

LEMMA FirstCommandIs ==
    ASSUME tasks \in Seq(InputTasks), NEW c \in Commands
    PROVE  IF Givers(c) = {} THEN FirstCommand(c, Wanted(c)) = None
           ELSE \E t \in Givers(c) : FirstCommand(c, Wanted(c)) = t.commands[c]
  <1> DEFINE ks == {k \in DOMAIN tasks : Priority[tasks[k].level] >= Wanted(c) /\ tasks[k].commands[c] # None}
             first == CHOOSE k \in ks : \A j \in ks : k <= j
  <1>1. Givers(c) = {tasks[k] : k \in ks}  BY DEF Givers, ToSet
  <1>2. CASE ks = {}  BY <1>1, <1>2, Zenon DEF FirstCommand
  <1>3. CASE ks # {}
    <2>1. ks \in SUBSET Nat  OBVIOUS
    <2>2. \E k \in ks : \A j \in ks : k <= j
      <3> HIDE DEF ks
      <3> QED BY <1>3, <2>1, LeastOf
    <2>3. first \in ks  BY <2>2, Zenon
    <2>4. FirstCommand(c, Wanted(c)) = tasks[first].commands[c]  BY <1>3, Zenon DEF FirstCommand
    <2> HIDE DEF first
    <2>5. tasks[first] \in Givers(c)  BY <1>1, <2>3
    <2> QED BY <2>4, <2>5
  <1> QED BY <1>2, <1>3

-----------------------------------------------------------------------------
LEMMA CloneTypes ==
    ASSUME NEW t \in InputTasks, NEW n \in Nat
    PROVE  Clones(t, n) \in Seq(InputTasks)
  <1>1. ASSUME NEW i \in 1..n PROVE [t EXCEPT !.id = <<t.id[1], i>>] \in InputTasks
    <2>1. t.id[1] \in STRING /\ i \in Nat  BY DEF InputTasks, TaskIds
    <2>2. <<t.id[1], i>> \in TaskIds  BY <2>1 DEF TaskIds
    <2> HIDE DEF TaskIds
    <2> QED BY <2>2 DEF InputTasks
  <1>2. [i \in 1..n |-> [t EXCEPT !.id = <<t.id[1], i>>]] \in Seq(InputTasks)
    <2> HIDE DEF InputTasks
    <2> QED BY <1>1
  <1> QED BY <1>2 DEF Clones

LEMMA RewiredTypes ==
    ASSUME NEW deps \in SUBSET TaskIds, NEW n \in Nat
    PROVE  Rewired(deps, n) \in SUBSET TaskIds
  <1>1. ASSUME NEW d \in deps, NEW i \in 1..n PROVE <<d[1], i>> \in TaskIds
    BY DEF TaskIds
  <1> QED BY <1>1 DEF Rewired

LEMMA ExpansionTypes ==
    ASSUME tasks \in Seq(InputTasks), NEW n \in Nat
    PROVE  FlattenSeq([k \in DOMAIN tasks |->
               [c \in DOMAIN Clones(tasks[k], n) |->
                   [Clones(tasks[k], n)[c] EXCEPT !.deps = Rewired(@, n)]]]) \in Seq(InputTasks)
  <1> DEFINE part(k) == [c \in DOMAIN Clones(tasks[k], n) |->
                            [Clones(tasks[k], n)[c] EXCEPT !.deps = Rewired(@, n)]]
  <1>1. ASSUME NEW k \in DOMAIN tasks PROVE part(k) \in Seq(InputTasks)
    <2>1. Clones(tasks[k], n) \in Seq(InputTasks)
      <3>1. tasks[k] \in InputTasks  OBVIOUS
      <3> QED BY <3>1, CloneTypes
    <2>2. ASSUME NEW t \in InputTasks PROVE [t EXCEPT !.deps = Rewired(@, n)] \in InputTasks
      <3>1. t.deps \in SUBSET TaskIds  BY DEF InputTasks
      <3>2. Rewired(t.deps, n) \in SUBSET TaskIds  BY <3>1, RewiredTypes
      <3> QED BY <3>2 DEF InputTasks
    <2>3. \A c \in DOMAIN Clones(tasks[k], n) : Clones(tasks[k], n)[c] \in InputTasks
      BY <2>1
    <2> DEFINE cl == Clones(tasks[k], n)
    <2> HIDE DEF cl
    <2>4. \A c \in DOMAIN cl : [cl[c] EXCEPT !.deps = Rewired(@, n)] \in InputTasks
      BY <2>2, <2>3 DEF cl
    <2>5. [c \in DOMAIN cl |-> [cl[c] EXCEPT !.deps = Rewired(@, n)]] \in Seq(InputTasks)
      <3>1. cl \in Seq(InputTasks)  BY <2>1 DEF cl
      <3>2. Len(cl) \in Nat /\ DOMAIN cl = 1..Len(cl)  BY <3>1
      <3> HIDE DEF InputTasks
      <3> QED BY <2>4, <3>2
    <2> QED BY <2>5 DEF cl
  <1> HIDE DEF part
  <1>2. [k \in DOMAIN tasks |-> part(k)] \in Seq(Seq(InputTasks))
    <2>1. Len(tasks) \in Nat /\ DOMAIN tasks = 1..Len(tasks)  OBVIOUS
    <2> HIDE DEF InputTasks
    <2> QED BY <1>1, <2>1
  <1>3. FlattenSeq([k \in DOMAIN tasks |-> part(k)]) \in Seq(InputTasks)  BY <1>2, FlattenType
  <1> QED BY <1>3 DEF part

LEMMA ResolutionTypes ==
    ASSUME NEW t \in InputTasks, recipe \in Recipes, defaults \in Defaults,
           DOMAIN recipe # {} => t.service \in DOMAIN recipe \cup {None}
    PROVE  FromDefaults(IF DOMAIN recipe = {} THEN t ELSE FromRecipe(t)) \in InputTasks
  <1>1. recipe \in [DOMAIN recipe -> CommandLines] /\ defaults \in CommandLines
    BY DeclarationAssumption
  <1>2. ASSUME NEW u \in InputTasks, NEW cs \in CommandLines
        PROVE  [u EXCEPT !.commands = cs] \in InputTasks
    <2> HIDE DEF CommandLines
    <2> QED BY DEF InputTasks
  <1>3. ASSUME NEW u \in InputTasks PROVE FromDefaults(u) \in InputTasks
    <2>1. u.commands \in CommandLines  BY DEF InputTasks
    <2>2. \A c \in Commands : u.commands[c] \in STRING /\ defaults[c] \in STRING
      BY <1>1, <2>1 DEF CommandLines
    <2> DEFINE fills(c) == \/ c = "test" /\ u.level = "unit"
                           \/ c = "integrationTest" /\ u.level = "integration"
               cs == [c \in Commands |-> IF u.commands[c] = None /\ fills(c)
                                         THEN defaults[c] ELSE u.commands[c]]
    <2>3. cs \in CommandLines
      <3> HIDE DEF fills
      <3> QED BY <2>2 DEF CommandLines
    <2>4. FromDefaults(u) = [u EXCEPT !.commands = cs]  BY Zenon DEF FromDefaults
    <2> HIDE DEF cs
    <2> QED BY <1>2, <2>3, <2>4
  <1>4. CASE DOMAIN recipe = {}  BY <1>3, <1>4
  <1>5. CASE DOMAIN recipe # {}
    <2>1. CASE ServiceOf(t) = None  BY <1>3, <1>5, <2>1 DEF FromRecipe
    <2>2. CASE ServiceOf(t) # None
      <3>1. ServiceOf(t) \in DOMAIN recipe
        <4>1. (CHOOSE s \in DOMAIN recipe : TRUE) \in DOMAIN recipe  BY <1>5, Zenon
        <4> QED BY <4>1, <1>5, <2>2, Zenon DEF ServiceOf
      <3>2. recipe[ServiceOf(t)] \in CommandLines  BY <1>1, <3>1
      <3>3. t.commands \in CommandLines  BY DEF InputTasks
      <3>4. [c \in Commands |-> IF t.commands[c] = None THEN recipe[ServiceOf(t)][c]
                                ELSE t.commands[c]] \in CommandLines
        <4>1. \A c \in Commands : t.commands[c] \in STRING /\ recipe[ServiceOf(t)][c] \in STRING
          BY <3>2, <3>3 DEF CommandLines
        <4> QED BY <4>1 DEF CommandLines
      <3>5. FromRecipe(t) \in InputTasks  BY <1>2, <3>4, <2>2 DEF FromRecipe
      <3> QED BY <3>5, <1>3, <1>5
    <2> QED BY <2>1, <2>2
  <1> QED BY <1>4, <1>5

-----------------------------------------------------------------------------
LEMMA DeclarationInitInv == DeclarationInit => DeclarationInv
  <1> SUFFICES ASSUME DeclarationInit PROVE DeclarationInv
    OBVIOUS
  <1>1. DeclarationTypeOK  BY DeclarationAssumption DEF DeclarationInit, DeclarationTypeOK
  <1>2. ~IsChecked /\ ~HasGraph /\ ~HasEnded
    BY DEF DeclarationInit, IsChecked, HasGraph, HasEnded
  <1> QED
    BY <1>1, <1>2 DEF DeclarationInv, GatedCanRun, LevelIsHighest, GateIsGiven, DeclaredAreLast,
                      EndIsDecided

\* As long as there is no graph, and nothing is checked, types are all that there is to keep.
LEMMA EarlyStep ==
    ASSUME DeclarationTypeOK', phase' \in {"template", "input", "resolved", "rejected"}
    PROVE  DeclarationInv'
  <1>1. ~IsChecked' /\ ~HasGraph' /\ ~HasEnded'  BY DEF IsChecked, HasGraph, HasEnded
  <1> QED
    BY <1>1, Zenon DEF DeclarationInv, GatedCanRun, LevelIsHighest, GateIsGiven,
                       DeclaredAreLast, EndIsDecided

LEMMA RefuseStep == DeclarationInv /\ Refuse => DeclarationInv'
  <1> SUFFICES ASSUME DeclarationInv, Refuse PROVE DeclarationInv'
    OBVIOUS
  <1>1. DeclarationTypeOK'  BY DEF DeclarationInv, DeclarationTypeOK, Refuse
  <1> QED BY <1>1, EarlyStep DEF Refuse

LEMMA ExpandStep == DeclarationInv /\ ExpandTemplate => DeclarationInv'
  <1> SUFFICES ASSUME DeclarationInv, ExpandTemplate PROVE DeclarationInv'
    OBVIOUS
  <1>1. CASE Refuse  BY <1>1, RefuseStep
  <1>2. CASE \E n \in ItemCounts :
                /\ tasks' = FlattenSeq([k \in DOMAIN tasks |->
                               [c \in DOMAIN Clones(tasks[k], n) |->
                                  [Clones(tasks[k], n)[c] EXCEPT !.deps = Rewired(@, n)]]])
                /\ phase' = "input" /\ UNCHANGED <<recipe, defaults>>
    <2>1. PICK n \in ItemCounts :
                /\ tasks' = FlattenSeq([k \in DOMAIN tasks |->
                               [c \in DOMAIN Clones(tasks[k], n) |->
                                  [Clones(tasks[k], n)[c] EXCEPT !.deps = Rewired(@, n)]]])
                /\ phase' = "input" /\ UNCHANGED <<recipe, defaults>>
      BY <1>2
    <2>2. n \in Nat  BY DeclarationAssumption
    <2>3. tasks' \in Seq(InputTasks)
      BY <2>1, <2>2, ExpansionTypes, Zenon DEF DeclarationInv, DeclarationTypeOK
    <2>4. DeclarationTypeOK'  BY <2>1, <2>3 DEF DeclarationInv, DeclarationTypeOK
    <2> QED BY <2>1, <2>4, EarlyStep
  <1> QED BY <1>1, <1>2, Zenon DEF ExpandTemplate

LEMMA ResolveStep == DeclarationInv /\ ResolveGraphInput => DeclarationInv'
  <1> SUFFICES ASSUME DeclarationInv, ResolveGraphInput PROVE DeclarationInv'
    OBVIOUS
  <1>0. tasks \in Seq(InputTasks) /\ recipe \in Recipes /\ defaults \in Defaults
    BY DEF DeclarationInv, DeclarationTypeOK
  <1>1. CASE Refuse  BY <1>1, RefuseStep
  <1>2. CASE ~Refuse
    <2> DEFINE resolved(k) == FromDefaults(IF DOMAIN recipe = {} THEN tasks[k] ELSE FromRecipe(tasks[k]))
    <2>1. /\ tasks' = [k \in DOMAIN tasks |-> resolved(k)]
          /\ phase' = "resolved" /\ UNCHANGED <<recipe, defaults>>
          /\ DOMAIN recipe # {} =>
                \A t \in ToSet(tasks) : t.service \in DOMAIN recipe \cup {None}
      BY <1>2, Zenon DEF ResolveGraphInput
    <2>2. ASSUME NEW k \in DOMAIN tasks PROVE resolved(k) \in InputTasks
      <3>1. tasks[k] \in InputTasks /\ tasks[k] \in ToSet(tasks)  BY <1>0 DEF ToSet
      <3> QED BY <1>0, <2>1, <3>1, ResolutionTypes
    <2> HIDE DEF resolved
    <2>3. tasks' \in Seq(InputTasks)
      <3>1. Len(tasks) \in Nat /\ DOMAIN tasks = 1..Len(tasks)  BY <1>0
      <3> QED BY <2>1, <2>2, <3>1
    <2>4. DeclarationTypeOK'  BY <1>0, <2>1, <2>3 DEF DeclarationTypeOK
    <2> QED BY <2>1, <2>4, EarlyStep
  <1> QED BY <1>1, <1>2

LEMMA CheckStep == DeclarationInv /\ CheckInput => DeclarationInv'
  <1> SUFFICES ASSUME DeclarationInv, CheckInput PROVE DeclarationInv'
    OBVIOUS
  <1>1. CASE Refuse  BY <1>1, RefuseStep
  <1>2. CASE ~Refuse
    <2>1. /\ ~HasUnresolvedValidationGate /\ ~HasValidationInstallGap
          /\ phase' = "checked" /\ UNCHANGED <<tasks, recipe, defaults>>
      BY <1>2 DEF CheckInput
    <2>2. DeclarationTypeOK'  BY <2>1 DEF DeclarationInv, DeclarationTypeOK
    <2>3. GatedCanRun'
      <3>1. \A t \in ToSet(tasks) : t.level # None => t.commands["test"] # None
        BY <2>1 DEF HasUnresolvedValidationGate
      <3>2. (\E t \in ToSet(tasks) : IsGated(t)) =>
               \E t \in ToSet(tasks) :
                   IsGated(t) /\ (t.commands["install"] # None \/ t.commands["test"] = "installs")
        <4> HIDE DEF IsGated
        <4> QED BY <2>1, Zenon DEF HasValidationInstallGap
      <3>3. tasks' = tasks  BY <2>1
      <3> QED BY <3>1, <3>2, <3>3, Zenon DEF GatedCanRun, IsGated
    <2>4. ~HasGraph' /\ ~HasEnded'  BY <2>1 DEF HasGraph, HasEnded
    <2> QED
      BY <2>2, <2>3, <2>4, Zenon DEF DeclarationInv, LevelIsHighest, GateIsGiven,
                                     DeclaredAreLast, EndIsDecided
  <1> QED BY <1>1, <1>2

LEMMA DeclareStep == DeclarationInv /\ DeclareGraph => DeclarationInv'
  <1> SUFFICES ASSUME DeclarationInv, DeclareGraph PROVE DeclarationInv'
    OBVIOUS
  <1>1. CASE Refuse  BY <1>1, RefuseStep
  <1>2. CASE ~Refuse
    <2>1. /\ phase = "checked" /\ ValidateGraphInput /\ phase' = "active"
          /\ level' = MaxValidationLevel /\ gate' = Aggregated
          /\ declared' = LastOnes
          /\ tasks' = tasks /\ recipe' = recipe /\ defaults' = defaults /\ criteria' = criteria
      BY <1>2, Zenon DEF DeclareGraph, LastOnes
    <2>2. tasks \in Seq(InputTasks)  BY DEF DeclarationInv, DeclarationTypeOK
    <2>3. DeclarationTypeOK'  BY <2>1 DEF DeclarationInv, DeclarationTypeOK
    <2>4. GatedCanRun'
      <3>1. IsChecked  BY <2>1 DEF IsChecked
      <3> QED BY <3>1, <2>1, Zenon DEF DeclarationInv, GatedCanRun, IsGated
    <2>5. LevelIsHighest'
      <3>1. level' \in DOMAIN Priority /\ \A t \in ToSet(tasks) : Priority[t.level] <= Priority[level']
        BY <2>1, <2>2, HighestLevel
      <3>2. level' \in {"unit", "integration"} => "agent" \notin criteria
        BY <2>1 DEF ValidateGraphInput, Priority
      <3> QED BY <3>1, <3>2, <2>1, Zenon DEF LevelIsHighest
    <2>6. GateIsGiven'
      <3>1. \A c \in Commands : Aggregated[c] = FirstCommand(c, Wanted(c))
        BY DEF Aggregated, Commands, Wanted
      <3>2. \A c \in Commands :
               IF Givers(c) = {} THEN gate'[c] = None
               ELSE \E t \in Givers(c) : gate'[c] = t.commands[c]
        BY <2>1, <2>2, <3>1, FirstCommandIs
      <3>3. \A c \in Commands : Givers(c)' = Givers(c)  BY <2>1 DEF Givers
      <3> QED BY <3>2, <3>3, Zenon DEF GateIsGiven
    <2>7. DeclaredAreLast'
      <3>1. \A t \in ToSet(tasks) : t.deps \subseteq Ids
        BY <2>1 DEF ValidateGraphInput, ValidateDAG
      <3>2. ASSUME NEW C \in (SUBSET Ids) \ {{}}
            PROVE  \E i \in C : \A t \in ToSet(tasks) : t.id = i => t.deps \cap C = {}
        <4> SUFFICES ASSUME \A i \in C : \E t \in ToSet(tasks) : t.id = i /\ t.deps \cap C # {}
                     PROVE  FALSE
          OBVIOUS
        <4>1. Visited \cap C = {}  BY <2>2, CirclesAreNotVisited
        <4>2. Visited = Ids  BY <2>1 DEF ValidateGraphInput, ValidateDAG
        <4> QED BY <4>1, <4>2
      <3>3. Ids' = Ids /\ ToSet(tasks)' = ToSet(tasks) /\ LastOnes' = LastOnes
        BY <2>1 DEF Ids, LastOnes
      <3> QED BY <2>1, <3>1, <3>2, <3>3, Zenon DEF DeclaredAreLast
    <2>8. EndIsDecided'  BY <2>1 DEF EndIsDecided, HasEnded
    <2> QED BY <2>3, <2>4, <2>5, <2>6, <2>7, <2>8 DEF DeclarationInv
  <1> QED BY <1>1, <1>2

LEMMA CompleteStep == DeclarationInv /\ CompleteGraph => DeclarationInv'
  <1> SUFFICES ASSUME DeclarationInv, CompleteGraph PROVE DeclarationInv'
    OBVIOUS
  <1>1. /\ HasGraph /\ IsChecked
        /\ criteria' = criteria \cup (IF GateTest # None THEN {"exec"} ELSE {})
        /\ phase' = IF level \in {"unit", "integration"} /\ "exec" \notin criteria'
                    THEN "no runnable command" ELSE "judged"
        /\ tasks' = tasks /\ recipe' = recipe /\ defaults' = defaults
        /\ level' = level /\ gate' = gate /\ declared' = declared
    BY DEF CompleteGraph, HasGraph, IsChecked
  <1>2. DeclarationTypeOK'  BY <1>1 DEF DeclarationInv, DeclarationTypeOK
  <1>3. GatedCanRun'  BY <1>1, Zenon DEF DeclarationInv, GatedCanRun, IsGated
  <1>4. LevelIsHighest'
    <2>1. "agent" \notin criteria => "agent" \notin criteria'  BY <1>1
    <2> QED BY <1>1, <2>1, Zenon DEF DeclarationInv, LevelIsHighest
  <1>5. GateIsGiven'
    <2>1. \A c \in Commands : Givers(c)' = Givers(c)  BY <1>1 DEF Givers
    <2> QED BY <1>1, <2>1, Zenon DEF DeclarationInv, GateIsGiven
  <1>6. DeclaredAreLast'
    <2>1. Ids' = Ids /\ ToSet(tasks)' = ToSet(tasks) /\ LastOnes' = LastOnes
      BY <1>1 DEF Ids, LastOnes
    <2> QED BY <1>1, <2>1, Zenon DEF DeclarationInv, DeclaredAreLast
  <1>7. EndIsDecided'
    <2>1. GateTest' = GateTest  BY <1>1 DEF GateTest
    <2> QED BY <1>1, <2>1 DEF EndIsDecided
  <1> QED BY <1>2, <1>3, <1>4, <1>5, <1>6, <1>7 DEF DeclarationInv

LEMMA DeclarationInvHolds == DeclarationSpec => []DeclarationInv
  <1>1. DeclarationInit => DeclarationInv  BY DeclarationInitInv
  <1>2. DeclarationInv /\ [DeclarationNext]_declarationVars => DeclarationInv'
    <2> SUFFICES ASSUME DeclarationInv, [DeclarationNext]_declarationVars PROVE DeclarationInv'
      OBVIOUS
    <2>1. CASE DeclarationNext
      BY <2>1, ExpandStep, ResolveStep, CheckStep, DeclareStep, CompleteStep DEF DeclarationNext
    <2>2. CASE UNCHANGED declarationVars
      <3>1. /\ tasks' = tasks /\ recipe' = recipe /\ defaults' = defaults /\ criteria' = criteria
            /\ phase' = phase /\ level' = level /\ gate' = gate /\ declared' = declared
        BY <2>2 DEF declarationVars
      <3>2. IsChecked' = IsChecked /\ HasGraph' = HasGraph /\ HasEnded' = HasEnded
        BY <3>1 DEF IsChecked, HasGraph, HasEnded
      <3>3. Ids' = Ids /\ LastOnes' = LastOnes /\ GateTest' = GateTest
        BY <3>1 DEF Ids, LastOnes, GateTest
      <3>4. \A c \in Commands : Givers(c)' = Givers(c)  BY <3>1 DEF Givers
      <3>5. DeclarationTypeOK'  BY <3>1 DEF DeclarationInv, DeclarationTypeOK
      <3>6. GatedCanRun'  BY <3>1, <3>2, Zenon DEF DeclarationInv, GatedCanRun, IsGated
      <3>7. LevelIsHighest'  BY <3>1, <3>2, Zenon DEF DeclarationInv, LevelIsHighest
      <3>8. GateIsGiven'  BY <3>1, <3>2, <3>4, Zenon DEF DeclarationInv, GateIsGiven
      <3>9. DeclaredAreLast'  BY <3>1, <3>2, <3>3, Zenon DEF DeclarationInv, DeclaredAreLast
      <3>10. EndIsDecided'  BY <3>1, <3>2, <3>3, Zenon DEF DeclarationInv, EndIsDecided
      <3> QED BY <3>5, <3>6, <3>7, <3>8, <3>9, <3>10 DEF DeclarationInv
    <2> QED BY <2>1, <2>2
  <1> QED BY <1>1, <1>2, PTL DEF DeclarationSpec

\* The last task of an id is among those declared.
LEMMA LastOfAnId ==
    ASSUME tasks \in Seq(InputTasks)
    PROVE  {t.id : t \in LastOnes} = Ids /\ LastOnes \subseteq ToSet(tasks)
  <1>1. LastOnes \subseteq ToSet(tasks)  BY DEF LastOnes, ToSet
  <1>2. ASSUME NEW i \in Ids PROVE \E t \in LastOnes : t.id = i
    <2> DEFINE len == Len(tasks)
               From == {n \in Nat : \E k \in DOMAIN tasks : tasks[k].id = i /\ n = len - k}
    <2>1. len \in Nat /\ DOMAIN tasks = 1..len  OBVIOUS
    <2> HIDE DEF len
    <2>2. From # {}
      <3>1. PICK k \in DOMAIN tasks : tasks[k].id = i  BY DEF Ids, ToSet
      <3>2. len - k \in Nat  BY <2>1
      <3> QED BY <3>1, <3>2
    <2>3. PICK m \in From : \A n \in From : m <= n
      <3>1. From \in SUBSET Nat  OBVIOUS
      <3> HIDE DEF From
      <3> QED BY <3>1, <2>2, LeastOf
    <2>4. PICK k \in DOMAIN tasks : tasks[k].id = i /\ m = len - k  OBVIOUS
    <2>5. ASSUME NEW j \in DOMAIN tasks, j > k PROVE tasks[j].id # tasks[k].id
      <3> SUFFICES ASSUME tasks[j].id = i PROVE FALSE
        BY <2>4
      <3>1. len - j \in From  BY <2>1
      <3>2. m <= len - j  BY <3>1, <2>3
      <3> QED BY <3>2, <2>4, <2>5, <2>1
    <2>6. tasks[k] \in LastOnes  BY <2>4, <2>5 DEF LastOnes
    <2> QED BY <2>4, <2>6
  <1>3. \A t \in LastOnes : t.id \in Ids  BY <1>1 DEF Ids
  <1> QED BY <1>1, <1>2, <1>3

\* Tasks that have an id each are all declared.
LEMMA OneEachAreAll ==
    ASSUME tasks \in Seq(InputTasks), OneEach
    PROVE  LastOnes = ToSet(tasks) /\ Cardinality(LastOnes) = Len(tasks)
  <1> DEFINE len == Len(tasks)
             ids == [k \in 1..len |-> tasks[k].id]
  <1>1. len \in Nat /\ DOMAIN tasks = 1..len  OBVIOUS
  <1>2. IsFiniteSet(1..len) /\ Cardinality(1..len) = len
    <2> HIDE DEF len
    <2> QED BY <1>1, FS_Interval
  <1>3. Ids = {tasks[k].id : k \in 1..len}  BY <1>1 DEF Ids, ToSet
  <1>4. ids \in Surjection(1..len, Ids)
    <2> HIDE DEF len
    <2> QED BY <1>3 DEF Surjection
  <1>5. ids \in Injection(1..len, Ids)
    <2>1. Cardinality(Ids) = Cardinality(1..len)  BY <1>2 DEF OneEach
    <2> HIDE DEF ids, len
    <2> QED BY <1>2, <1>4, <2>1, FS_Surjection
  <1>6. \A j, k \in 1..len : tasks[j].id = tasks[k].id => j = k
    <2>1. \A j, k \in 1..len : ids[j] = ids[k] => j = k  BY <1>5, Zenon DEF Injection, IsInjective
    <2> QED BY <2>1
  <1>7. LastOnes = ToSet(tasks)
    <2>1. \A j, k \in DOMAIN tasks : j > k => tasks[j].id # tasks[k].id
      <3> HIDE DEF len, ids
      <3> QED BY <1>1, <1>6
    <2> QED BY <2>1, Zenon DEF LastOnes, ToSet
  <1>8. Cardinality(ToSet(tasks)) = len
    <2> DEFINE at == [k \in 1..len |-> tasks[k]]
    <2>1. at \in Surjection(1..len, ToSet(tasks))
      <3>1. ToSet(tasks) = {tasks[k] : k \in 1..len}  BY <1>1 DEF ToSet
      <3> HIDE DEF len
      <3> QED BY <3>1 DEF Surjection
    <2>2. at \in Injection(1..len, ToSet(tasks))
      <3>1. \A j, k \in 1..len : at[j] = at[k] => j = k
        <4> HIDE DEF len, ids
        <4> QED BY <1>6
      <3> HIDE DEF at, len
      <3> QED BY <2>1, <3>1 DEF Surjection, Injection, IsInjective
    <2> HIDE DEF at, len
    <2> QED BY <1>2, <2>1, <2>2, FS_Surjection
  <1> QED BY <1>7, <1>8

LEMMA AcceptedNoCircle ==
    ASSUME DeclarationInv, HasEnded
    PROVE  (\A t \in declared : t.deps \subseteq {u.id : u \in declared}) /\ NoCircle
  <1>1. tasks \in Seq(InputTasks) /\ HasGraph
    BY DEF DeclarationInv, DeclarationTypeOK, HasGraph
  <1>2. declared = LastOnes
    BY <1>1 DEF DeclarationInv, DeclaredAreLast
  <1>3. {u.id : u \in declared} = Ids /\ declared \subseteq ToSet(tasks)
    BY <1>1, <1>2, LastOfAnId
  <1>4. \A t \in ToSet(tasks) : t.deps \subseteq Ids
    BY <1>1 DEF DeclarationInv, DeclaredAreLast
  <1>5. ASSUME NEW C \in (SUBSET {t.id : t \in declared}) \ {{}}
        PROVE  \E t \in declared : t.id \in C /\ t.deps \cap C = {}
    <2>1. C \in (SUBSET Ids) \ {{}}  BY <1>3
    <2>2. PICK i \in C : \A t \in ToSet(tasks) : t.id = i => t.deps \cap C = {}
      BY <2>1, <1>1, Zenon DEF DeclarationInv, DeclaredAreLast
    <2>3. PICK t \in declared : t.id = i  BY <1>3, <2>1
    <2> QED BY <2>2, <2>3, <1>3
  <1> QED BY <1>3, <1>4, <1>5 DEF NoCircle

LEMMA AcceptedIsGated ==
    ASSUME DeclarationInv, HasEnded, OneEach
    PROVE  /\ Cardinality(declared) = Len(tasks)
           /\ Gated # {} =>
                 /\ phase = "judged" /\ "agent" \notin criteria /\ GateTest # None
                 /\ \E t \in Gated : GateTest \in {t.commands["test"], t.commands["integrationTest"]}
                 /\ (\E t \in Gated : t.commands["install"] # None) => gate.install # None
                 /\ gate.install = None => \E t \in Gated : t.commands["test"] = "installs"
  <1>1. tasks \in Seq(InputTasks) /\ HasGraph /\ IsChecked
    BY DEF DeclarationInv, DeclarationTypeOK, HasGraph, IsChecked
  <1>2. declared = ToSet(tasks) /\ Cardinality(declared) = Len(tasks)
    BY <1>1, OneEachAreAll DEF DeclarationInv, DeclaredAreLast
  <1>3. SUFFICES ASSUME NEW g \in Gated
        PROVE  /\ phase = "judged" /\ "agent" \notin criteria /\ GateTest # None
               /\ \E t \in Gated : GateTest \in {t.commands["test"], t.commands["integrationTest"]}
               /\ (\E t \in Gated : t.commands["install"] # None) => gate.install # None
               /\ gate.install = None => \E t \in Gated : t.commands["test"] = "installs"
    BY <1>2
  <1>4. g \in ToSet(tasks) /\ Priority[g.level] >= 2 /\ g.level \in DOMAIN Priority
    <2>1. g \in ToSet(tasks) /\ IsGated(g)  BY <1>2 DEF Gated
    <2>2. g \in InputTasks  BY <2>1, <1>1 DEF ToSet
    <2> QED BY <2>1, <2>2 DEF IsGated, InputTasks
  <1>5. g.level \in {"unit", "integration"}  BY <1>4 DEF Priority
  <1>6. level \in {"unit", "integration"} /\ (g.level = "integration" => level = "integration")
    <2>1. level \in DOMAIN Priority /\ Priority[g.level] <= Priority[level]
      <3>1. tasks # <<>>  BY <1>4, <1>1 DEF ToSet
      <3> QED BY <1>1, <1>4, <3>1 DEF DeclarationInv, LevelIsHighest
    <2> QED BY <2>1, <1>4, <1>5 DEF Priority
  <1>7. "agent" \notin criteria  BY <1>1, <1>6 DEF DeclarationInv, LevelIsHighest
  <1>8. \A c \in Commands :
           IF Givers(c) = {} THEN gate[c] = None ELSE \E t \in Givers(c) : gate[c] = t.commands[c]
    BY <1>1 DEF DeclarationInv, GateIsGiven
  <1>9. \A c \in Commands : Givers(c) \subseteq Gated /\ \A t \in Givers(c) : t.commands[c] # None
    <2>1. ASSUME NEW c \in Commands, NEW t \in Givers(c)
          PROVE  t \in Gated /\ t.commands[c] # None
      <3>1. t \in InputTasks  BY <1>1 DEF ToSet, Givers
      <3>2. Priority[t.level] \in Nat  BY <3>1 DEF InputTasks, Priority
      <3>3. Priority[t.level] >= Wanted(c) /\ t.commands[c] # None /\ t \in ToSet(tasks)
        BY DEF Givers
      <3>4. Priority[t.level] >= 2  BY <3>2, <3>3 DEF Wanted
      <3> QED BY <1>2, <3>3, <3>4 DEF Gated, IsGated
    <2> QED BY <2>1
  <1>10. \A c \in {"install", "test"} : \A t \in Gated : t.commands[c] # None => t \in Givers(c)
    BY <1>2 DEF Givers, Gated, IsGated, Wanted
  <1>11. \E t \in Givers("test") : gate["test"] = t.commands["test"]
    <2>1. g.commands["test"] # None
      BY <1>1, <1>4, <1>5 DEF DeclarationInv, GatedCanRun, None
    <2>2. g \in Givers("test")  BY <2>1, <1>10
    <2> QED BY <2>2, <1>8 DEF Commands
  <1>12. /\ GateTest # None
         /\ \E t \in Gated : GateTest \in {t.commands["test"], t.commands["integrationTest"]}
    <2>1. CASE level = "integration" /\ gate.integrationTest # None
      <3>1. \E t \in Givers("integrationTest") : gate["integrationTest"] = t.commands["integrationTest"]
        BY <2>1, <1>8 DEF Commands
      <3>2. GateTest = gate["integrationTest"]  BY <2>1 DEF GateTest
      <3> QED BY <3>1, <3>2, <1>9 DEF Commands
    <2>2. CASE ~(level = "integration" /\ gate.integrationTest # None)
      <3>1. GateTest = gate["test"]  BY <2>2, <1>6 DEF GateTest
      <3> QED BY <3>1, <1>11, <1>9 DEF Commands
    <2> QED BY <2>1, <2>2
  <1>13. phase = "judged"  BY <1>12 DEF DeclarationInv, EndIsDecided
  <1>14. (\E t \in Gated : t.commands["install"] # None) => gate.install # None
    BY <1>8, <1>9, <1>10 DEF Commands
  <1>15. gate.install = None => \E t \in Gated : t.commands["test"] = "installs"
    <2>1. \E t \in Gated : t.commands["install"] # None \/ t.commands["test"] = "installs"
      <3>1. IsGated(g) /\ g \in ToSet(tasks)  BY <1>4 DEF IsGated
      <3> QED BY <3>1, <1>1, <1>2, Zenon DEF DeclarationInv, GatedCanRun, Gated
    <2> QED BY <2>1, <1>14
  <1> QED BY <1>7, <1>12, <1>13, <1>14, <1>15

\* What has been accepted can be run and is judged as it was asked to be, for any input, any
\* recipes, defaults and criteria and any number of items: what declare_task_graph and
\* use_template refuse suffices for what declareGraph and checkGraphCompletion make of the rest.
THEOREM AcceptedAreJudged == DeclarationSpec => []AcceptedIsJudged
  <1>1. DeclarationInv => AcceptedIsJudged
    <2> SUFFICES ASSUME DeclarationInv, HasEnded PROVE AcceptedIsJudged
      BY DEF AcceptedIsJudged, HasEnded
    <2> QED BY AcceptedNoCircle, AcceptedIsGated DEF AcceptedIsJudged
  <1> QED BY <1>1, DeclarationInvHolds, PTL
=============================================================================
