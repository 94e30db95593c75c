---------------------------- MODULE FixIntegrity ----------------------------
(***************************************************************************)
(* May the commits of the fix agents be promoted?  The integration branch  *)
(* over the rounds of a rework (enterReworkRound and resumeReworkRound of  *)
(* task-graph.ts), what the gate sees of it (validation-preflight.ts,      *)
(* coverage/checkers.ts), and the guard that compares it with what it was  *)
(* before the first round (rework/fix-integrity.ts, rework/sha-pin.ts).    *)
(*                                                                         *)
(* Rework models the rounds, their claims and their children; here the     *)
(* drives of a graph are one at a time and the commits have contents.      *)
(***************************************************************************)
EXTENDS Naturals, Sequences

CONSTANTS
    TestFiles,      \* the test files of the branch when the gate first fails
    LanguageOf,     \* a test file's language
    FailingTest,    \* the one whose tests find the bug
    MaxRounds,      \* the budget of attempts
    MaxCommits,     \* bound: commits
    MaxReadFailures \* bound: git commands that fail

Languages == {"node", "python", "dotnet"}

ASSUME IntegrityAssumption ==
    /\ FailingTest \in TestFiles /\ LanguageOf \in [TestFiles -> Languages]
    /\ {MaxRounds, MaxCommits, MaxReadFailures} \subseteq Nat

\* What may have become of a test file: its tests run, are marked as skipped, are cut out of it
\* or are muted (their assertions are); the file is deleted, or renamed.
Fates == {"runs", "skipped", "cut", "muted", "deleted", "renamed"}

\* A commit is its number in trees, and Unknown what a failed read of one returns.
Unknown == 0

VARIABLES
    gateKind,   \* what the gate runs: the suite, named files, or coverage ids of all files
    toolchain,  \* the graph's
    trees,      \* the commits of the branch: test file -> fate, and whether the bug is fixed
    stage,      \* where the round is
    round,      \* currentRound.attempt
    startHead, baselineHead, revalidationHead, \* of currentRound
    judged,     \* the commit that the gate's children have cloned
    readFailures,
    blind       \* history: a read that the guard relies on has failed

branchVars == <<trees>>
roundVars == <<stage, round, startHead, baselineHead, revalidationHead, judged>>
integrityVars == <<gateKind, toolchain, branchVars, roundVars, readFailures, blind>>

BranchHead == Len(trees)

IntegrityInit ==
    /\ gateKind \in {"suite", "files", "coverage"}
    /\ toolchain \in {"node", "dotnet", "other"}
    /\ trees = <<[fate |-> [f \in TestFiles |-> "runs"], fixed |-> FALSE]>>
    /\ stage = "rejected" /\ round = 0
    /\ startHead = Unknown /\ baselineHead = Unknown /\ revalidationHead = Unknown
    /\ judged = Unknown /\ readFailures = 0 /\ blind = FALSE

\* A read of the branch's head, or of the difference of two commits, may fail.
Read(fails) ==
    /\ fails => readFailures < MaxReadFailures
    /\ readFailures' = IF fails THEN readFailures + 1 ELSE readFailures

-----------------------------------------------------------------------------
(* The branch and the gate *)

Commit ==
    /\ stage \in {"fixing", "judging", "judged"} /\ Len(trees) <= MaxCommits
    /\ LET tree == trees[BranchHead]
       IN  \/ ~tree.fixed /\ trees' = Append(trees, [tree EXCEPT !.fixed = TRUE])
           \/ \E f \in TestFiles : \E fate \in Fates \ {tree.fate[f]} :
                 trees' = Append(trees, [tree EXCEPT !.fate[f] = fate])
    /\ UNCHANGED <<gateKind, toolchain, roundVars, readFailures, blind>>

\* The named files, but dotnet's, must exist before they run; the tests of the coverage ids must
\* have run.
Passes(tree) ==
    /\ tree.fixed \/ tree.fate[FailingTest] # "runs"
    /\ gateKind = "files" => \A f \in TestFiles :
          LanguageOf[f] # "dotnet" => tree.fate[f] \notin {"deleted", "renamed"}
    /\ gateKind = "coverage" => \A f \in TestFiles : tree.fate[f] \in {"runs", "muted"}

-----------------------------------------------------------------------------
(* The guard *)

\* git's name and status of the test files that differ.
NameStatus(from, to) ==
    {[file |-> f,
      status |-> IF to.fate[f] \in {"deleted", "renamed"} THEN to.fate[f]
                 ELSE IF from.fate[f] \in {"deleted", "renamed"} THEN "added" ELSE "modified"] :
        f \in {g \in TestFiles : from.fate[g] # to.fate[g]}}

\* The markers that are looked for are those of the graph's toolchain.
AddsSkipMarker(entry, to) ==
    /\ toolchain \in Languages /\ toolchain = LanguageOf[entry.file]
    /\ entry.status \in {"added", "modified"}
    /\ to.fate[entry.file] = "skipped"

\* Only a dotnet test has an attribute line whose loss shows.
RemovesAttributes(entry, to) ==
    /\ toolchain = "dotnet" /\ LanguageOf[entry.file] = "dotnet"
    /\ entry.status = "modified"
    /\ to.fate[entry.file] = "cut"

ClassifyDiffShape(from, to) ==
    \A entry \in NameStatus(from, to) :
        /\ entry.status \notin {"deleted", "renamed"}
        /\ ~AddsSkipMarker(entry, to)
        /\ ~RemovesAttributes(entry, to)

\* A range with an unknown end, or a difference that cannot be read, lets the fix pass.
EvaluateFixIntegrity(from, to, unreadable) ==
    from = Unknown \/ to = Unknown \/ unreadable \/ ClassifyDiffShape(trees[from], trees[to])

\* A pin that was to be read and was not is refused; the live head, when it cannot be read, is
\* taken to be the pin.
CheckHeadPin(pin, live) == pin # Unknown /\ (live = Unknown \/ live = pin)

-----------------------------------------------------------------------------
(* The rounds *)

\* Mutant: each round has its own baseline.
Baseline_OfRound(start) == start

\* The baseline is read once, before the first round's fix, and kept when it is unknown.
Baseline(start) == IF round = 0 THEN start ELSE baselineHead

EnterReworkRound ==
    /\ stage = "rejected" /\ round < MaxRounds
    /\ \E fails \in BOOLEAN :
          /\ Read(fails)
          /\ LET start == IF fails THEN Unknown ELSE BranchHead
             IN  startHead' = start /\ baselineHead' = Baseline(start)
          /\ blind' = (blind \/ (fails /\ round = 0))
    /\ round' = round + 1 /\ stage' = "fixing"
    /\ UNCHANGED <<gateKind, toolchain, branchVars, revalidationHead, judged>>

\* The fix agent has ended.  A head that has not moved is not judged again.
DispatchRevalidation ==
    /\ stage = "fixing"
    /\ \E fails \in BOOLEAN :
          /\ Read(fails)
          /\ revalidationHead' = IF fails THEN Unknown ELSE BranchHead
          /\ stage' = IF startHead # Unknown /\ revalidationHead' = startHead
                      THEN "failed" ELSE "judging"
    /\ UNCHANGED <<gateKind, toolchain, branchVars, round, startHead, baselineHead, judged, blind>>

FixFails ==
    /\ stage = "fixing" /\ stage' = "failed"
    /\ UNCHANGED <<gateKind, toolchain, branchVars, round, startHead, baselineHead,
                   revalidationHead, judged, readFailures, blind>>

\* The children clone the branch as it is by then.
Revalidate ==
    /\ stage = "judging"
    /\ judged' = BranchHead /\ stage' = "judged"
    /\ UNCHANGED <<gateKind, toolchain, branchVars, round, startHead, baselineHead,
                   revalidationHead, readFailures, blind>>

\* Only a reason that a fix may cure opens the next round.
Reject ==
    /\ stage = "judged" /\ ~Passes(trees[judged])
    /\ \/ round < MaxRounds /\ stage' = "rejected"
       \/ stage' = "failed"
    /\ UNCHANGED <<gateKind, toolchain, branchVars, round, startHead, baselineHead,
                   revalidationHead, judged, readFailures, blind>>

\* The guard reads the difference, then the live head is compared with the pin.
ResolveRound ==
    /\ stage = "judged" /\ Passes(trees[judged])
    /\ \E fails \in {"none", "diff", "head"} :
          /\ Read(fails # "none")
          /\ stage' =
                IF /\ EvaluateFixIntegrity(baselineHead, revalidationHead, fails = "diff")
                   /\ CheckHeadPin(revalidationHead, IF fails = "head" THEN Unknown ELSE BranchHead)
                THEN "promoted" ELSE "failed"
          /\ blind' = (blind \/ fails # "none")
    /\ UNCHANGED <<gateKind, toolchain, branchVars, round, startHead, baselineHead,
                   revalidationHead, judged>>

IntegrityNext ==
    \/ Commit \/ EnterReworkRound \/ DispatchRevalidation \/ FixFails
    \/ Revalidate \/ Reject \/ ResolveRound

-----------------------------------------------------------------------------
(* Properties *)

\* What the guard cannot see, by its own account: tests that are muted, tests cut from a file
\* of another language than dotnet, and markers of a language that is not the graph's.
Gap(f, fate) ==
    \/ fate = "muted"
    \/ fate = "cut" /\ {toolchain, LanguageOf[f]} # {"dotnet"}
    \/ fate = "skipped" /\ toolchain # LanguageOf[f]

\* No fix is promoted that has passed the gate by losing a test, in whatever round it was lost
\* and whatever else the commits do: each test that ran before the rework still runs.  Excused
\* are the guard's gaps and its blindness when git fails, and neither where the gate itself
\* counts the tests.
NoTestIsLost ==
    stage = "promoted" =>
        \A f \in TestFiles :
            LET fate == trees[BranchHead].fate[f]
            IN  fate # "runs" =>
                  /\ blind \/ Gap(f, fate)
                  /\ (gateKind = "coverage" /\ BranchHead = judged) => fate = "muted"
=============================================================================
