----------------------------- MODULE Interrogation -----------------------------
(***************************************************************************)
(* The health sweep of the leading engine over the workers it tracks, one  *)
(* task (health-sweep.ts, section 1; interrogator.ts): a worker that runs  *)
(* for long is judged by the tail of its transcript, hinted at when it     *)
(* seems stuck, killed when it still does after that, and killed anyhow    *)
(* past its timeout.  The flags that pace this are keys in Redis, which    *)
(* expire, and they are the task's: its attempts share them.               *)
(*                                                                         *)
(* Time is counted in sweeps.  Nothing is killed but through the handle of *)
(* the session, and a killed session stays tracked: its exit is not seen.  *)
(***************************************************************************)
EXTENDS Naturals, FiniteSets

CONSTANTS
    InterrogateAfter, Timeout, \* of the task, 0.4 of its timeout unless declared
    Debounce, HintTtl,         \* expiry of the flags: 900 s and 1800 s
    Transcripts,               \* what the tail may look like
    MaxWorkers, MaxMishaps     \* bounds: attempts, failures of the calls made

ASSUME InterrogationAssumption ==
    /\ {InterrogateAfter, Timeout, HintTtl, MaxMishaps} \subseteq Nat
    /\ {Debounce, MaxWorkers} \subseteq Nat \ {0}
    /\ InterrogateAfter < Timeout /\ Debounce < HintTtl

VARIABLES
    current,    \* number of the current attempt
    up,         \* its worker runs
    entries,    \* attempts tracked by the process monitor
    handles,    \* attempts whose session has a spawn handle
    age,        \* attempt -> sweeps since it was spawned
    tail,       \* the tail of the transcript the task's record names
    debounce, hintedKey,  \* sweeps until the flags expire
    toSweep, sweepBegun,       \* entries this sweep has yet to see; it has begun
    mishaps,              \* failures used up
    hinted,     \* history: the attempt last hinted at, and how long ago (0: none)
    stopped,    \* history: the early kills, [attempt, hinted, since]
    stuckFor,   \* history: sweeps for which the worker has been judgeable and stuck
    hampered    \* history: a call failed, or a transcript could not be read

interrogationVars == <<current, up, entries, handles, age, tail, debounce, hintedKey, toSweep,
                       sweepBegun, mishaps, hinted, stopped, stuckFor, hampered>>

InterrogationInit ==
    /\ current = 1 /\ up = TRUE /\ entries = {1} /\ handles = {1}
    /\ age = [n \in 1..MaxWorkers |-> 0] /\ tail \in Transcripts
    /\ debounce = 0 /\ hintedKey = 0 /\ toSweep = {} /\ sweepBegun = FALSE /\ mishaps = 0
    /\ hinted = [attempt |-> 0, since |-> 0] /\ stopped = {} /\ stuckFor = 0 /\ hampered = FALSE

\* Two signals of three are a confident verdict, edits or not.
Signals(t) ==
    {s \in {"repetition", "noNewEdits", "repeatedErrors"} :
        \/ s = "repetition" /\ t.repeats
        \/ s = "noNewEdits" /\ t.calls >= 3 /\ ~t.edits
        \/ s = "repeatedErrors" /\ t.errors}

Verdict(t) ==
    IF Cardinality(Signals(t)) >= 2 THEN "stuck"
    ELSE IF t.edits \/ (t.calls >= 3 /\ Signals(t) = {}) THEN "productive" ELSE "uncertain"

\* Nothing is said of a transcript in which no tool was called.
InterrogateTranscript(t) == IF t.calls > 0 THEN Verdict(t) ELSE "uncertain"

Stuck == InterrogateTranscript(tail) = "stuck"
Judgeable(n) == age[n] > InterrogateAfter /\ age[n] <= Timeout

-----------------------------------------------------------------------------
(* The sweep *)

Later(k, bound) == IF k < bound THEN k + 1 ELSE k
Sooner(k) == IF k > 0 THEN k - 1 ELSE 0

\* The next sweep is due; each takes less than the time between two.
Tick ==
    /\ sweepBegun /\ toSweep = {} /\ sweepBegun' = FALSE
    /\ age' = [n \in DOMAIN age |-> IF n <= current THEN Later(age[n], Timeout + 2) ELSE 0]
    /\ debounce' = Sooner(debounce) /\ hintedKey' = Sooner(hintedKey)
    /\ hinted' = [hinted EXCEPT !.since = Later(@, HintTtl)]
    /\ stuckFor' = IF up /\ Stuck /\ Judgeable(current) THEN Later(stuckFor, Timeout) ELSE 0
    /\ UNCHANGED <<current, up, entries, handles, tail, toSweep, mishaps, stopped, hampered>>

StartSweep ==
    /\ ~sweepBegun /\ sweepBegun' = TRUE /\ toSweep' = entries
    /\ UNCHANGED <<current, up, entries, handles, age, tail, debounce, hintedKey, mishaps, hinted,
                   stopped, stuckFor, hampered>>

Mishap == mishaps < MaxMishaps /\ mishaps' = mishaps + 1 /\ hampered' = TRUE
NoMishap == UNCHANGED <<mishaps, hampered>>

\* The Job is deleted; that may fail, for good.
DeleteJob == (up' = FALSE /\ NoMishap) \/ (UNCHANGED up /\ Mishap)

KillSession(n) == handles' = handles \ {n}

\* killWorker: without a handle nothing happens.
StopWorker(n) ==
    /\ KillSession(n)
    /\ IF up /\ n = current /\ n \in handles THEN DeleteJob ELSE UNCHANGED up /\ NoMishap

\* What is still to be hinted at is killed at once.
Hint_Kill(n) ==
    /\ StopWorker(n) /\ UNCHANGED <<hintedKey, hinted>>
    /\ stopped' = stopped \cup {[attempt |-> n, hinted |-> hinted.attempt, since |-> hinted.since]}

\* The directive goes to the task, so to the current attempt; if that fails, the flag is set all
\* the same.
Hint(n) ==
    /\ hintedKey' = HintTtl
    /\ \/ hinted' = [attempt |-> current, since |-> 0] /\ NoMishap
       \/ UNCHANGED hinted /\ Mishap
    /\ UNCHANGED <<up, handles, stopped>>

\* The second verdict kills.
EarlyKill(n) ==
    /\ StopWorker(n)
    /\ stopped' = stopped \cup
          (IF up /\ n = current /\ n \in handles
           THEN {[attempt |-> n, hinted |-> hinted.attempt, since |-> hinted.since]} ELSE {})
    /\ UNCHANGED <<hintedKey, hinted>>

TimeOut(n) ==
    age[n] > Timeout /\ StopWorker(n) /\ UNCHANGED <<debounce, hintedKey, hinted, stopped>>

\* One judgement of the task in the time of the flag, whatever it says and whichever entry it is
\* made for; the transcript is the one the task's record names.
Interrogate(n) ==
    /\ debounce' = Debounce
    /\ \/ UNCHANGED <<up, handles, hintedKey, hinted, stopped>> /\ Mishap
       \/ ~Stuck /\ UNCHANGED <<up, handles, hintedKey, hinted, stopped>> /\ NoMishap
       \/ Stuck /\ hintedKey = 0 /\ Hint(n)
       \/ Stuck /\ hintedKey > 0 /\ EarlyKill(n)

\* The entries are seen in the order in which they were made.
SweepEntry ==
    /\ \E n \in toSweep :
          /\ \A k \in toSweep : n <= k
          /\ toSweep' = toSweep \ {n}
          /\ \/ Judgeable(n) /\ debounce = 0 /\ Interrogate(n)
             \/ /\ Judgeable(n) => debounce > 0
                /\ age[n] <= Timeout /\ UNCHANGED <<up, handles>> /\ NoMishap
                /\ UNCHANGED <<debounce, hintedKey, hinted, stopped>>
             \/ TimeOut(n)
    /\ UNCHANGED <<current, entries, age, tail, sweepBegun, stuckFor>>

-----------------------------------------------------------------------------
(* The worker *)

WorkerActs ==
    /\ up /\ tail' \in Transcripts \ {tail}
    /\ stuckFor' = IF InterrogateTranscript(tail') = "stuck" THEN stuckFor ELSE 0
    /\ UNCHANGED <<current, up, entries, handles, age, debounce, hintedKey, toSweep, sweepBegun,
                   mishaps, hinted, stopped, hampered>>

\* An exit that the engine sees ends the tracking.
Exits ==
    /\ up /\ up' = FALSE /\ entries' = entries \ {current}
    /\ UNCHANGED <<current, handles, age, tail, debounce, hintedKey, toSweep, sweepBegun, mishaps,
                   hinted, stopped, stuckFor, hampered>>

\* A pod has no process to kill: nothing is done, and the entry stays.
KillProcess == UNCHANGED entries

KillTool ==
    /\ up /\ StopWorker(current) /\ KillProcess
    /\ UNCHANGED <<current, age, tail, debounce, hintedKey, toSweep, sweepBegun, hinted,
                   stopped, stuckFor>>

NextAttempt ==
    /\ ~up /\ current < MaxWorkers
    /\ current' = current + 1 /\ up' = TRUE
    /\ entries' = entries \cup {current + 1} /\ handles' = handles \cup {current + 1}
    /\ tail' \in Transcripts /\ stuckFor' = 0
    /\ UNCHANGED <<age, debounce, hintedKey, toSweep, sweepBegun, mishaps, hinted, stopped,
                   hampered>>

InterrogationNext ==
    Tick \/ StartSweep \/ SweepEntry \/ WorkerActs \/ Exits \/ KillTool \/ NextAttempt

-----------------------------------------------------------------------------
Untroubled == ~hampered /\ entries = {current} /\ current \in handles

\* A worker is hinted at before it is killed as stuck, an interval of judgement earlier, so that
\* it may mend (health-sweep.ts: "hint first, kill on second confident-stuck").  Of a later
\* attempt only this is claimed: that it or an attempt before it was.
WarnedFirst ==
    ~hampered => \A k \in stopped :
        k.since >= Debounce /\ k.hinted \in 1..k.attempt /\ (k.attempt = 1 => k.hinted = 1)

\* A worker that is tracked, with no killed one tracked beside it, does not go on being stuck
\* for longer than two intervals of judgement, nor beyond its timeout.
StoppedInTime ==
    up /\ Untroubled => stuckFor <= 2 * Debounce /\ age[current] <= Timeout + 1

StuckAreWarnedThenStopped == WarnedFirst /\ StoppedInTime
=============================================================================
