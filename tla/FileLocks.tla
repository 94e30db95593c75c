------------------------------ MODULE FileLocks ------------------------------
(***************************************************************************)
(* File locks (src/src/file-locks.ts): one Redis key per path, with a time *)
(* to live of 300 s that nothing renews.  A script acquires all of a       *)
(* request's locks or none, whatever its mode ("shared" is stored and never *)
(* read).  A release reads each owner and deletes in a second command; it  *)
(* is made by unlock_files and when the agent's process has ended, so two  *)
(* of one session may overlap.  A session knows when it acquired and how   *)
(* long a lock lives, so it does not count on a lock that has expired.     *)
(***************************************************************************)
EXTENDS FiniteSets

CONSTANTS
    Sessions,
    Paths,
    Releases,     \* releases under way at a time
    Free          \* no such key

ASSUME LocksAssumption == Free \notin Sessions /\ Free \notin Paths

VARIABLES
    lockOwner,    \* path -> session whose lock it is, or Free
    counted,      \* session -> the paths it counts on: acquired, neither given back nor expired
    release,      \* release -> what it has still to do
    overtaken     \* history: <<session, path>> whose lock was deleted by a release that had
                  \* read the key before the session acquired it

lockVars == <<lockOwner, counted, release, overtaken>>

\* path is the one just read as the session's own; stale: its key has changed since.
NoRelease == [session |-> Free, todo |-> {}, path |-> Free, stale |-> FALSE]

LocksInit ==
    /\ lockOwner = [p \in Paths |-> Free]
    /\ counted = [s \in Sessions |-> {}]
    /\ release = [r \in Releases |-> NoRelease]
    /\ overtaken = {}

Overtake(changed) ==
    [r \in Releases |-> IF release[r].path \in changed
                        THEN [release[r] EXCEPT !.stale = TRUE] ELSE release[r]]

\* Mutant: as if "shared" locks excluded nobody.
Available_Any(s, paths) == TRUE

\* Phase 1 of ACQUIRE_LOCKS_LUA.
Available(s, paths) == \A p \in paths : lockOwner[p] \in {s, Free}

BeingReleased(s) ==
    UNION {release[r].todo \cup {release[r].path} : r \in {x \in Releases : release[x].session = s}}

\* Phase 2; with a conflict nothing changes.  What a session locks while one of its own
\* releases is at it, it cannot count on.
AcquireLocks(s, paths) ==
    /\ Available(s, paths)
    /\ lockOwner' = [p \in Paths |-> IF p \in paths THEN s ELSE lockOwner[p]]
    /\ counted' = [counted EXCEPT ![s] = @ \cup (paths \ BeingReleased(s))]
    /\ overtaken' = overtaken \ ({s} \X paths)
    /\ release' = Overtake(paths)

\* releaseLocks of some paths, releaseAllForSession of the keys a scan has found.
ReleaseLocks(r, s, paths) ==
    /\ release[r] = NoRelease
    /\ release' = [release EXCEPT ![r] = [NoRelease EXCEPT !.session = s, !.todo = paths]]
    /\ counted' = [counted EXCEPT ![s] = @ \ paths]
    /\ overtaken' = overtaken \ ({s} \X paths)
    /\ UNCHANGED lockOwner

ReleaseAllForSession(r, s) ==
    /\ {p \in Paths : lockOwner[p] # Free} # {}
    /\ ReleaseLocks(r, s, {p \in Paths : lockOwner[p] # Free})

\* Mutant: the owner is not looked at.
IsOwn_Any(s, p) == lockOwner[p] # Free

IsOwn(s, p) == lockOwner[p] = s

\* GET: a lock that is not the session's is left alone.
ReadOwner(r, p) ==
    /\ release[r].path = Free /\ p \in release[r].todo
    /\ LET rest == [release[r] EXCEPT !.todo = @ \ {p}]
       IN release' = [release EXCEPT ![r] =
              IF IsOwn(release[r].session, p) THEN [rest EXCEPT !.path = p]
              ELSE IF rest.todo = {} THEN NoRelease ELSE rest]
    /\ UNCHANGED <<lockOwner, counted, overtaken>>

\* DEL of whatever is there.
DeleteLock(r) ==
    LET p == release[r].path
        done == IF release[r].todo = {} THEN NoRelease
                ELSE [release[r] EXCEPT !.path = Free, !.stale = FALSE]
    IN /\ p # Free
       /\ lockOwner' = [lockOwner EXCEPT ![p] = Free]
       /\ overtaken' = IF release[r].stale THEN overtaken \cup {<<lockOwner[p], p>>}
                       ELSE overtaken
       /\ release' = [Overtake({p}) EXCEPT ![r] = done]
       /\ UNCHANGED counted

\* A Redis error, or the engine's end: the rest is not released.
ReleaseFails(r) ==
    /\ release[r] # NoRelease
    /\ release' = [release EXCEPT ![r] = NoRelease]
    /\ UNCHANGED <<lockOwner, counted, overtaken>>

\* 300 s have passed; the session that counted on it knows.
ExpireLock(p) ==
    /\ lockOwner[p] # Free
    /\ lockOwner' = [lockOwner EXCEPT ![p] = Free]
    /\ counted' = [counted EXCEPT ![lockOwner[p]] = @ \ {p}]
    /\ release' = Overtake({p})
    /\ UNCHANGED overtaken

LocksNext ==
    \/ \E s \in Sessions, paths \in SUBSET Paths \ {{}} :
           \/ AcquireLocks(s, paths)
           \/ \E r \in Releases : ReleaseLocks(r, s, paths)
    \/ \E r \in Releases :
           \/ \E s \in Sessions : ReleaseAllForSession(r, s)
           \/ \E p \in Paths : ReadOwner(r, p)
           \/ DeleteLock(r)
           \/ ReleaseFails(r)
    \/ \E p \in Paths : ExpireLock(p)

LocksSpec == LocksInit /\ [][LocksNext]_lockVars

-----------------------------------------------------------------------------
(* Properties *)

LocksTypeOK ==
    /\ lockOwner \in [Paths -> Sessions \cup {Free}]
    /\ counted \in [Sessions -> SUBSET Paths]
    /\ release \in [Releases -> [session : Sessions \cup {Free}, todo : SUBSET Paths,
                                 path : Paths \cup {Free}, stale : BOOLEAN]]
    /\ overtaken \subseteq (Sessions \cup {Free}) \X Paths

\* A session that counts on a lock has it, and so no two sessions count on one path,
\* except for a lock deleted by a release that had read the key (file-locks.ts:111)
\* before the session acquired it, and deleted it (file-locks.ts:121) after.
LocksAreKept ==
    \A s \in Sessions : \A p \in counted[s] : lockOwner[p] = s \/ <<s, p>> \in overtaken
=============================================================================
