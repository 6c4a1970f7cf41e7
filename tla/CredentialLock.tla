--------------------------- MODULE CredentialLock ---------------------------
(***************************************************************************)
(* The lock of packages/cli/src/credential-lock.ts: a directory, an        *)
(* owner.json inside it, a heartbeat on its modification time and a second *)
(* directory that serialises the removal of abandoned locks.  One action   *)
(* is one file-system call.  Ages are classes: grace is older than         *)
(* initializationGraceMs, lease older than maximumLeaseAgeMs.  Sleeps says *)
(* whether a process may be suspended (a laptop that sleeps, SIGSTOP)      *)
(* between two calls for longer than these ages; dying is always possible, *)
(* inside reapDeadOwner where ReaperDies says so.                          *)
(***************************************************************************)
EXTENDS Naturals, FiniteSets

CONSTANTS
  Processes,  \* CLI processes that run commands for one account
  NoOwner,    \* no owner.json in the directory
  MaxDeaths,  \* bound on processes that die
  ReaperDies, \* may a process die between making and removing the reaper directory
  Sleeps      \* may a live process be suspended

LockAssumption == NoOwner \notin Processes

VARIABLES
  step,  \* the call each process makes next
  dir,   \* lockDirectory: "none", or its age
  owner, \* the process named by owner.json
  reaper \* reaperDirectory: "none", or its age

lockVars == <<step, dir, owner, reaper>>

Alive(p) == step[p] # "dead"
Then(p, to) == step' = [step EXCEPT ![p] = to]

LockInit ==
  /\ step = [p \in Processes |-> "idle"]
  /\ dir = "none" /\ owner = NoOwner /\ reaper = "none"

-----------------------------------------------------------------------------
(* withCredentialLock *)

Start(p) == step[p] = "idle" /\ Then(p, "mkdir") /\ UNCHANGED <<dir, owner, reaper>>

\* Mutant: mkdir with recursive set, which does not fail where the directory exists.
MkdirLockRecursive(p) ==
  /\ step[p] = "mkdir"
  /\ dir' = (IF dir = "none" THEN "fresh" ELSE dir) /\ Then(p, "write")
  /\ UNCHANGED <<owner, reaper>>

MkdirLock(p) ==
  /\ step[p] = "mkdir"
  /\ IF dir = "none" THEN dir' = "fresh" /\ Then(p, "write") ELSE dir' = dir /\ Then(p, "stat")
  /\ UNCHANGED <<owner, reaper>>

\* writeFile with flag 'wx': EEXIST when another owner.json is there, ENOENT
\* when the directory is gone.
WriteOwner(p) ==
  /\ step[p] = "write"
  /\ \/ /\ dir # "none" /\ owner = NoOwner
        /\ owner' = p /\ dir' = "fresh" /\ Then(p, "in")
     \/ /\ dir # "none" /\ owner # NoOwner
        /\ Then(p, "undo") /\ UNCHANGED <<dir, owner>>
     \/ /\ dir = "none"
        /\ Then(p, "undoMissing") /\ UNCHANGED <<dir, owner>>
  /\ UNCHANGED reaper

RemoveLock == dir' = "none" /\ owner' = NoOwner

\* The directory is removed; EEXIST goes on to reapDeadOwner, ENOENT is thrown.
UndoMkdir(p) ==
  /\ step[p] \in {"undo", "undoMissing"}
  /\ RemoveLock
  /\ Then(p, IF step[p] = "undo" THEN "stat" ELSE "idle")
  /\ UNCHANGED reaper

\* utimes on the directory, whoever owns it by now.
Heartbeat(p) ==
  /\ step[p] \in {"in", "check"} /\ dir # "none"
  /\ dir' = "fresh"
  /\ UNCHANGED <<step, owner, reaper>>

Leave(p) == step[p] = "in" /\ Then(p, "check") /\ UNCHANGED <<dir, owner, reaper>>

CheckOwner(p) ==
  /\ step[p] = "check"
  /\ Then(p, IF owner = p THEN "release" ELSE "idle")
  /\ UNCHANGED <<dir, owner, reaper>>

Release(p) ==
  /\ step[p] = "release"
  /\ RemoveLock /\ Then(p, "idle")
  /\ UNCHANGED reaper

\* CredentialLockError: the wait of 30 s is longer than the 5 s after which an
\* abandoned lock is removed, so it ends only against a live owner.
GiveUp(p) ==
  /\ step[p] = "mkdir" /\ dir # "none" /\ owner # NoOwner /\ Alive(owner)
  /\ Then(p, "idle")
  /\ UNCHANGED <<dir, owner, reaper>>

-----------------------------------------------------------------------------
(* reapDeadOwner *)

StatReaper(p) ==
  /\ step[p] = "stat"
  /\ Then(p, IF reaper = "grace" THEN "rmOld" ELSE "mkReaper")
  /\ UNCHANGED <<dir, owner, reaper>>

RemoveOldReaper(p) ==
  /\ step[p] = "rmOld"
  /\ reaper' = "none" /\ Then(p, "mkReaper")
  /\ UNCHANGED <<dir, owner>>

MkdirReaper(p) ==
  /\ step[p] = "mkReaper"
  /\ IF reaper = "none" THEN reaper' = "fresh" /\ Then(p, "readOwner")
                        ELSE reaper' = reaper /\ Then(p, "mkdir")
  /\ UNCHANGED <<dir, owner>>

\* readOwner and processExists.
ReadOwner(p) ==
  /\ step[p] = "readOwner"
  /\ Then(p, CASE owner = NoOwner -> "statGrace"
             [] owner # NoOwner /\ ~Alive(owner) -> "rmLock"
             [] OTHER -> "statLease")
  /\ UNCHANGED <<dir, owner, reaper>>

\* directoryOlderThan; a directory that is gone is not old.
StatLock(p) ==
  /\ step[p] \in {"statLease", "statGrace"}
  /\ Then(p, IF dir = "lease" \/ (dir = "grace" /\ step[p] = "statGrace")
            THEN "rmLock" ELSE "rmReaper")
  /\ UNCHANGED <<dir, owner, reaper>>

ReapLock(p) ==
  /\ step[p] = "rmLock"
  /\ RemoveLock /\ Then(p, "rmReaper")
  /\ UNCHANGED reaper

RemoveReaper(p) ==
  /\ step[p] = "rmReaper"
  /\ reaper' = "none" /\ Then(p, "mkdir")
  /\ UNCHANGED <<dir, owner>>

-----------------------------------------------------------------------------
(* Time and death. *)

Reaping(p) == step[p] \in {"readOwner", "statLease", "statGrace", "rmLock", "rmReaper"}

Die(p) ==
  /\ step[p] \notin {"idle", "dead"} /\ (Reaping(p) => ReaperDies)
  /\ Cardinality({q \in Processes : step[q] = "dead"}) < MaxDeaths
  /\ Then(p, "dead")
  /\ UNCHANGED <<dir, owner, reaper>>

Busy == \E p \in Processes : step[p] \notin {"idle", "mkdir", "in", "dead"}

\* Without suspension nothing ages between two calls that follow each other at
\* once (only in the pause between two attempts and inside the lock), and no
\* lock ages past its lease while its owner lives: the heartbeat is faster.
AgeLock ==
  /\ \/ dir = "fresh" /\ dir' = "grace"
     \/ dir = "grace" /\ dir' = "lease"
  /\ Sleeps \/ /\ ~Busy
               /\ dir' = "lease" /\ owner # NoOwner => ~Alive(owner)
  /\ UNCHANGED <<step, owner, reaper>>

AgeReaper ==
  /\ reaper = "fresh" /\ reaper' = "grace"
  /\ Sleeps \/ ~Busy
  /\ UNCHANGED <<step, dir, owner>>

-----------------------------------------------------------------------------

Call(p) ==
  \/ MkdirLock(p) \/ WriteOwner(p) \/ UndoMkdir(p) \/ Leave(p) \/ CheckOwner(p) \/ Release(p)
  \/ StatReaper(p) \/ RemoveOldReaper(p) \/ MkdirReaper(p) \/ ReadOwner(p) \/ StatLock(p)
  \/ ReapLock(p) \/ RemoveReaper(p)

LockNext ==
  \/ \E p \in Processes : Start(p) \/ Call(p) \/ Heartbeat(p) \/ GiveUp(p) \/ Die(p)
  \/ AgeLock \/ AgeReaper

LockSpec == LockInit /\ [][LockNext]_lockVars

-----------------------------------------------------------------------------
(* Properties. *)

OthersAway(p) == \A q \in Processes \ {p} : step[q] \in {"idle", "dead"}

Inside == {p \in Processes : step[p] = "in"}
M == INSTANCE Mutex WITH Procs <- Processes, inside <- Inside

\* The directory protocol implements a mutex as long as no process is
\* suspended and no reaper directory is left behind, wherever else processes
\* die: inside the lock, between mkdir and writeFile, before the reaper
\* (withCredentialLock, reapDeadOwner).
ImplementsMutex == M!MutexSpec
=============================================================================
