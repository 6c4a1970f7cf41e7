--------------------------- MODULE AccessProofs ---------------------------
(***************************************************************************)
(* The safety of who may do what: the lock that serializes logins, the     *)
(* command line and device authorization, identities, and API keys.  The   *)
(* directory protocol of credential-lock.ts implements a mutex; an ended   *)
(* login is without power; and what a request found under the row locks it *)
(* holds is still so when it writes.                                       *)
(***************************************************************************)
EXTENDS CliSession, CredentialLock, Identity, ApiKeys, TLAPS, FiniteSetTheorems

-----------------------------------------------------------------------------
(* The credential lock implements a mutex. *)

Steps ==
  {"idle", "mkdir", "write", "undo", "undoMissing", "in", "check", "release", "stat", "rmOld",
   "mkReaper", "readOwner", "statLease", "statGrace", "rmLock", "rmReaper", "dead"}

Types ==
  /\ step \in [Processes -> Steps]
  /\ dir \in {"none", "fresh", "grace", "lease"}
  /\ owner \in Processes \cup {NoOwner}
  /\ reaper \in {"none", "fresh", "grace"}

Holds(p) == step[p] \in {"in", "check", "release"}

\* owner.json names who is inside, and exists only in the directory.
OwnerHolds ==
  /\ \A p \in Processes : Holds(p) => owner = p
  /\ owner # NoOwner => dir # "none"

\* Between mkdir and writeFile the directory is this process's, empty and fresh.
WriterAlone ==
  \A p \in Processes :
    /\ step[p] = "write" => dir = "fresh" /\ owner = NoOwner
    /\ step[p] = "write" => \A q \in Processes : step[q] = "write" => p = q
    /\ step[p] \notin {"undo", "undoMissing"}

\* The lease of a lock runs out only when its owner is dead.
LeaseIsOver == dir = "lease" /\ owner # NoOwner => ~Alive(owner)

\* One process at a time reaps, and the reaper directory is there just as long.
ReaperAlone ==
  /\ \A p, q \in Processes : Reaping(p) /\ Reaping(q) => p = q
  /\ reaper = "none" => \A p \in Processes : ~Reaping(p)
  /\ reaper # "none" => reaper = "fresh" /\ \E p \in Processes : Reaping(p)
  /\ \A p \in Processes : step[p] # "rmOld"

\* A lock nobody will touch but the reaper.
Abandoned ==
  /\ dir # "none"
  /\ IF owner = NoOwner THEN dir # "fresh" ELSE ~Alive(owner)
ReapsAbandoned ==
  \A p \in Processes :
    /\ step[p] = "statGrace" /\ dir = "grace" => owner = NoOwner
    /\ step[p] = "rmLock" => Abandoned

LockInv ==
  /\ Types /\ OwnerHolds /\ WriterAlone /\ LeaseIsOver /\ ReaperAlone /\ ReapsAbandoned

LockUndisturbed == LockAssumption /\ ~Sleeps /\ ~ReaperDies

-----------------------------------------------------------------------------

\* Nobody has made the directory at first.
LEMMA InitInv == LockInit => LockInv
BY DEF LockInit, LockInv, Types, Steps, OwnerHolds, Holds, WriterAlone, LeaseIsOver, ReaperAlone,
       Reaping, ReapsAbandoned

\* A process goes on, and nobody else.
LEMMA GoMoves ==
  ASSUME Types, NEW p \in Processes, NEW to \in Steps, Then(p, to)
  PROVE  /\ step' \in [Processes -> Steps] /\ step'[p] = to
         /\ \A q \in Processes : q # p => step'[q] = step[q]
BY DEF Types, Then

\* A process that is dead stays dead.
LEMMA DeathIsFinal ==
  ASSUME Types, NEW p \in Processes, step[p] # "dead", NEW to \in Steps, Then(p, to)
  PROVE  \A q \in Processes : ~Alive(q) => ~Alive(q)'
BY GoMoves DEF Alive

\* Steps of a process that change no file, in or out of nothing that matters.
LEMMA LockQuietStep ==
  ASSUME LockUndisturbed, LockInv, UNCHANGED <<dir, owner, reaper>>,
         NEW p \in Processes, step[p] # "dead", NEW to \in Steps, Then(p, to),
         to \in {"in", "check", "release"} => Holds(p), to \notin {"write", "undo", "undoMissing"},
         to # "rmOld", Reaping(p) <=> Reaping(p)', to = "rmLock" => Abandoned,
         to = "statGrace" => owner = NoOwner
  PROVE  LockInv'
<1>1. /\ step' \in [Processes -> Steps] /\ step'[p] = to
      /\ \A q \in Processes : q # p => step'[q] = step[q]
  BY GoMoves DEF LockInv
<1>2. \A q \in Processes : ~Alive(q) => ~Alive(q)'
  BY DeathIsFinal DEF LockInv
<1>3. owner # NoOwner => owner \in Processes
  BY DEF LockInv, Types
<1>4. Types' /\ OwnerHolds'
  BY <1>1 DEF LockInv, Types, OwnerHolds, Holds
<1>5. WriterAlone'
  BY <1>1 DEF LockInv, WriterAlone
<1>6. LeaseIsOver'
  BY <1>2, <1>3 DEF LockInv, LeaseIsOver, Alive
<1>7. ReaperAlone'
  BY <1>1 DEF LockInv, ReaperAlone, Reaping
<1>8. ReapsAbandoned'
  BY <1>1, <1>2, <1>3 DEF LockInv, ReapsAbandoned, Abandoned, Alive
<1> QED
  BY <1>4, <1>5, <1>6, <1>7, <1>8 DEF LockInv

\* Steps that only look, or leave, keep the invariant.
LEMMA QuietStepsInv ==
  ASSUME LockUndisturbed, LockInv, NEW p \in Processes,
         \/ Start(p) \/ Leave(p) \/ CheckOwner(p) \/ GiveUp(p)
         \/ StatReaper(p) \/ ReadOwner(p) \/ StatLock(p) \/ Die(p)
  PROVE  LockInv'
<1> USE DEF Holds, Reaping, Steps
<1>0. step \in [Processes -> Steps]
  BY DEF LockInv, Types
<1>1. CASE Start(p) \/ Leave(p) \/ GiveUp(p)
  BY <1>0, <1>1, LockQuietStep, GoMoves DEF Start, Leave, GiveUp, LockInv
<1>2. CASE CheckOwner(p)
  BY <1>0, <1>2, LockQuietStep, GoMoves DEF CheckOwner, LockInv, OwnerHolds
<1>3. CASE StatReaper(p)
  <2>1. Then(p, "mkReaper")
    BY <1>3 DEF StatReaper, LockInv, ReaperAlone
  <2> QED
    BY <1>0, <1>3, <2>1, LockQuietStep, GoMoves DEF StatReaper, LockInv
<1>4. CASE ReadOwner(p)
  <2>1. PICK to \in {"statGrace", "rmLock", "statLease"} :
          /\ Then(p, to)
          /\ to = "rmLock" => Abandoned
          /\ to = "statGrace" => owner = NoOwner
    BY <1>4 DEF ReadOwner, Abandoned, LockInv, OwnerHolds
  <2> QED
    BY <1>0, <1>4, <2>1, LockQuietStep, GoMoves DEF ReadOwner, LockInv
<1>5. CASE StatLock(p)
  <2>1. PICK to \in {"rmLock", "rmReaper"} :
          /\ Then(p, to)
          /\ to = "rmLock" => dir = "lease" \/ (dir = "grace" /\ step[p] = "statGrace")
    BY <1>5 DEF StatLock
  <2>2. to = "rmLock" => Abandoned
    BY <2>1 DEF Abandoned, LockInv, LeaseIsOver, ReapsAbandoned
  <2> QED
    BY <1>0, <1>5, <2>1, <2>2, LockQuietStep, GoMoves DEF StatLock, LockInv
<1>6. CASE Die(p)
  BY <1>0, <1>6, LockQuietStep, GoMoves DEF Die, LockUndisturbed, LockInv
<1> QED
  BY <1>1, <1>2, <1>3, <1>4, <1>5, <1>6

-----------------------------------------------------------------------------
(* Steps that change files. *)

\* The directory is made by one process.
LEMMA MkdirLockInv ==
  ASSUME LockUndisturbed, LockInv, NEW p \in Processes, MkdirLock(p)
  PROVE  LockInv'
<1>1. CASE dir # "none"
  BY <1>1, LockQuietStep, GoMoves DEF MkdirLock, LockInv, Types, Steps, Holds, Reaping
<1>2. CASE dir = "none"
  <2>1. dir' = "fresh" /\ UNCHANGED <<owner, reaper>> /\ Then(p, "write") /\ step[p] = "mkdir"
    BY <1>2 DEF MkdirLock
  <2>2. /\ step' \in [Processes -> Steps] /\ step'[p] = "write"
        /\ \A q \in Processes : q # p => step'[q] = step[q]
    BY <2>1, GoMoves DEF LockInv, Steps
  <2>3. owner = NoOwner /\ \A q \in Processes : step[q] # "write" /\ step[q] # "rmLock" /\ ~Holds(q)
    BY <1>2 DEF LockInv, OwnerHolds, WriterAlone, ReapsAbandoned, Abandoned, LockUndisturbed,
       LockAssumption
  <2>4. Types' /\ OwnerHolds' /\ WriterAlone' /\ LeaseIsOver' /\ ReapsAbandoned'
    BY <2>1, <2>2, <2>3 DEF LockInv, Types, OwnerHolds, Holds, WriterAlone, LeaseIsOver,
       ReapsAbandoned
  <2>5. ReaperAlone'
    BY <2>1, <2>2 DEF LockInv, ReaperAlone, Reaping
  <2> QED
    BY <2>4, <2>5 DEF LockInv
<1> QED
  BY <1>1, <1>2

\* Who made the directory writes itself into it.
LEMMA WriteOwnerInv ==
  ASSUME LockUndisturbed, LockInv, NEW p \in Processes, WriteOwner(p)
  PROVE  LockInv'
<1>1. /\ step[p] = "write" /\ dir = "fresh" /\ owner = NoOwner
      /\ owner' = p /\ dir' = "fresh" /\ reaper' = reaper /\ Then(p, "in")
  BY DEF WriteOwner, LockInv, WriterAlone
<1>2. /\ step' \in [Processes -> Steps] /\ step'[p] = "in"
      /\ \A q \in Processes : q # p => step'[q] = step[q]
  BY <1>1, GoMoves DEF LockInv, Steps
<1>3. \A q \in Processes : ~Holds(q) /\ step[q] # "rmLock"
  BY <1>1 DEF LockInv, OwnerHolds, ReapsAbandoned, Abandoned, LockUndisturbed, LockAssumption
<1>4. Types' /\ OwnerHolds' /\ WriterAlone' /\ LeaseIsOver' /\ ReapsAbandoned'
  BY <1>1, <1>2, <1>3 DEF LockInv, Types, OwnerHolds, Holds, WriterAlone, LeaseIsOver,
     ReapsAbandoned, LockUndisturbed, LockAssumption
<1>5. ReaperAlone'
  BY <1>1, <1>2 DEF LockInv, ReaperAlone, Reaping
<1> QED
  BY <1>4, <1>5 DEF LockInv

\* A heartbeat keeps the lease fresh.
LEMMA HeartbeatInv ==
  ASSUME LockUndisturbed, LockInv, NEW p \in Processes, Heartbeat(p)
  PROVE  LockInv'
<1>1. dir' = "fresh" /\ UNCHANGED <<step, owner, reaper>> /\ Holds(p)
  BY DEF Heartbeat, Holds
<1>2. owner = p /\ owner # NoOwner /\ Alive(owner)
  BY <1>1 DEF LockInv, OwnerHolds, Holds, Alive, LockUndisturbed, LockAssumption
<1>3. Types' /\ OwnerHolds' /\ WriterAlone' /\ LeaseIsOver' /\ ReaperAlone'
  BY <1>1 DEF LockInv, Types, OwnerHolds, Holds, WriterAlone, LeaseIsOver, ReaperAlone, Reaping
<1>4. ReapsAbandoned'
  BY <1>1, <1>2 DEF LockInv, ReapsAbandoned, Abandoned
<1> QED
  BY <1>3, <1>4 DEF LockInv

\* The lock is removed by the one who holds it or reaps it, when nobody else holds it.
LEMMA RemoveInv ==
  ASSUME LockUndisturbed, LockInv, NEW p \in Processes, Release(p) \/ ReapLock(p)
  PROVE  LockInv'
<1>1. PICK to \in {"idle", "rmReaper"} :
        /\ Then(p, to) /\ dir' = "none" /\ owner' = NoOwner /\ reaper' = reaper
        /\ to = "idle" => step[p] = "release"
        /\ to = "rmReaper" => step[p] = "rmLock"
  BY DEF Release, ReapLock, RemoveLock
<1>2. /\ step' \in [Processes -> Steps] /\ step'[p] = to
      /\ \A q \in Processes : q # p => step'[q] = step[q]
  BY <1>1, GoMoves DEF LockInv, Steps
<1>3. \A q \in Processes : q # p => ~Holds(q) /\ step[q] # "write" /\ step[q] # "rmLock"
  <2>1. CASE step[p] = "release"
    <3>1. owner = p /\ owner # NoOwner /\ Alive(owner)
      BY <2>1 DEF LockInv, OwnerHolds, Holds, Alive, LockUndisturbed, LockAssumption
    <3> QED
      BY <3>1 DEF LockInv, OwnerHolds, WriterAlone, ReapsAbandoned, Abandoned
  <2>2. CASE step[p] = "rmLock"
    <3>1. Abandoned
      BY <2>2 DEF LockInv, ReapsAbandoned
    <3>2. \A q \in Processes : q # p => step[q] # "rmLock"
      BY <2>2 DEF LockInv, ReaperAlone, Reaping
    <3>3. \A q \in Processes : ~Holds(q)
      BY <3>1 DEF LockInv, OwnerHolds, Holds, Abandoned, Alive, LockUndisturbed, LockAssumption
    <3>4. \A q \in Processes : step[q] # "write"
      BY <3>1 DEF LockInv, WriterAlone, Abandoned
    <3> QED
      BY <3>2, <3>3, <3>4
  <2> QED
    BY <1>1, <2>1, <2>2
<1>4. Types' /\ OwnerHolds' /\ WriterAlone' /\ LeaseIsOver' /\ ReapsAbandoned'
  BY <1>1, <1>2, <1>3 DEF LockInv, Types, OwnerHolds, Holds, WriterAlone, LeaseIsOver,
     ReapsAbandoned
<1>5. ReaperAlone'
  BY <1>1, <1>2 DEF LockInv, ReaperAlone, Reaping
<1> QED
  BY <1>4, <1>5 DEF LockInv

\* One process reaps at a time.
LEMMA MkdirReaperInv ==
  ASSUME LockUndisturbed, LockInv, NEW p \in Processes, MkdirReaper(p)
  PROVE  LockInv'
<1>1. CASE reaper # "none"
  BY <1>1, LockQuietStep, GoMoves DEF MkdirReaper, LockInv, Types, Steps, Holds, Reaping
<1>2. CASE reaper = "none"
  <2>1. reaper' = "fresh" /\ UNCHANGED <<dir, owner>> /\ Then(p, "readOwner") /\ step[p] = "mkReaper"
    BY <1>2 DEF MkdirReaper
  <2>2. /\ step' \in [Processes -> Steps] /\ step'[p] = "readOwner"
        /\ \A q \in Processes : q # p => step'[q] = step[q]
    BY <2>1, GoMoves DEF LockInv, Steps
  <2>3. \A q \in Processes : ~Reaping(q)
    BY <1>2 DEF LockInv, ReaperAlone
  <2>4. Types' /\ OwnerHolds' /\ WriterAlone'
    BY <2>1, <2>2 DEF LockInv, Types, OwnerHolds, Holds, WriterAlone
  <2>5. LeaseIsOver'
    BY <2>1, <2>2 DEF LockInv, LeaseIsOver, Alive, Types
  <2>6. ReaperAlone' /\ ReapsAbandoned'
    BY <2>1, <2>2, <2>3 DEF ReaperAlone, Reaping, ReapsAbandoned, LockInv
  <2> QED
    BY <2>4, <2>5, <2>6 DEF LockInv
<1> QED
  BY <1>1, <1>2

\* The reaper leaves, and begins again.
LEMMA RemoveReaperInv ==
  ASSUME LockUndisturbed, LockInv, NEW p \in Processes, RemoveReaper(p)
  PROVE  LockInv'
<1>1. reaper' = "none" /\ UNCHANGED <<dir, owner>> /\ Then(p, "mkdir") /\ step[p] = "rmReaper"
  BY DEF RemoveReaper
<1>2. /\ step' \in [Processes -> Steps] /\ step'[p] = "mkdir"
      /\ \A q \in Processes : q # p => step'[q] = step[q]
  BY <1>1, GoMoves DEF LockInv, Steps
<1>3. \A q \in Processes : q # p => ~Reaping(q)
  BY <1>1 DEF LockInv, ReaperAlone, Reaping
<1>4. Types' /\ OwnerHolds' /\ WriterAlone'
  BY <1>1, <1>2 DEF LockInv, Types, OwnerHolds, Holds, WriterAlone
<1>5. LeaseIsOver'
  BY <1>1, <1>2 DEF LockInv, LeaseIsOver, Alive, Types
<1>6. ReaperAlone' /\ ReapsAbandoned'
  BY <1>1, <1>2, <1>3 DEF ReaperAlone, Reaping, ReapsAbandoned, LockInv
<1> QED
  BY <1>4, <1>5, <1>6 DEF LockInv

\* Nothing ages under a process that is about to act on what it read.
LEMMA AgeInv ==
  ASSUME LockUndisturbed, LockInv, AgeLock \/ AgeReaper
  PROVE  LockInv'
<1>1. ~Busy /\ UNCHANGED <<step, owner>>
  BY DEF AgeLock, AgeReaper, LockUndisturbed
<1>2. \A p \in Processes : ~Reaping(p) /\ step[p] # "write"
  BY <1>1 DEF Busy, Reaping
<1>3. CASE AgeReaper
  BY <1>2, <1>3 DEF AgeReaper, LockInv, ReaperAlone
<1>4. CASE AgeLock
  <2>1. /\ dir # "none" /\ dir' \in {"grace", "lease"} /\ reaper' = reaper
        /\ dir' = "lease" /\ owner # NoOwner => ~Alive(owner)
    BY <1>4 DEF AgeLock, LockUndisturbed
  <2>2. Types' /\ OwnerHolds' /\ WriterAlone' /\ ReaperAlone'
    BY <1>1, <1>2, <2>1 DEF LockInv, Types, OwnerHolds, Holds, WriterAlone, ReaperAlone, Reaping
  <2>3. LeaseIsOver' /\ ReapsAbandoned'
    BY <1>1, <1>2, <2>1 DEF LeaseIsOver, ReapsAbandoned, Reaping, Alive
  <2> QED
    BY <2>2, <2>3 DEF LockInv
<1> QED
  BY <1>3, <1>4

\* Every step keeps the invariant.
LEMMA NextInv == LockUndisturbed /\ LockInv /\ [LockNext]_lockVars => LockInv'
<1> SUFFICES ASSUME LockUndisturbed, LockInv, [LockNext]_lockVars PROVE LockInv'
  OBVIOUS
<1>1. CASE UNCHANGED lockVars
  BY <1>1 DEF lockVars, LockInv, Types, OwnerHolds, Holds, WriterAlone, LeaseIsOver, ReaperAlone,
     Reaping, ReapsAbandoned, Abandoned, Alive
<1>2. \A p \in Processes : ~UndoMkdir(p) /\ ~RemoveOldReaper(p)
  BY DEF UndoMkdir, RemoveOldReaper, LockInv, WriterAlone, ReaperAlone
<1>3. CASE LockNext
  BY <1>2, <1>3, QuietStepsInv, MkdirLockInv, WriteOwnerInv, HeartbeatInv, RemoveInv,
     MkdirReaperInv, RemoveReaperInv, AgeInv DEF LockNext, Call
<1> QED
  BY <1>1, <1>3

\* The invariants above hold in every reachable state.
THEOREM LockInvariant == LockUndisturbed /\ LockSpec => []LockInv
<1> SUFFICES ASSUME LockUndisturbed PROVE LockSpec => []LockInv
  OBVIOUS
<1>1. LockInv /\ [LockNext]_lockVars => LockInv'
  BY NextInv
<1> QED
  BY <1>1, InitInv, PTL DEF LockSpec

-----------------------------------------------------------------------------

\* Who is inside, before and after a step.
LEMMA InsideMoves ==
  ASSUME LockUndisturbed, LockInv, LockNext
  PROVE  [M!MutexNext]_Inside
<1>1. \A p \in Inside : Inside = {p} /\ owner = p
  BY DEF Inside, LockInv, OwnerHolds, Holds
<1>2. CASE UNCHANGED step
  BY <1>2 DEF Inside
<1>3. ASSUME NEW p \in Processes, NEW to \in Steps, Then(p, to), to # "in", step[p] # "in"
      PROVE  Inside' = Inside
  BY <1>3, GoMoves DEF Inside, LockInv
<1>4. ASSUME NEW p \in Processes, NEW to \in Steps, Then(p, to), to # "in", step[p] = "in"
      PROVE  M!Leave(p)
  <2>1. Inside = {p}
    BY <1>1, <1>4 DEF Inside
  <2>2. Inside' = {}
    BY <1>4, <2>1, GoMoves DEF Inside, LockInv
  <2> QED
    BY <2>1, <2>2 DEF M!Leave
<1>5. ASSUME NEW p \in Processes, WriteOwner(p) PROVE M!Enter(p)
  <2>1. owner = NoOwner /\ Then(p, "in")
    BY <1>5 DEF WriteOwner, LockInv, WriterAlone
  <2>2. Inside = {}
    BY <1>1, <2>1 DEF Inside, LockUndisturbed, LockAssumption
  <2>3. Inside' = {p}
    BY <2>1, <2>2, GoMoves DEF Inside, LockInv, Steps
  <2> QED
    BY <2>2, <2>3 DEF M!Enter
<1>6. ASSUME NEW p \in Processes, Start(p) \/ Call(p) \/ Heartbeat(p) \/ GiveUp(p) \/ Die(p)
      PROVE  WriteOwner(p) \/ UNCHANGED step \/ \E to \in Steps \ {"in"} : Then(p, to)
  BY <1>6 DEF Steps, Start, Call, Heartbeat, GiveUp, Die, MkdirLock, UndoMkdir, Leave, CheckOwner,
     Release, StatReaper, RemoveOldReaper, MkdirReaper, ReadOwner, StatLock, ReapLock, RemoveReaper
<1>7. CASE AgeLock \/ AgeReaper
  BY <1>2, <1>7 DEF AgeLock, AgeReaper
<1> QED
  BY <1>2, <1>3, <1>4, <1>5, <1>6, <1>7 DEF LockNext, M!MutexNext

\* The directory protocol implements a mutex for any number of processes and deaths,
\* while no process is suspended and none dies between making and removing the reaper
\* directory (withCredentialLock, reapDeadOwner in packages/cli/src/credential-lock.ts).
THEOREM LockImplementsMutex == LockUndisturbed /\ LockSpec => ImplementsMutex
<1> SUFFICES ASSUME LockUndisturbed PROVE LockSpec => ImplementsMutex
  OBVIOUS
<1>1. LockInit => M!MutexInit
  BY DEF LockInit, Inside, M!MutexInit
<1>2. LockInv /\ [LockNext]_lockVars => [M!MutexNext]_Inside
  <2>1. UNCHANGED lockVars => UNCHANGED Inside
    BY DEF lockVars, Inside
  <2> QED
    BY <2>1, InsideMoves
<1> QED
  BY <1>1, <1>2, LockInvariant, PTL DEF LockSpec, ImplementsMutex, M!MutexSpec

-----------------------------------------------------------------------------
(* Device authorization and the command line. *)

Statuses == {"absent", "pending", "approved", "denied", "consumed", "gone"}
Standings == {"none", "live", "revoked", "reused", "gone"}
AccessStates == {"none", "live", "expired", "revoked", "gone"}

AuthTypes ==
  /\ status \in [Codes -> Statuses] /\ codeExpired \in [Codes -> BOOLEAN]
  /\ requested \in [Codes -> SUBSET Scopes] /\ approved \in [Codes -> SUBSET Scopes]
  /\ approver \in [Codes -> Users \cup {NoUser}]
  /\ family \in [Codes -> Standings] /\ famExpired \in [Codes -> BOOLEAN]
  /\ generation \in [Codes -> Generations] /\ used \in [Codes -> SUBSET Generations]
  /\ rested \in [Codes -> BOOLEAN]
  /\ access \in [Codes -> [Generations -> AccessStates]]
  /\ minting \in [Codes -> BOOLEAN] /\ grant \in [Codes -> {"none", "live", "expired", "revoked"}]
  /\ txn \in [Codes -> {"none", "exchange", "refresh"}]
  /\ role \in [Users -> Roles]

\* A code that was not exchanged has no family, and no family has left a trace.
Unexchanged(c) == status[c] \in {"absent", "pending", "approved", "denied"}
NoTrace(c) ==
  generation[c] = 0 /\ used[c] = {} /\ \A g \in Generations : access[c][g] = "none"
Beginnings ==
  \A c \in Codes : /\ Unexchanged(c) => family[c] = "none"
                   /\ family[c] = "none" => NoTrace(c)

\* The used tokens are the older ones, also of families that ended.
UsedAreOlder == \A c \in Codes : used[c] = {g \in Generations : g < generation[c]}

\* Nothing is approved before it was asked for, nor more than was asked for.
ApprovedIsRequested ==
  \A c \in Codes : /\ approved[c] \subseteq requested[c]
                   /\ status[c] = "absent" => approved[c] = {}

\* The row lock of a transaction under way keeps what it found: the code approved, or
\* the family live, its generation below the last and its approver not removed.
Underway ==
  \A c \in Codes :
    /\ txn[c] = "exchange" => status[c] = "approved"
    /\ txn[c] = "refresh" =>
         family[c] = "live" /\ generation[c] < MaxGeneration /\ ~Removed(c)

\* A grant goes before its family.
GrantNeedsFamily == \A c \in Codes : grant[c] = "live" => family[c] = "live"

RemovalInv == Underway /\ GrantNeedsFamily /\ RemovedIsCutOff

AuthInv ==
  /\ AuthTypes /\ Beginnings /\ UsedAreOlder /\ EndedIsPowerless /\ ApprovedIsRequested
  /\ RemovalInv

-----------------------------------------------------------------------------
(* The command line. *)

Locked == {"replacing", "saving", "undo", "abort", "using", "refreshing", "rotated",
           "leaving", "forgetting", "out"}
Places == Locked \cup {"idle", "polling", "exchanged"}

CliTypes ==
  /\ pc \in [Procs -> Places] /\ held \in [Procs -> Sessions \cup {NoSession}]
  /\ stored \in Sessions \cup {NoSession} /\ lock \in Procs \cup {NoProc}
  /\ late \subseteq Requests /\ faults \in Nat

\* A session anybody knows is of a code that was issued, and not ahead of the server.
Behind(s) == status[s.code] # "absent" /\ s.gen <= generation[s.code]

\* Where a process is says what it knows: it holds the lock exactly where
\* withCredentialLock runs its operation, and a session in memory unless it is idle; the
\* family exists once the code was exchanged; a new login is not in the store yet; a
\* used one is; and after its revocation it stays ended while the process goes on.
Placed(p) ==
  /\ lock = p <=> pc[p] \in Locked
  /\ held[p] = NoSession <=> pc[p] = "idle"
  /\ pc[p] # "idle" => Behind(held[p])
  /\ pc[p] = "polling" => family[held[p].code] = "none"
  /\ pc[p] \notin {"idle", "polling"} => family[held[p].code] # "none"
  /\ pc[p] \in {"polling", "exchanged", "replacing", "saving"} /\ stored # NoSession =>
       stored.code # held[p].code
  /\ pc[p] \in {"using", "refreshing", "leaving", "forgetting"} => stored = held[p]
  /\ pc[p] = "rotated" => stored # NoSession /\ stored.code = held[p].code
  /\ pc[p] = "replacing" => stored # NoSession
  /\ pc[p] \in {"forgetting", "out"} => ~Usable(held[p].code)

StoreKnown == stored # NoSession => Behind(stored) /\ family[stored.code] # "none"

\* No two processes have the same login in memory.
Apart == \A p, q \in Procs :
           pc[p] # "idle" /\ pc[q] # "idle" /\ p # q => held[p].code # held[q].code

\* While nothing went wrong a session in memory is the newest of its login, and a login
\* is replaced in the store only when it is over.
Current(s) == Usable(s.code) => s.gen = generation[s.code]
Calm(p) ==
  /\ pc[p] # "idle" => Current(held[p])
  /\ pc[p] = "saving" /\ stored # NoSession => ~Usable(stored.code)
  /\ pc[p] = "undo" /\ stored # NoSession => ~Usable(stored.code) \/ stored = held[p]
  /\ pc[p] = "abort" => stored # NoSession /\ stored.code = held[p].code

\* So is the stored one, except between a rotation and its save.
Rotating == \E p \in Procs : pc[p] \in {"rotated", "abort"}
StoreNewest == stored # NoSession /\ ~Rotating => Current(stored)

InStore(c) == stored # NoSession /\ stored.code = c
InHand(p, c) == pc[p] # "idle" /\ held[p].code = c
Kept == \A c \in Codes : Usable(c) => InStore(c) \/ \E p \in Procs : InHand(p, c)

Undisturbed ==
  /\ late = {} /\ \A c \in Codes : family[c] # "reused"
  /\ \A p \in Procs : Calm(p)
  /\ StoreNewest /\ Kept

CliInv ==
  /\ CliTypes /\ (\A p \in Procs : Placed(p)) /\ StoreKnown /\ Apart
  /\ faults = 0 => Undisturbed

SessionInv == AuthInv /\ CliInv

-----------------------------------------------------------------------------
(* The server. *)

\* No code was issued, so nothing was exchanged.
LEMMA AuthInitInv == AuthAssumption /\ AuthInit => AuthInv
<1> SUFFICES ASSUME AuthAssumption, AuthInit PROVE AuthInv
  OBVIOUS
<1>1. 0 \in Generations
  BY DEF AuthAssumption, Generations
<1>2. AuthTypes
  BY <1>1 DEF AuthInit, AuthTypes, Statuses, Standings, AccessStates
<1>3. Beginnings /\ EndedIsPowerless /\ ApprovedIsRequested
  BY DEF AuthInit, Beginnings, NoTrace, EndedIsPowerless, ApprovedIsRequested
<1>4. UsedAreOlder
  BY DEF AuthAssumption, AuthInit, UsedAreOlder, Generations
<1>5. RemovalInv
  BY DEF AuthInit, RemovalInv, Underway, GrantNeedsFamily, RemovedIsCutOff
<1> QED
  BY <1>2, <1>3, <1>4, <1>5 DEF AuthInv

\* A step that leaves the family and its tokens alone, exchanges nothing, revives no
\* code and leaves the transaction under way what it found keeps the invariant, once the
\* types and the scopes were looked at.
LEMMA CodeStepInv ==
  ASSUME AuthInv, UNCHANGED <<tokenVars, grant>>, AuthTypes', ApprovedIsRequested',
         \A c \in Codes : Unexchanged(c)' => Unexchanged(c),
         \A c \in Codes : /\ txn'[c] = txn[c] \/ txn'[c] = "none"
                          /\ txn[c] = "exchange" => status'[c] = status[c] \/ txn'[c] = "none"
                          /\ Removed(c)' => Removed(c)
  PROVE  AuthInv'
<1>1. Beginnings'
  BY DEF AuthInv, Beginnings, NoTrace, tokenVars
<1>2. UsedAreOlder'
  BY DEF AuthInv, UsedAreOlder, tokenVars
<1>3. EndedIsPowerless'
  BY DEF AuthInv, EndedIsPowerless, tokenVars
<1>4. Underway'
  BY DEF AuthInv, RemovalInv, Underway, tokenVars
<1>5. GrantNeedsFamily' /\ RemovedIsCutOff'
  BY DEF AuthInv, RemovalInv, GrantNeedsFamily, RemovedIsCutOff, tokenVars
<1> QED
  BY <1>1, <1>2, <1>3, <1>4, <1>5 DEF AuthInv, RemovalInv

\* issue, deny, approve, poll and the refused exchange.
LEMMA DecisionInv ==
  ASSUME AuthInv, NEW c \in Codes,
         \/ \E S \in SUBSET Scopes : issue(c, S)
         \/ Decision(c) \/ poll(c) \/ exchangeInvalidated(c)
  PROVE  AuthInv'
<1> USE DEF AuthInv, AuthTypes
<1>1. CASE \E S \in SUBSET Scopes : issue(c, S)
  <2> PICK S \in SUBSET Scopes : issue(c, S)
    BY <1>1
  <2>1. AuthTypes'
    BY DEF issue, tokenVars, Statuses
  <2>2. ApprovedIsRequested'
    BY DEF issue, ApprovedIsRequested, Statuses
  <2> QED
    BY <2>1, <2>2, CodeStepInv DEF issue, Unexchanged, Removed, RemovalInv, Underway
<1>2. CASE \E u \in Users : deny(c, u)
  <2> PICK u \in Users : deny(c, u)
    BY <1>2
  <2>1. AuthTypes'
    BY DEF deny, tokenVars, Statuses
  <2>2. ApprovedIsRequested'
    BY DEF deny, ApprovedIsRequested, Statuses
  <2> QED
    BY <2>1, <2>2, CodeStepInv DEF deny, CanDecide, Unexchanged, Removed, RemovalInv, Underway
<1>3. CASE \E u \in Users : \E S \in SUBSET Scopes : approve(c, u, S)
  <2> PICK u \in Users, S \in SUBSET Scopes : approve(c, u, S)
    BY <1>3
  <2>1. AuthTypes'
    BY DEF approve, tokenVars, Statuses
  <2>2. ApprovedIsRequested'
    BY DEF approve, ApprovedIsRequested, Statuses
  <2> QED
    BY <2>1, <2>2, CodeStepInv DEF approve, CanDecide, Unexchanged, Removed, RemovalInv, Underway
<1>4. CASE poll(c)
  BY <1>4, CodeStepInv DEF poll, tokenVars, Unexchanged, ApprovedIsRequested, Removed
<1>5. CASE exchangeInvalidated(c)
  <2>1. AuthTypes'
    BY <1>5 DEF exchangeInvalidated, tokenVars, Statuses
  <2>2. ApprovedIsRequested'
    BY <1>5 DEF exchangeInvalidated, ApprovedIsRequested, Statuses
  <2> QED
    BY <1>5, <2>1, <2>2, CodeStepInv DEF exchangeInvalidated, Unexchanged, Removed
<1> QED
  BY <1>1, <1>2, <1>3, <1>4, <1>5 DEF Decision

\* The family begins with nothing used and one live access token.
LEMMA ExchangeInv ==
  ASSUME AuthAssumption, AuthInv, NEW c \in Codes, exchange(c)
  PROVE  AuthInv'
<1> USE DEF AuthInv, AuthTypes
<1>1. 0 \in Generations
  BY DEF AuthAssumption, Generations
<1>2. status[c] = "approved" /\ family[c] = "none" /\ generation[c] = 0
  BY DEF exchange, CanExchange, RemovalInv, Underway, Beginnings, NoTrace, Unexchanged
<1>3. AuthTypes'
  BY <1>1 DEF exchange, Statuses, Standings, AccessStates
<1>4. Beginnings'
  BY <1>3 DEF exchange, Beginnings, NoTrace, Unexchanged
<1>5. UsedAreOlder' /\ ApprovedIsRequested'
  BY DEF exchange, UsedAreOlder, ApprovedIsRequested
<1>6. EndedIsPowerless'
  BY DEF exchange, EndedIsPowerless
<1>7. RemovalInv'
  BY <1>2 DEF exchange, RemovalInv, Underway, GrantNeedsFamily, RemovedIsCutOff, Removed
<1> QED
  BY <1>3, <1>4, <1>5, <1>6, <1>7

\* The one token that is not used is the newest.
LEMMA UnusedIsNewest ==
  ASSUME AuthInv, AuthAssumption, NEW c \in Codes, NEW g \in Generations,
         g <= generation[c], g \notin used[c]
  PROVE  g = generation[c]
<1>1. generation[c] \in Generations
  BY DEF AuthInv, AuthTypes
<1>2. ~(g < generation[c])
  BY DEF AuthInv, UsedAreOlder
<1>3. g \in Nat /\ generation[c] \in Nat
  BY <1>1 DEF Generations, AuthAssumption
<1> QED
  BY <1>2, <1>3

\* A transaction begins with what it finds, and one that rolls back leaves nothing.
LEMMA TransactionInv ==
  ASSUME AuthAssumption, AuthInv, NEW c \in Codes,
         \/ exchangeBegin(c) \/ rollback(c) \/ \E g \in Generations : refreshBegin(c, g)
  PROVE  AuthInv'
<1> USE DEF AuthInv, AuthTypes
<1>1. CASE rollback(c)
  <2>1. AuthTypes'
    BY <1>1 DEF rollback, codeVars, tokenVars
  <2> QED
    BY <1>1, <2>1, CodeStepInv DEF rollback, codeVars, Unexchanged, ApprovedIsRequested, Removed
<1>2. CASE exchangeBegin(c) \/ \E g \in Generations : refreshBegin(c, g)
  <2>1. AuthTypes'
    BY <1>2 DEF exchangeBegin, refreshBegin, codeVars, tokenVars
  <2>2. Beginnings' /\ UsedAreOlder' /\ EndedIsPowerless' /\ ApprovedIsRequested'
    BY <1>2 DEF exchangeBegin, refreshBegin, codeVars, tokenVars, Beginnings, NoTrace, Unexchanged,
       UsedAreOlder, EndedIsPowerless, ApprovedIsRequested
  <2>3. GrantNeedsFamily' /\ RemovedIsCutOff'
    BY <1>2 DEF exchangeBegin, refreshBegin, codeVars, tokenVars, RemovalInv, GrantNeedsFamily,
       RemovedIsCutOff, Removed
  <2>5. ASSUME NEW g \in Generations, refreshBegin(c, g) PROVE Underway'
    <3>1. g = generation[c]
      BY <2>5, UnusedIsNewest DEF refreshBegin, CanRotate, KnownToken
    <3> QED
      BY <2>5, <3>1 DEF refreshBegin, CanRotate, Usable, identityPermits, codeVars, tokenVars,
         RemovalInv, Underway, Removed
  <2>6. Underway'
    <3>1. CASE exchangeBegin(c)
      BY <3>1 DEF exchangeBegin, CanExchange, codeVars, tokenVars, RemovalInv, Underway, Removed
    <3> QED
      BY <1>2, <2>5, <3>1
  <2> QED
    BY <2>1, <2>2, <2>3, <2>6 DEF RemovalInv
<1> QED
  BY <1>1, <1>2

\* Every way to end a family takes its access tokens and its grants with it.
LEMMA EndFamilyInv ==
  ASSUME AuthInv, NEW c \in Codes, NEW how \in {"revoked", "reused"}, family[c] # "none",
         Free(c), EndFamily(c, how)
  PROVE  AuthInv'
<1> USE DEF AuthInv, AuthTypes
<1> DEFINE ended == [g \in Generations |-> IF access[c][g] \in {"none", "gone"}
                                           THEN access[c][g] ELSE "revoked"]
<1>1. access' = [access EXCEPT ![c] = ended]
  BY DEF EndFamily
<1>2. ended \in [Generations -> AccessStates] /\ \A g \in Generations : ended[g] # "live"
  BY DEF AccessStates
<1> HIDE DEF ended
<1>3. AuthTypes'
  BY <1>1, <1>2 DEF EndFamily, codeVars, Standings
<1>4. Beginnings'
  BY <1>1, <1>3 DEF EndFamily, codeVars, Beginnings, NoTrace, Unexchanged
<1>5. UsedAreOlder' /\ ApprovedIsRequested'
  BY DEF EndFamily, codeVars, UsedAreOlder, ApprovedIsRequested
<1>6. EndedIsPowerless'
  BY <1>1, <1>2 DEF EndFamily, EndedIsPowerless
<1>7. RemovalInv'
  BY DEF EndFamily, Free, codeVars, RemovalInv, Underway, GrantNeedsFamily, RemovedIsCutOff, Removed
<1> QED
  BY <1>3, <1>4, <1>5, <1>6, <1>7

\* Only the newest token rotates.
LEMMA RefreshInv ==
  ASSUME AuthAssumption, AuthInv, NEW c \in Codes, NEW g \in Generations, refresh(c, g)
  PROVE  AuthInv'
<1> USE DEF AuthInv, AuthTypes
<1>0. g = generation[c] /\ g < MaxGeneration /\ family[c] = "live" /\ ~Removed(c)
  BY UnusedIsNewest DEF refresh, CanRotate, KnownToken, Usable, identityPermits, RemovalInv,
     Underway, Removed
<1>1. g = generation[c] /\ g + 1 \in Generations
  BY <1>0 DEF AuthAssumption, Generations
<1>2. AuthTypes'
  BY <1>1 DEF refresh, codeVars, Standings, AccessStates
<1>3. Beginnings'
  BY <1>0, <1>2 DEF refresh, codeVars, Beginnings, NoTrace, Unexchanged
<1>4. UsedAreOlder'
  BY <1>1 DEF refresh, UsedAreOlder, AuthAssumption, Generations
<1>5. EndedIsPowerless' /\ ApprovedIsRequested'
  BY <1>0 DEF refresh, codeVars, EndedIsPowerless, ApprovedIsRequested
<1>6. RemovalInv'
  BY <1>0 DEF refresh, codeVars, RemovalInv, Underway, GrantNeedsFamily, RemovedIsCutOff, Removed
<1> QED
  BY <1>2, <1>3, <1>4, <1>5, <1>6

\* The minting request looks the family up again.
LEMMA MintGrantInv ==
  ASSUME AuthInv, NEW c \in Codes, MintGrant(c)
  PROVE  AuthInv'
<1> USE DEF AuthInv, AuthTypes
<1>1. AuthTypes'
  BY DEF MintGrant, codeVars, tokenVars
<1>2. Beginnings' /\ UsedAreOlder' /\ ApprovedIsRequested'
  BY DEF MintGrant, codeVars, tokenVars, Beginnings, NoTrace, Unexchanged, UsedAreOlder,
         ApprovedIsRequested
<1>3. EndedIsPowerless'
  BY DEF MintGrant, tokenVars, Usable, EndedIsPowerless
<1>4. RemovalInv'
  BY DEF MintGrant, Usable, codeVars, tokenVars, RemovalInv, Underway, GrantNeedsFamily,
     RemovedIsCutOff, Removed
<1> QED
  BY <1>1, <1>2, <1>3, <1>4

\* An access token changes to a state that is not live.
LEMMA AccessEndsInv ==
  ASSUME AuthInv, NEW c \in Codes, NEW g \in Generations, NEW to \in {"expired", "gone"},
         access[c][g] # "none", access' = [access EXCEPT ![c][g] = to],
         UNCHANGED <<codeVars, family, famExpired, generation, used, rested, minting, grant, txn, role>>
  PROVE  AuthInv'
<1> USE DEF AuthInv, AuthTypes
<1>1. AuthTypes'
  BY DEF codeVars, AccessStates
<1>2. Beginnings'
  BY <1>1 DEF codeVars, Beginnings, NoTrace, Unexchanged
<1>3. UsedAreOlder' /\ ApprovedIsRequested'
  BY DEF codeVars, UsedAreOlder, ApprovedIsRequested
<1>4. EndedIsPowerless'
  BY DEF EndedIsPowerless
<1>5. RemovalInv'
  BY DEF codeVars, RemovalInv, Underway, GrantNeedsFamily, RemovedIsCutOff, Removed
<1> QED
  BY <1>1, <1>2, <1>3, <1>4, <1>5

\* Time and roles change nothing that the invariant relates.
LEMMA ExpiryInv ==
  ASSUME AuthInv, NEW c \in Codes, Expiry(c)
  PROVE  AuthInv'
<1> USE DEF AuthInv, AuthTypes
<1>1. CASE CodeExpires(c) \/ PollDue(c)
  <2>1. AuthTypes'
    BY <1>1 DEF CodeExpires, PollDue, tokenVars
  <2> QED
    BY <1>1, <2>1, CodeStepInv
       DEF CodeExpires, PollDue, tokenVars, Unexchanged, ApprovedIsRequested, Removed
<1>2. CASE FamilyExpires(c) \/ TokenRests(c)
  <2>1. AuthTypes'
    BY <1>2 DEF FamilyExpires, TokenRests, codeVars
  <2> QED
    BY <1>2, <2>1 DEF FamilyExpires, TokenRests, codeVars, Beginnings, NoTrace, Unexchanged,
       UsedAreOlder, EndedIsPowerless, ApprovedIsRequested, RemovalInv, Underway, GrantNeedsFamily,
       RemovedIsCutOff, Removed
<1>3. CASE GrantExpires(c)
  <2>1. AuthTypes'
    BY <1>3 DEF GrantExpires, codeVars, tokenVars
  <2> QED
    BY <1>3, <2>1 DEF GrantExpires, codeVars, tokenVars, Beginnings, NoTrace, Unexchanged,
       UsedAreOlder, EndedIsPowerless, ApprovedIsRequested, RemovalInv, Underway, GrantNeedsFamily,
       RemovedIsCutOff, Removed
<1>4. CASE \E g \in Generations : AccessExpires(c, g)
  BY <1>4, AccessEndsInv DEF AccessExpires
<1> QED
  BY <1>1, <1>2, <1>3, <1>4 DEF Expiry

\* The retention job.
LEMMA RetentionInv ==
  ASSUME AuthInv, NEW c \in Codes, Retention(c)
  PROVE  AuthInv'
<1> USE DEF AuthInv, AuthTypes
<1>1. CASE reapFamily(c)
  <2> DEFINE gone == [g \in Generations |-> "gone"]
  <2>1. access' = [access EXCEPT ![c] = gone]
    BY <1>1 DEF reapFamily
  <2>2. gone \in [Generations -> AccessStates]
    BY DEF AccessStates
  <2> HIDE DEF gone
  <2>3. AuthTypes'
    BY <1>1, <2>1, <2>2 DEF reapFamily, Standings, Statuses
  <2>4. Beginnings'
    BY <1>1, <2>1, <2>3 DEF reapFamily, Beginnings, NoTrace, Unexchanged
  <2>5. UsedAreOlder' /\ ApprovedIsRequested'
    BY <1>1 DEF reapFamily, UsedAreOlder, ApprovedIsRequested
  <2>6. EndedIsPowerless'
    BY <1>1, <2>1 DEF reapFamily, EndedIsPowerless
  <2>7. RemovalInv'
    BY <1>1 DEF reapFamily, Free, Beginnings, Unexchanged, RemovalInv, Underway, GrantNeedsFamily,
       RemovedIsCutOff, Removed
  <2> QED
    BY <2>3, <2>4, <2>5, <2>6, <2>7
<1>2. CASE reapAuthorization(c)
  <2>1. AuthTypes'
    BY <1>2 DEF reapAuthorization, tokenVars, Statuses
  <2>2. ApprovedIsRequested'
    BY <1>2 DEF reapAuthorization, ApprovedIsRequested, Statuses
  <2> QED
    BY <1>2, <2>1, <2>2, CodeStepInv DEF reapAuthorization, Unexchanged, Removed
<1>3. CASE \E g \in Generations : reapAccess(c, g)
  BY <1>3, AccessEndsInv DEF reapAccess
<1> QED
  BY <1>1, <1>2, <1>3 DEF Retention

\* A removal takes every family it sees, its access tokens and its grants with it.
LEMMA RemovalKeepsInv ==
  ASSUME AuthInv, NEW u \in Users, remove(u)
  PROVE  AuthInv'
<1> USE DEF AuthInv, AuthTypes
<1> DEFINE Seen == {c \in Codes : approver[c] = u /\ family[c] \notin {"none", "gone"}}
<1>1. /\ role[u] # "none" /\ role' = [role EXCEPT ![u] = "none"] /\ \A c \in Seen : Free(c)
      /\ UNCHANGED <<codeVars, famExpired, generation, used, rested, minting, txn>>
      /\ family' = [c \in Codes |->
           IF c \in Seen /\ family[c] = "live" THEN "revoked" ELSE family[c]]
      /\ grant' = [c \in Codes |->
           IF c \in Seen /\ grant[c] = "live" THEN "revoked" ELSE grant[c]]
      /\ access' = [c \in Codes |-> [g \in Generations |->
           IF c \in Seen /\ access[c][g] \notin {"none", "gone"} THEN "revoked" ELSE access[c][g]]]
  BY DEF remove
<1>2. \A c \in Codes, g \in Generations :
        access'[c][g] = IF c \in Seen /\ access[c][g] \notin {"none", "gone"}
                        THEN "revoked" ELSE access[c][g]
  BY <1>1
<1>3. access' \in [Codes -> [Generations -> AccessStates]]
  BY <1>1 DEF AccessStates
<1>4. AuthTypes'
  BY <1>1, <1>3 DEF codeVars, Standings, Roles
<1>5. Beginnings'
  BY <1>1, <1>2 DEF codeVars, Beginnings, NoTrace, Unexchanged
<1>6. UsedAreOlder' /\ ApprovedIsRequested'
  BY <1>1 DEF codeVars, UsedAreOlder, ApprovedIsRequested
<1>7. EndedIsPowerless'
  BY <1>1, <1>2 DEF RemovalInv, GrantNeedsFamily, EndedIsPowerless
<1>8. \A c \in Codes : Removed(c)' => approver[c] = u \/ Removed(c)
  BY <1>1 DEF codeVars, Removed
<1>9. Underway'
  BY <1>1, <1>8 DEF codeVars, Free, RemovalInv, Underway
<1>10. GrantNeedsFamily' /\ RemovedIsCutOff'
  BY <1>1, <1>8 DEF RemovalInv, GrantNeedsFamily, RemovedIsCutOff
<1>11. RemovalInv'
  BY <1>9, <1>10 DEF RemovalInv
<1> HIDE DEF AuthTypes
<1> QED
  BY <1>4, <1>5, <1>6, <1>7, <1>11

\* Every step of the server keeps the invariant.
LEMMA AuthNextInv == AuthAssumption /\ AuthInv /\ [AuthNext]_authVars => AuthInv'
<1> SUFFICES ASSUME AuthAssumption, AuthInv, [AuthNext]_authVars PROVE AuthInv'
  OBVIOUS
<1>1. CASE UNCHANGED authVars
  <2>1. AuthTypes'
    BY <1>1 DEF AuthInv, AuthTypes, authVars, codeVars, tokenVars
  <2> QED
    BY <1>1, <2>1, CodeStepInv DEF AuthInv, ApprovedIsRequested, Unexchanged, Removed, authVars,
       codeVars, tokenVars
<1>2. ASSUME NEW c \in Codes, ClientRequest(c) PROVE AuthInv'
  <2>1. CASE \E g \in Generations : \/ refreshReuse(c, g) \/ refreshInvalidated(c, g)
                                    \/ refreshExhausted(c, g) \/ revoke(c, g)
                                    \/ accessInvalidated(c, g)
    BY <2>1, EndFamilyInv DEF refreshReuse, refreshInvalidated, refreshExhausted, revoke,
       accessInvalidated, CanRotate, Usable
  <2>2. CASE \E g \in Generations : refresh(c, g)
    BY <2>2, RefreshInv
  <2>3. CASE \E g \in Generations : authenticateAccess(c, g)
    <3>1. AuthTypes'
      BY <2>3 DEF authenticateAccess, AuthInv, AuthTypes, codeVars, tokenVars
    <3> QED
      BY <2>3, <3>1, CodeStepInv DEF authenticateAccess, AuthInv, ApprovedIsRequested,
         Unexchanged, Removed, codeVars
  <2> QED
    BY <1>2, <2>1, <2>2, <2>3, DecisionInv, ExchangeInv, TransactionInv, MintGrantInv
       DEF ClientRequest
<1>3. CASE \E u \in Users, r \in Roles : changeRole(u, r)
  <2>1. AuthTypes'
    BY <1>3 DEF changeRole, AuthInv, AuthTypes, codeVars, tokenVars
  <2>2. \A c \in Codes : Removed(c)' => Removed(c)
    BY <1>3 DEF changeRole, AuthInv, AuthTypes, codeVars, Removed
  <2> QED
    BY <1>3, <2>1, <2>2, CodeStepInv DEF changeRole, AuthInv, ApprovedIsRequested, Unexchanged,
       codeVars
<1>4. ASSUME NEW c \in Codes, Decision(c) \/ Expiry(c) \/ Retention(c) PROVE AuthInv'
  BY <1>4, DecisionInv, ExpiryInv, RetentionInv
<1>5. ASSUME NEW u \in Users, remove(u) PROVE AuthInv'
  BY <1>5, RemovalKeepsInv
<1> QED
  BY <1>1, <1>2, <1>3, <1>4, <1>5 DEF AuthNext

\* The server's invariant holds whatever clients, users, operators and time do.
THEOREM AuthInvariant == AuthAssumption /\ AuthSpec => []AuthInv
<1> SUFFICES ASSUME AuthAssumption PROVE AuthSpec => []AuthInv
  OBVIOUS
<1>1. AuthInit => AuthInv
  BY AuthInitInv
<1>2. AuthInv /\ [AuthNext]_authVars => AuthInv'
  BY AuthNextInv
<1> QED
  BY <1>1, <1>2, PTL DEF AuthSpec

\* The invariant is what device authorization promises.
LEMMA AuthInvSafe == AuthAssumption /\ AuthInv => AuthSafe
<1> SUFFICES ASSUME AuthAssumption, AuthInv PROVE AuthSafe
  OBVIOUS
<1>1. ASSUME NEW c \in Codes PROVE used[c] = 0..generation[c] \ {generation[c]}
  <2>1. generation[c] \in 0..MaxGeneration
    BY DEF AuthInv, AuthTypes, Generations
  <2>2. used[c] = {g \in 0..MaxGeneration : g < generation[c]}
    BY DEF AuthInv, UsedAreOlder, Generations
  <2> QED
    BY <2>1, <2>2 DEF AuthAssumption
<1> QED
  BY <1>1 DEF AuthInv, RemovalInv, AuthSafe, OneUsableToken

\* One token refreshes a login, a login that ended has neither a live access token nor a
\* live gateway grant, and a removed approver has no live grant and no login that ever
\* rotated, for any users, roles, codes and generations, whatever transactions were
\* under way (exchange, refresh, revoke, MintGrant, the triggers of migration 0022).
THEOREM AuthIsSafe == AuthAssumption /\ AuthSpec => []AuthSafe
<1> SUFFICES ASSUME AuthAssumption PROVE AuthSpec => []AuthSafe
  OBVIOUS
<1>1. AuthInv => AuthSafe
  BY AuthInvSafe
<1> QED
  BY <1>1, AuthInvariant, PTL

\* No step mints a gateway grant or rotates a token for a login whose approver is
\* removed: a rotation under way makes the removal wait, and a session request looks the
\* family up again (refresh, MintGrant).
THEOREM RemovedGains == AuthAssumption /\ AuthSpec => [][RemovedGainsNothing]_authVars
<1> SUFFICES ASSUME AuthAssumption PROVE AuthSpec => [][RemovedGainsNothing]_authVars
  OBVIOUS
<1>1. AuthInv /\ [AuthNext]_authVars => [RemovedGainsNothing]_authVars
  <2> SUFFICES ASSUME AuthInv, AuthNext, NEW c \in Codes,
                      generation'[c] # generation[c] \/ (grant[c] # "live" /\ grant'[c] = "live")
               PROVE  ~Removed(c)
    BY DEF RemovedGainsNothing
  <2> USE DEF AuthInv, AuthTypes
  <2>1. ASSUME UNCHANGED <<generation, grant>> PROVE FALSE
    BY <2>1
  <2>2. ASSUME NEW d \in Codes, NEW how, EndFamily(d, how) PROVE FALSE
    BY <2>2 DEF EndFamily
  <2>3. ASSUME NEW d \in Codes, NEW h \in Generations, refresh(d, h) PROVE ~Removed(c)
    BY <2>3 DEF refresh, CanRotate, identityPermits, RemovalInv, Underway, Removed
  <2>4. ASSUME NEW d \in Codes, MintGrant(d) PROVE ~Removed(c)
    BY <2>4 DEF MintGrant, tokenVars, Removed
  <2>5. ASSUME NEW u \in Users, remove(u) PROVE FALSE
    BY <2>5 DEF remove
  <2>6. ASSUME NEW d \in Codes, Retention(d) PROVE FALSE
    BY <2>1, <2>6 DEF Retention, reapFamily, reapAuthorization, reapAccess, tokenVars
  <2>7. ASSUME NEW d \in Codes, Expiry(d) PROVE FALSE
    <3>1. CASE GrantExpires(d)
      BY <3>1 DEF GrantExpires, tokenVars
    <3> QED
      BY <2>1, <2>7, <3>1 DEF Expiry, CodeExpires, PollDue, FamilyExpires, TokenRests,
         AccessExpires, tokenVars
  <2>8. ASSUME NEW d \in Codes, ClientRequest(d) PROVE ~Removed(c)
    BY <2>1, <2>2, <2>3, <2>4, <2>8 DEF ClientRequest, issue, poll, exchangeBegin, exchange,
       exchangeInvalidated, rollback, refreshBegin, refreshReuse, refreshInvalidated,
       refreshExhausted, revoke, authenticateAccess, accessInvalidated, tokenVars
  <2>9. ASSUME NEW d \in Codes, Decision(d) PROVE FALSE
    BY <2>1, <2>9 DEF Decision, deny, approve, tokenVars
  <2>10. ASSUME NEW u \in Users, NEW r \in Roles, changeRole(u, r) PROVE FALSE
    BY <2>1, <2>10 DEF changeRole, tokenVars
  <2> QED
    BY <2>5, <2>6, <2>7, <2>8, <2>9, <2>10 DEF AuthNext
<1> QED
  BY <1>1, AuthInvariant, PTL DEF AuthSpec

-----------------------------------------------------------------------------
(* The command line.  What a step of the server means to those who know a login:   *)
(* Ages(c) is any step but an exchange of c, Still(c) any but a rotation as well.  *)

StaysUsable(c) == family'[c] = "live" /\ ~famExpired'[c]
Ages(c) ==
  /\ status[c] # "absent" => status'[c] # "absent"
  /\ family'[c] = "none" <=> family[c] = "none"
  /\ generation[c] <= generation'[c]
  /\ StaysUsable(c) => Usable(c)
Still(c) == Ages(c) /\ generation'[c] = generation[c]
Quiet == \A c \in Codes : Still(c) /\ (family'[c] = "reused" => family[c] = "reused")

\* Generations are numbers.
LEMMA GenerationIsNat ==
  ASSUME CliAssumption, AuthInv, NEW c \in Codes
  PROVE  generation[c] \in Nat
  BY DEF CliAssumption, AuthAssumption, AuthInv, AuthTypes, Generations

\* A step of p, seen from everybody else.
LEMMA StepInv ==
  ASSUME CliAssumption, AuthInv, CliInv, NEW p \in Procs, NEW to \in Places,
         NEW h \in Sessions \cup {NoSession},
         pc' = [pc EXCEPT ![p] = to], held' = [held EXCEPT ![p] = h],
         AuthInv', late' \subseteq Requests, faults' \in Nat, faults' = 0 => faults = 0,
         \A c \in Codes : Ages(c) \/ (pc[p] = "polling" /\ c = held[p].code),
         faults' = 0 => \A c \in Codes : Still(c) \/ InHand(p, c),
         \/ lock' = lock
         \/ lock' = p /\ lock = NoProc
         \/ lock' = NoProc /\ lock = p,
         \/ stored' = stored
         \/ stored' = held[p] /\ lock = p
         \/ stored' = NoSession /\ lock \in {p, NoProc},
         to # "idle" => \A q \in Procs \ {p} : pc[q] # "idle" => h.code # held[q].code,
         Placed(p)',
         faults' = 0 => /\ late' = {} /\ \A c \in Codes : family'[c] # "reused"
                        /\ Calm(p)' /\ StoreNewest' /\ Kept'
  PROVE  CliInv'
<1> USE DEF CliInv
<1>1. CliTypes'
  BY DEF CliTypes
<1>2. Apart'
  BY DEF Apart, CliTypes
<1> DEFINE Other(q) == q \in Procs /\ q # p
<1>3. ASSUME NEW q, Other(q) PROVE pc'[q] = pc[q] /\ held'[q] = held[q]
  BY <1>3 DEF CliTypes
<1>4. ASSUME NEW s \in Sessions
      PROVE  s.code \in Codes /\ s.gen \in Nat /\ generation[s.code] \in Nat
                              /\ generation'[s.code] \in Nat
  BY DEF Sessions, AuthInv, AuthTypes, Generations, CliAssumption, AuthAssumption
<1>5. NoSession \notin Sessions
  BY DEF CliAssumption, Sessions
<1>6. ASSUME NEW q, Other(q), pc[q] # "idle" PROVE held[q] \in Sessions /\ Ages(held[q].code)
  <2>1. held[q] \in Sessions
    BY <1>6 DEF CliTypes, Placed
  <2> QED
    BY <1>6, <1>4, <2>1 DEF Apart
<1>7. StoreKnown'
  <2>1. CASE stored' = stored /\ stored # NoSession
    <3>1. stored \in Sessions
      BY <2>1 DEF CliTypes
    <3>2. Ages(stored.code)
      BY <1>4, <2>1, <3>1 DEF Placed
    <3> QED
      BY <1>4, <2>1, <3>1, <3>2 DEF StoreKnown, Behind, Ages
  <2>2. CASE stored' = held[p] /\ lock = p /\ held[p] # NoSession
    <3>1. held[p] \in Sessions /\ pc[p] \in Locked
      BY <2>2 DEF CliTypes, Placed
    <3>2. Ages(held[p].code)
      BY <1>4, <3>1 DEF Locked
    <3> QED
      BY <1>4, <2>2, <3>1, <3>2 DEF StoreKnown, Behind, Ages, Placed, Locked
  <2> QED
    BY <2>1, <2>2 DEF StoreKnown
<1>8. ASSUME NEW q, Other(q) PROVE Placed(q)'
  <2> USE <1>3, <1>8
  <2>1. lock' = q <=> lock = q
    BY DEF CliAssumption
  <2>2. pc[q] \in Locked => stored' = stored
    BY DEF Placed, CliAssumption
  <2>3. pc[q] # "idle" => Behind(held[q])'
    BY <1>4, <1>6 DEF Behind, Ages, Placed
  <2>4. pc[q] \in {"polling", "exchanged", "replacing", "saving"} /\ stored' # NoSession =>
          stored'.code # held[q].code
    BY <1>5 DEF Placed, Apart, Locked
  <2> QED
    BY <1>6, <2>1, <2>2, <2>3, <2>4 DEF Usable, StaysUsable, Placed, Ages, Locked
<1>9. ASSUME faults' = 0, NEW q, Other(q) PROVE Calm(q)'
  <2> USE <1>3, <1>9
  <2>1. pc[q] \in Locked => stored' = stored
    BY DEF Placed, CliAssumption
  <2>2. pc[q] # "idle" => Still(held[q].code)
    BY <1>4, <1>6 DEF Apart, InHand
  <2>3. ASSUME pc[q] \in Locked, stored # NoSession PROVE Ages(stored.code)
    <3>1. stored \in Sessions
      BY <2>3 DEF CliTypes
    <3> QED
      BY <1>4, <2>3, <3>1 DEF Placed
  <2>4. Calm(q)
    BY DEF Undisturbed
  <2> QED
    BY <1>6, <2>1, <2>2, <2>3, <2>4 DEF Usable, StaysUsable, Calm, Current, Still, Ages, Locked
<1> QED
  BY <1>1, <1>2, <1>7, <1>8, <1>9 DEF Undisturbed

-----------------------------------------------------------------------------
(* What the server's transactions mean to the command line. *)

\* The server at rest is quiet.
LEMMA UnchangedIsQuiet == CliAssumption /\ AuthInv /\ UNCHANGED authVars => Quiet
<1> SUFFICES ASSUME CliAssumption, AuthInv, UNCHANGED authVars, NEW c \in Codes
             PROVE  Still(c) /\ (family'[c] = "reused" => family[c] = "reused")
  BY DEF Quiet
<1> QED
  BY GenerationIsNat DEF Still, Ages, Usable, StaysUsable, authVars, codeVars, tokenVars

\* A family that ends: for good, and nobody is accused.
LEMMA EndIsStill ==
  ASSUME CliAssumption, AuthInv, NEW c \in Codes, family[c] # "none",
         NEW how \in {"revoked", "reused"}, EndFamily(c, how)
  PROVE  /\ \A d \in Codes : Still(d)
         /\ how = "revoked" => Quiet
         /\ ~StaysUsable(c)
<1>1. ASSUME NEW d \in Codes PROVE Still(d) /\ (d # c => family'[d] = family[d])
  BY GenerationIsNat DEF AuthInv, AuthTypes, EndFamily, codeVars, Still, Ages, Usable, StaysUsable
<1> QED
  BY <1>1 DEF AuthInv, AuthTypes, EndFamily, Quiet, Usable, StaysUsable

\* revoke answers 204 also for a login that is over; it is over then in any case.
LEMMA RevokedEnds ==
  ASSUME CliAssumption, AuthInv, NEW s \in Sessions, Behind(s), family[s.code] # "none",
         Revoked(s)
  PROVE  Quiet /\ ~StaysUsable(s.code)
<1>1. s.code \in Codes
  BY DEF Sessions
<1>2. CASE revoke(s.code, s.gen)
  BY <1>1, <1>2, EndIsStill DEF revoke
<1>3. CASE ~(Usable(s.code) /\ KnownToken(s.code, s.gen)) /\ UNCHANGED authVars
  <2>1. ~Usable(s.code)
    BY <1>3 DEF KnownToken, Behind, Usable, StaysUsable
  <2> QED
    BY <1>3, <2>1, UnchangedIsQuiet DEF Usable, StaysUsable, authVars, tokenVars
<1> QED
  BY <1>2, <1>3 DEF Revoked

\* A refused refresh ends the login or finds it ended; it accuses only a used token.
LEMMA RefusedEnds ==
  ASSUME CliAssumption, AuthInv, NEW s \in Sessions, Refused(s)
  PROVE  /\ \A c \in Codes : Still(c)
         /\ ~StaysUsable(s.code)
         /\ ~(Usable(s.code) /\ s.gen \in used[s.code]) => Quiet
<1>1. s.code \in Codes
  BY DEF Sessions
<1>2. CASE refreshReuse(s.code, s.gen) \/ refreshInvalidated(s.code, s.gen)
  BY <1>1, <1>2, EndIsStill DEF refreshReuse, refreshInvalidated, Usable, StaysUsable
<1>3. CASE ~Usable(s.code) /\ UNCHANGED authVars
  BY <1>3, UnchangedIsQuiet DEF Quiet, Usable, StaysUsable, authVars, tokenVars
<1> QED
  BY <1>2, <1>3 DEF Refused

\* A rotation that is refused for its number ends the family.
LEMMA ExhaustedIsQuiet ==
  ASSUME CliAssumption, AuthInv, NEW c \in Codes, NEW g \in Generations, refreshExhausted(c, g)
  PROVE  Quiet
  BY EndIsStill DEF refreshExhausted, CanRotate, Usable, StaysUsable

\* A rotation ages what the command line holds.
LEMMA RotationAges ==
  ASSUME CliAssumption, AuthInv, NEW c \in Codes, NEW g \in Generations, refresh(c, g)
  PROVE  /\ Ages(c) /\ (\A d \in Codes \ {c} : Still(d)) /\ family' = family
         /\ generation' = [generation EXCEPT ![c] = g + 1] /\ g = generation[c]
         /\ family[c] # "none"
<1>1. AuthAssumption /\ g = generation[c] /\ g \in Nat /\ family[c] = "live"
  BY UnusedIsNewest, GenerationIsNat DEF CliAssumption, refresh, CanRotate, KnownToken, Usable,
     AuthInv, RemovalInv, Underway
<1> QED
  BY <1>1, GenerationIsNat DEF AuthInv, AuthTypes, refresh, codeVars, Still, Ages, Usable, StaysUsable

\* The steps that touch only codes, and time.
LEMMA CodeIsQuiet ==
  ASSUME CliAssumption, AuthInv, NEW c \in Codes,
         \/ \E S : issue(c, S)
         \/ \E u, S : approve(c, u, S)
         \/ \E u : deny(c, u)
         \/ exchangeInvalidated(c) \/ Expiry(c)
  PROVE  Quiet
<1>1. ASSUME UNCHANGED <<family, famExpired, generation>>,
             \A d \in Codes : status[d] # "absent" => status'[d] # "absent"
      PROVE  Quiet
  BY <1>1, GenerationIsNat DEF Quiet, Still, Ages, Usable, StaysUsable
<1>2. CASE FamilyExpires(c)
  BY <1>2, GenerationIsNat DEF FamilyExpires, codeVars, Quiet, Still, Ages, Usable, StaysUsable, AuthInv,
     AuthTypes
<1>3. CASE \/ \E S : issue(c, S)
           \/ \E u, S : approve(c, u, S)
           \/ \E u : deny(c, u)
           \/ exchangeInvalidated(c)
  BY <1>1, <1>3 DEF issue, approve, deny, exchangeInvalidated, tokenVars, AuthInv, AuthTypes
<1>4. CASE Expiry(c)
  BY <1>1, <1>2, <1>4 DEF Expiry, CodeExpires, PollDue, TokenRests, GrantExpires, AccessExpires,
     codeVars, tokenVars
<1> QED
  BY <1>3, <1>4

\* An exchange starts the family of its code.
LEMMA ExchangeStarts ==
  ASSUME CliAssumption, AuthInv, NEW c \in Codes, exchange(c)
  PROVE  /\ family[c] = "none" /\ generation[c] = 0 /\ generation' = generation
         /\ family' = [family EXCEPT ![c] = "live"]
         /\ status' = [status EXCEPT ![c] = "consumed"]
         /\ \A d \in Codes \ {c} : Still(d)
<1>1. family[c] = "none" /\ generation[c] = 0
  BY DEF AuthInv, Beginnings, NoTrace, Unexchanged, RemovalInv, Underway, exchange, CanExchange
<1> QED
  BY <1>1, GenerationIsNat DEF AuthInv, AuthTypes, exchange, Still, Ages, Usable, StaysUsable

-----------------------------------------------------------------------------
(* The steps of a process. *)

\* A login that stays usable stays in the store or in the hands of the process.
Handed(p) ==
  \A c \in Codes : StaysUsable(c) /\ (InStore(c) \/ InHand(p, c)) => InStore(c)' \/ InHand(p, c)'

\* A step of one process while the server is quiet.
LEMMA QuietStep ==
  ASSUME CliAssumption, AuthInv, AuthInv', CliInv, NEW p \in Procs, NEW to \in Places,
         NEW h \in Sessions \cup {NoSession},
         pc' = [pc EXCEPT ![p] = to], held' = [held EXCEPT ![p] = h],
         UNCHANGED <<late, faults>>, \A c \in Codes : Still(c),
         \/ lock' = lock
         \/ lock' = p /\ lock = NoProc
         \/ lock' = NoProc /\ lock = p,
         \/ stored' = stored
         \/ stored' = held[p] /\ lock = p
         \/ stored' = NoSession /\ lock \in {p, NoProc},
         to # "idle" => \A q \in Procs \ {p} : pc[q] # "idle" => h.code # held[q].code,
         Placed(p)',
         faults = 0 => Quiet /\ Calm(p)' /\ StoreNewest' /\ Handed(p)
  PROVE  CliInv'
<1>1. late \subseteq Requests /\ faults \in Nat
  BY DEF CliInv, CliTypes
<1>2. ASSUME faults = 0 PROVE Kept'
  <2> SUFFICES ASSUME NEW c \in Codes, StaysUsable(c)
               PROVE  InStore(c)' \/ \E q \in Procs : InHand(q, c)'
    BY DEF Usable, StaysUsable, Kept
  <2>1. InStore(c) \/ \E q \in Procs : InHand(q, c)
    BY <1>2 DEF Still, Ages, CliInv, Undisturbed, Kept
  <2>2. ASSUME NEW q \in Procs, q # p, InHand(q, c) PROVE InHand(q, c)'
    BY <2>2 DEF InHand, CliInv, CliTypes
  <2>3. CASE InStore(c) \/ InHand(p, c)
    BY <1>2, <2>3 DEF Handed
  <2> QED
    BY <2>1, <2>2, <2>3
<1>3. faults = 0 => \A c \in Codes : family'[c] # "reused"
  BY DEF Quiet, CliInv, Undisturbed
<1>4. faults = 0 => late' = {}
  BY DEF CliInv, Undisturbed
<1>5. \A c \in Codes : Ages(c)
  BY DEF Still
<1> QED
  BY <1>1, <1>2, <1>3, <1>4, <1>5, StepInv

\* What every step of p starts from.
LEMMA Here ==
  ASSUME CliAssumption, CliInv, NEW p \in Procs
  PROVE  /\ Placed(p) /\ (faults = 0 => Calm(p) /\ StoreNewest)
         /\ NoSession \notin Sessions /\ NoProc \notin Procs
         /\ lock \in Procs \cup {NoProc} /\ stored \in Sessions \cup {NoSession}
         /\ held = [held EXCEPT ![p] = held[p]] /\ pc[p] \in Places
         /\ pc[p] # "idle" => /\ held[p] \in Sessions /\ held[p].code \in Codes
                              /\ \A q \in Procs \ {p} : pc[q] # "idle" =>
                                                          held[p].code # held[q].code
         /\ stored # NoSession => stored \in Sessions /\ stored.code \in Codes
  BY DEF CliAssumption, CliInv, CliTypes, Placed, Undisturbed, Apart, Sessions

\* The store stays the newest unless a rotation ends here or another one begins.
LEMMA NewestStays ==
  ASSUME CliAssumption, CliInv, StoreNewest, NEW p \in Procs, NEW to \in Places,
         pc' = [pc EXCEPT ![p] = to], stored' = stored, Quiet,
         pc[p] \notin {"rotated", "abort"} \/ to \in {"rotated", "abort"}
  PROVE  StoreNewest'
<1> SUFFICES ASSUME stored # NoSession, ~Rotating' PROVE Current(stored)'
  BY DEF StoreNewest
<1>1. ~Rotating
  BY DEF Rotating, CliInv, CliTypes
<1>2. stored.code \in Codes
  BY Here
<1> QED
  BY <1>1, <1>2 DEF Usable, StaysUsable, StoreNewest, Current, Quiet, Still, Ages

\* A login begins.
LEMMA LoginBeginInv ==
  ASSUME CliAssumption, AuthInv, AuthInv', CliInv, NEW p \in Procs, LoginBegin(p)
  PROVE  CliInv'
<1> PICK c \in Codes : issue(c, {"machines:write"}) /\ held' = [held EXCEPT ![p] = Token(c, 0)]
  BY DEF LoginBegin
<1>1. Quiet
  BY CodeIsQuiet
<1>2. status[c] = "absent" /\ family[c] = "none" /\ generation[c] = 0
  BY DEF issue, AuthInv, Beginnings, NoTrace, Unexchanged
<1>3. Token(c, 0) \in Sessions
  BY DEF Token, Sessions, CliAssumption, AuthAssumption, Generations
<1>4. Token(c, 0).code = c /\ Token(c, 0).gen = 0
  BY DEF Token
<1> HIDE DEF Token
<1>5. ASSUME NEW q \in Procs, pc[q] # "idle" PROVE held[q].code # c
  BY <1>2, <1>5 DEF CliInv, Placed, Behind
<1>6. stored # NoSession => stored.code # c
  BY <1>2 DEF CliInv, StoreKnown, Behind
<1>7. Placed(p)'
  BY <1>1, <1>2, <1>3, <1>4, <1>6, Here DEF LoginBegin, Go, issue, tokenVars, Placed, Behind,
     Locked, CliInv, CliTypes, AuthInv, AuthTypes
<1>8. ASSUME faults = 0 PROVE Calm(p)' /\ StoreNewest' /\ Handed(p)
  <2>1. StoreNewest'
    BY <1>1, <1>8, NewestStays, Here DEF LoginBegin, Go, Places
  <2> QED
    BY <1>1, <1>2, <1>3, <1>4, <1>8, <2>1, Here DEF LoginBegin, Go, Calm, Current, Handed, InStore,
       InHand, issue, tokenVars, Usable, StaysUsable, CliInv, CliTypes
<1> QED
  BY <1>1, <1>3, <1>4, <1>5, <1>7, <1>8, QuietStep DEF LoginBegin, Go, Places, Quiet

\* A process that drops a login which is over, or which is in the store, just goes.
LEMMA FinishInv ==
  ASSUME CliAssumption, AuthInv, AuthInv', CliInv, NEW p \in Procs, Quiet, Finish(p),
         pc[p] # "idle", UNCHANGED <<late, faults>>,
         stored' = stored \/ (stored' = NoSession /\ lock = p),
         StaysUsable(held[p].code) => stored' # NoSession /\ stored'.code = held[p].code,
         \/ stored' = stored
         \/ stored # NoSession /\ stored.code = held[p].code
         \/ faults = 0 /\ stored # NoSession => ~StaysUsable(stored.code),
         faults = 0 => StoreNewest'
  PROVE  CliInv'
<1>1. Placed(p)'
  BY Here DEF Finish, Go, Placed, Locked, CliInv, CliTypes
<1>2. Calm(p)'
  BY Here DEF Finish, Go, Calm, CliInv, CliTypes
<1>3. faults = 0 => Handed(p)
  BY Here DEF Handed, InStore, InHand
<1>4. \/ lock' = lock
      \/ lock' = NoProc /\ lock = p
  BY DEF Finish
<1> QED
  BY <1>1, <1>2, <1>3, <1>4, QuietStep DEF Finish, Go, Quiet, Places

\* pollDeviceToken with a token.
LEMMA LoginExchangeInv ==
  ASSUME CliAssumption, AuthInv, AuthInv', CliInv, NEW p \in Procs, pc[p] = "polling",
         exchange(held[p].code), Go(p, "exchanged"), UNCHANGED <<held, stored, lock, late, faults>>
  PROVE  CliInv'
<1> DEFINE c == held[p].code
<1>0. c \in Codes
  BY Here
<1>1. /\ family[c] = "none" /\ generation[c] = 0 /\ generation' = generation
      /\ family' = [family EXCEPT ![c] = "live"] /\ status' = [status EXCEPT ![c] = "consumed"]
      /\ \A d \in Codes \ {c} : Still(d)
  BY <1>0, ExchangeStarts
<1>2. family'[c] = "live" /\ status'[c] = "consumed" /\ generation'[c] = 0
  BY <1>0, <1>1 DEF AuthInv, AuthTypes
<1>3. held[p].gen = 0
  BY <1>1, Here DEF Placed, Behind, Sessions, Generations, CliAssumption, AuthAssumption
<1>4. stored # NoSession => stored.code # c
  BY <1>1, Here DEF CliInv, StoreKnown
<1>5. pc'[p] = "exchanged" /\ held'[p] = held[p]
  BY DEF Go, CliInv, CliTypes
<1>6. Placed(p)'
  BY <1>2, <1>3, <1>4, <1>5, Here DEF Placed, Behind, Locked
<1>7. ASSUME faults' = 0
      PROVE  /\ late' = {} /\ \A d \in Codes : family'[d] # "reused"
             /\ Calm(p)' /\ StoreNewest' /\ Kept'
  <2>1. late' = {} /\ \A d \in Codes : family'[d] # "reused"
    BY <1>1, <1>7 DEF CliInv, Undisturbed, AuthInv, AuthTypes
  <2>2. Calm(p)'
    BY <1>2, <1>3, <1>5 DEF Calm, Current
  <2>3. StoreNewest'
    <3> SUFFICES ASSUME stored # NoSession, ~Rotating' PROVE Current(stored)'
      BY DEF StoreNewest
    <3>1. ~Rotating
      BY DEF Rotating, Go, CliInv, CliTypes
    <3>2. Still(stored.code)
      BY <1>1, <1>4, Here
    <3> QED
      BY <1>7, <3>1, <3>2, Here DEF Usable, StaysUsable, StoreNewest, Current, Still, Ages
  <2>4. Kept'
    <3> SUFFICES ASSUME NEW d \in Codes, StaysUsable(d)
                 PROVE  InStore(d)' \/ \E q \in Procs : InHand(q, d)'
      BY DEF Usable, StaysUsable, Kept
    <3>1. CASE d = c
      BY <1>5, <3>1 DEF InHand
    <3>2. CASE d # c
      <4>1. InStore(d) \/ \E q \in Procs : InHand(q, d)
        BY <1>1, <1>7, <3>2 DEF Still, Ages, CliInv, Undisturbed, Kept
      <4>2. ASSUME NEW q \in Procs, InHand(q, d) PROVE InHand(q, d)'
        BY <4>2 DEF InHand, Go, CliInv, CliTypes
      <4> QED
        BY <4>1, <4>2 DEF InStore
    <3> QED
      BY <3>1, <3>2
  <2> QED
    BY <2>1, <2>2, <2>3, <2>4
<1>8. \A d \in Codes : Still(d) \/ (pc[p] = "polling" /\ d = held[p].code)
  BY <1>1
<1>9. late' \subseteq Requests /\ faults' \in Nat
  BY DEF CliInv, CliTypes
<1> QED
  BY <1>6, <1>7, <1>8, <1>9, Here, StepInv DEF Go, Places, Still, InHand

\* A login polls, and may be given its first session.
LEMMA LoginPollInv ==
  ASSUME CliAssumption, AuthInv, AuthInv', CliInv, NEW p \in Procs, LoginPoll(p)
  PROVE  CliInv'
<1> DEFINE c == held[p].code
<1>0. pc[p] = "polling" /\ c \in Codes /\ family[c] = "none"
  BY Here DEF LoginPoll, Placed
<1>1. CASE exchange(c) /\ Go(p, "exchanged") /\ UNCHANGED <<held, lock>>
  BY <1>0, <1>1, LoginExchangeInv DEF LoginPoll
<1>2. CASE (exchangeInvalidated(c) \/ UNCHANGED authVars) /\ Finish(p)
  <2>1. Quiet
    BY <1>0, <1>2, CodeIsQuiet, UnchangedIsQuiet
  <2>2. ~StaysUsable(c)
    BY <1>0, <2>1 DEF Quiet, Still, Ages, Usable, StaysUsable
  <2>3. faults = 0 => StoreNewest'
    BY <1>0, <1>2, <2>1, Here, NewestStays DEF LoginPoll, Finish, Go, Places
  <2> QED
    BY <1>0, <1>2, <2>1, <2>2, <2>3, FinishInv DEF LoginPoll
<1> QED
  BY <1>1, <1>2 DEF LoginPoll

\* A login takes the lock before it saves.
LEMMA LoginLockInv ==
  ASSUME CliAssumption, AuthInv, AuthInv', CliInv, NEW p \in Procs, LoginLock(p)
  PROVE  CliInv'
<1> DEFINE to == IF stored # NoSession THEN "replacing" ELSE "saving"
<1>1. Quiet
  BY UnchangedIsQuiet DEF LoginLock
<1>2. pc'[p] = to /\ held'[p] = held[p] /\ lock' = p /\ lock = NoProc /\ stored' = stored
  BY DEF LoginLock, Go, Acquire, CliInv, CliTypes
<1>3. pc[p] = "exchanged" /\ to \in {"replacing", "saving"} /\ pc' = [pc EXCEPT ![p] = to]
  BY DEF LoginLock, Go
<1>4. Placed(p)'
  BY <1>1, <1>2, <1>3, Here DEF Placed, Behind, Locked, LoginLock, authVars, codeVars, tokenVars
<1>5. ASSUME faults = 0 PROVE Calm(p)' /\ StoreNewest' /\ Handed(p)
  <2>1. StoreNewest'
    BY <1>1, <1>2, <1>3, <1>5, Here, NewestStays DEF Places, Locked
  <2> QED
    BY <1>1, <1>2, <1>3, <1>5, <2>1, Here DEF Usable, StaysUsable, Calm, Current, Quiet, Still, Ages, Handed, InStore,
       InHand
<1> QED
  BY <1>1, <1>2, <1>3, <1>4, <1>5, Here, QuietStep DEF Places, Locked, Quiet, LoginLock

\* A login that does not get the lock revokes its new token and leaves the store alone.
LEMMA LoginLockFailsInv ==
  ASSUME CliAssumption, AuthInv, AuthInv', CliInv, NEW p \in Procs, LoginLockFails(p)
  PROVE  CliInv'
<1>1. pc[p] = "exchanged" /\ UNCHANGED <<stored, late, faults>> /\ Finish(p)
  BY DEF LoginLockFails
<1>2. Quiet /\ ~StaysUsable(held[p].code)
  BY <1>1, Here, RevokedEnds DEF LoginLockFails, Placed
<1>3. faults = 0 => StoreNewest'
  BY <1>1, <1>2, Here, NewestStays DEF Finish, Go, Places
<1> QED
  BY <1>1, <1>2, <1>3, FinishInv

\* A login that replaces a session revokes that first.
LEMMA LoginReplaceInv ==
  ASSUME CliAssumption, AuthInv, AuthInv', CliInv, NEW p \in Procs, LoginReplace(p)
  PROVE  CliInv'
<1>1. pc[p] = "replacing" /\ stored # NoSession /\ pc' = [pc EXCEPT ![p] = "saving"]
  BY Here DEF LoginReplace, Placed, Go
<1>2. Quiet /\ ~StaysUsable(stored.code)
  BY <1>1, Here, RevokedEnds DEF LoginReplace, CliInv, StoreKnown
<1>3. pc'[p] = "saving" /\ held'[p] = held[p] /\ UNCHANGED <<stored, lock, held, late, faults>>
  BY <1>1 DEF LoginReplace, CliInv, CliTypes
<1>4. Placed(p)'
  BY <1>1, <1>2, <1>3, Here DEF Placed, Behind, Locked, Quiet, Still, Ages
<1>5. ASSUME faults = 0 PROVE Calm(p)' /\ StoreNewest' /\ Handed(p)
  <2>1. StoreNewest'
    BY <1>1, <1>2, <1>3, <1>5, Here, NewestStays DEF Places, Locked
  <2> QED
    BY <1>1, <1>2, <1>3, <1>5, <2>1, Here DEF Usable, StaysUsable, Calm, Current, Quiet, Still, Ages, Handed, InStore,
       InHand
<1> QED
  BY <1>1, <1>2, <1>3, <1>4, <1>5, Here, QuietStep DEF Places, Locked, Quiet

\* The new login is in the store, or may be and will be undone.
LEMMA SaveInv ==
  ASSUME CliAssumption, AuthInv, AuthInv', CliInv, NEW p \in Procs, Save(p)
  PROVE  CliInv'
<1>1. pc[p] = "saving" /\ Quiet /\ lock = p /\ UNCHANGED <<late, faults>> /\ UNCHANGED authVars
  BY Here, UnchangedIsQuiet DEF Save, Placed, Locked
<1>2. PICK to \in {"idle", "undo"} :
        /\ pc' = [pc EXCEPT ![p] = to]
        /\ held' = [held EXCEPT ![p] = IF to = "idle" THEN NoSession ELSE held[p]]
        /\ lock' = IF to = "idle" THEN NoProc ELSE p
        /\ stored' = held[p] \/ (to = "undo" /\ stored' = stored)
  BY <1>1, Here DEF Save, Finish, Go
<1>3. to \in Places /\ pc'[p] = to /\ held'[p] = IF to = "idle" THEN NoSession ELSE held[p]
  BY <1>2 DEF CliInv, CliTypes, Places, Locked
<1>4. Placed(p)'
  BY <1>1, <1>2, <1>3, Here DEF Placed, Behind, Locked, authVars, codeVars, tokenVars
<1>5. ASSUME faults = 0 PROVE Calm(p)' /\ StoreNewest' /\ Handed(p)
  <2>1. Calm(p)'
    BY <1>1, <1>2, <1>3, <1>5, Here DEF Calm, Current, Usable, authVars, tokenVars
  <2>2. StoreNewest'
    <3>1. CASE stored' = stored
      BY <1>1, <1>2, <1>3, <1>5, <3>1, Here, NewestStays
    <3>2. CASE stored' = held[p]
      BY <1>1, <1>5, <3>2, Here DEF StoreNewest, Calm, Current, Usable, authVars, tokenVars
    <3> QED
      BY <1>2, <3>1, <3>2
  <2>3. Handed(p)
    BY <1>1, <1>2, <1>3, <1>5, Here DEF Handed, InStore, InHand, Calm, Usable, StaysUsable,
       authVars, tokenVars
  <2> QED
    BY <2>1, <2>2, <2>3
<1> QED
  BY <1>1, <1>2, <1>3, <1>4, <1>5, Here, QuietStep DEF Quiet

\* The rollback leaves no login behind: the new one is revoked, and what it may have
\* replaced was revoked before.
LEMMA UndoInv ==
  ASSUME CliAssumption, AuthInv, AuthInv', CliInv, NEW p \in Procs, Undo(p)
  PROVE  CliInv'
<1>1. /\ pc[p] \in {"undo", "abort"} /\ lock = p /\ UNCHANGED <<late, faults>> /\ Finish(p)
      /\ stored' = IF pc[p] = "undo" THEN NoSession ELSE stored
  BY Here DEF Undo, Placed, Locked
<1>2. Quiet /\ ~StaysUsable(held[p].code)
  BY <1>1, Here, RevokedEnds DEF Undo, Placed
<1>3. ASSUME faults = 0, stored # NoSession PROVE ~StaysUsable(stored.code)
  BY <1>1, <1>2, <1>3, Here DEF Calm, Quiet, Still, Ages
<1>4. faults = 0 => StoreNewest'
  BY <1>1, <1>3 DEF StoreNewest, Current, Usable, StaysUsable
<1> QED
  BY <1>1, <1>2, <1>3, <1>4, FinishInv

\* A login past its expiry is over for the server as well.
LEMMA UseExpiredInv ==
  ASSUME CliAssumption, AuthInv, AuthInv', CliInv, NEW p \in Procs, UseExpired(p)
  PROVE  CliInv'
<1>1. /\ pc[p] = "idle" /\ Quiet /\ lock = NoProc /\ UNCHANGED <<pc, held, lock, late, faults>>
      /\ stored' = NoSession /\ stored # NoSession /\ ~Usable(stored.code) /\ UNCHANGED authVars
  BY UnchangedIsQuiet DEF UseExpired, Usable
<1>2. pc' = [pc EXCEPT ![p] = "idle"] /\ held' = [held EXCEPT ![p] = NoSession]
  BY <1>1, Here DEF Placed, CliInv, CliTypes
<1>3. Placed(p)'
  BY <1>1, Here DEF Placed, Locked
<1>4. Calm(p)' /\ StoreNewest'
  BY <1>1 DEF Calm, StoreNewest
<1>5. Handed(p)
  BY <1>1, Here DEF Handed, InStore, InHand, Quiet, Still, Ages
<1> QED
  BY <1>1, <1>2, <1>3, <1>4, <1>5, QuietStep DEF Places, Quiet

\* A command or a logout takes the stored session under the lock.
LEMMA BeginInv ==
  ASSUME CliAssumption, AuthInv, AuthInv', CliInv, NEW p \in Procs,
         UseBegin(p) \/ LogoutBegin(p)
  PROVE  CliInv'
<1>1. /\ pc[p] = "idle" /\ Quiet /\ lock = NoProc /\ lock' = p /\ UNCHANGED <<stored, late, faults>>
      /\ stored # NoSession /\ UNCHANGED authVars /\ held' = [held EXCEPT ![p] = stored]
  BY UnchangedIsQuiet DEF UseBegin, LogoutBegin, Acquire
<1>2. PICK to \in {"using", "refreshing", "leaving"} : pc' = [pc EXCEPT ![p] = to]
  BY DEF UseBegin, LogoutBegin, Go
<1>3. pc'[p] = to /\ held'[p] = stored /\ to \in Places
  BY <1>1, <1>2 DEF CliInv, CliTypes, Places, Locked
<1>4. ASSUME NEW q \in Procs \ {p}, pc[q] # "idle" PROVE stored.code # held[q].code
  BY <1>1, <1>4, Here DEF CliInv, Placed, Places
<1>5. Placed(p)'
  BY <1>1, <1>2, <1>3, Here DEF Placed, Behind, Locked, CliInv, StoreKnown, authVars, codeVars,
     tokenVars
<1>6. ASSUME faults = 0 PROVE Calm(p)' /\ StoreNewest' /\ Handed(p)
  <2>1. StoreNewest'
    BY <1>1, <1>2, <1>3, <1>6, Here, NewestStays
  <2>2. ~Rotating
    BY <1>1, Here DEF Rotating, CliInv, Placed, Locked
  <2>3. Calm(p)'
    BY <1>1, <1>3, <1>6, <2>2, Here DEF Calm, StoreNewest, Current, Usable, authVars, tokenVars
  <2>4. Handed(p)
    BY <1>1, <1>3 DEF Handed, InStore, InHand
  <2> QED
    BY <2>1, <2>3, <2>4
<1> QED
  BY <1>1, <1>2, <1>3, <1>4, <1>5, <1>6, Here, QuietStep DEF Quiet

\* The steps that end a command whose login stays in the store.
LEMMA DoneInv ==
  ASSUME CliAssumption, AuthInv, AuthInv', CliInv, NEW p \in Procs,
         UseDone(p) \/ UseTurnedAway(p) \/ LogoutDone(p)
  PROVE  CliInv'
<1>1. /\ pc[p] \in {"using", "refreshing", "out"} /\ Finish(p) /\ UNCHANGED <<stored, late, faults>>
      /\ pc' = [pc EXCEPT ![p] = "idle"]
  BY DEF UseDone, UseTurnedAway, LogoutDone, Finish, Go
<1>2. Quiet
  <2>1. held[p].code \in Codes /\ held[p].gen \in Generations
    BY <1>1, Here DEF Sessions
  <2> QED
    BY <2>1, UnchangedIsQuiet, ExhaustedIsQuiet DEF UseDone, UseTurnedAway, LogoutDone
<1>3. StaysUsable(held[p].code) => stored # NoSession /\ stored.code = held[p].code
  BY <1>1, <1>2, Here DEF Placed, Quiet, Still, Ages
<1>4. faults = 0 => StoreNewest'
  BY <1>1, <1>2, Here, NewestStays DEF Places
<1> QED
  BY <1>1, <1>2, <1>3, <1>4, FinishInv

\* The rotated session is the newest; the stored one is behind until it is saved.
LEMMA UseRefreshedInv ==
  ASSUME CliAssumption, AuthInv, AuthInv', CliInv, NEW p \in Procs, UseRefreshed(p)
  PROVE  CliInv'
<1> DEFINE s == held[p]
<1> DEFINE h == [s EXCEPT !.gen = s.gen + 1]
<1>1. /\ pc[p] = "refreshing" /\ refresh(s.code, s.gen) /\ pc' = [pc EXCEPT ![p] = "rotated"]
      /\ held' = [held EXCEPT ![p] = h] /\ UNCHANGED <<stored, lock, late, faults>>
  BY DEF UseRefreshed, Go
<1>2. s \in Sessions /\ s.code \in Codes /\ s.gen \in Generations /\ stored = s /\ lock = p
  BY <1>1, Here DEF Placed, Locked, Sessions
<1>3. /\ Ages(s.code) /\ (\A d \in Codes \ {s.code} : Still(d)) /\ family' = family
      /\ generation' = [generation EXCEPT ![s.code] = s.gen + 1] /\ family[s.code] # "none"
  BY <1>1, <1>2, RotationAges
<1>4. s.gen + 1 \in Generations /\ s.gen \in Nat /\ generation'[s.code] = s.gen + 1
  BY <1>1, <1>2, <1>3 DEF Generations, CliAssumption, AuthAssumption, AuthInv, AuthTypes
<1>5. h \in Sessions /\ h.code = s.code /\ h.gen = s.gen + 1
  BY <1>2, <1>4 DEF Sessions
<1> HIDE DEF h
<1>6. pc'[p] = "rotated" /\ held'[p] = h
  BY <1>1 DEF CliInv, CliTypes
<1>7. Placed(p)'
  BY <1>1, <1>2, <1>3, <1>4, <1>5, <1>6, Here DEF Placed, Behind, Locked, Ages
<1>8. ASSUME faults' = 0
      PROVE  /\ late' = {} /\ \A d \in Codes : family'[d] # "reused"
             /\ Calm(p)' /\ StoreNewest' /\ Kept'
  <2>1. late' = {} /\ \A d \in Codes : family'[d] # "reused"
    BY <1>1, <1>3, <1>8 DEF CliInv, Undisturbed
  <2>2. Calm(p)'
    BY <1>4, <1>5, <1>6 DEF Calm, Current
  <2>3. StoreNewest'
    BY <1>6 DEF StoreNewest, Rotating
  <2>4. Kept'
    <3> SUFFICES ASSUME NEW d \in Codes, Usable(d)'
                 PROVE  InStore(d)' \/ \E q \in Procs : InHand(q, d)'
      BY DEF Kept
    <3>1. Usable(d)
      BY <1>3 DEF Still, Ages, Usable, StaysUsable
    <3>2. InStore(d) \/ \E q \in Procs : InHand(q, d)
      BY <1>1, <1>8, <3>1 DEF CliInv, Undisturbed, Kept
    <3>3. ASSUME NEW q \in Procs, InHand(q, d) PROVE InHand(q, d)'
      BY <1>1, <1>5, <1>6, <3>3 DEF InHand, CliInv, CliTypes
    <3> QED
      BY <1>1, <3>2, <3>3 DEF InStore
  <2> QED
    BY <2>1, <2>2, <2>3, <2>4
<1>9. late' \subseteq Requests /\ faults' \in Nat
  BY <1>1 DEF CliInv, CliTypes
<1>10. \A d \in Codes : Ages(d) /\ (Still(d) \/ InHand(p, d))
  BY <1>1, <1>3 DEF Still, InHand
<1>11. \A q \in Procs \ {p} : pc[q] # "idle" => h.code # held[q].code
  BY <1>1, <1>5, Here
<1> QED
  BY <1>1, <1>5, <1>7, <1>8, <1>9, <1>10, <1>11, StepInv DEF Places, Locked

\* A refusal ends the login; without faults it never accuses, as the token is the newest.
LEMMA UseRefusedInv ==
  ASSUME CliAssumption, AuthInv, AuthInv', CliInv, NEW p \in Procs, UseRefused(p)
  PROVE  CliInv'
<1>1. /\ pc[p] = "refreshing" /\ Refused(held[p]) /\ stored' = NoSession /\ Finish(p)
      /\ UNCHANGED <<late, faults>>
  BY DEF UseRefused
<1>2. held[p] \in Sessions /\ held[p].code \in Codes /\ stored = held[p] /\ lock = p
  BY <1>1, Here DEF Placed, Locked
<1>3. /\ \A c \in Codes : Still(c)
      /\ ~StaysUsable(held[p].code)
      /\ ~(Usable(held[p].code) /\ held[p].gen \in used[held[p].code]) => Quiet
  BY <1>1, <1>2, RefusedEnds
<1>4. faults = 0 => Quiet
  <2>1. faults = 0 /\ Usable(held[p].code) => held[p].gen = generation[held[p].code]
    BY <1>1, Here DEF Calm, Current
  <2>2. generation[held[p].code] \notin used[held[p].code]
    BY <1>2, GenerationIsNat DEF AuthInv, UsedAreOlder
  <2> QED
    BY <1>3, <2>1, <2>2
<1>5. Placed(p)'
  BY <1>1, Here DEF Finish, Go, Placed, Locked, CliInv, CliTypes
<1>6. Calm(p)' /\ StoreNewest'
  BY <1>1, Here DEF Finish, Go, Calm, StoreNewest, CliInv, CliTypes
<1>7. Handed(p)
  BY <1>2, <1>3 DEF Handed, InStore, InHand
<1> QED
  BY <1>1, <1>2, <1>3, <1>4, <1>5, <1>6, <1>7, QuietStep DEF Finish, Go, Places

\* What was rotated under the lock is saved under it.
LEMMA UseSaveInv ==
  ASSUME CliAssumption, AuthInv, AuthInv', CliInv, NEW p \in Procs, UseSave(p)
  PROVE  CliInv'
<1>1. pc[p] = "rotated" /\ Quiet /\ lock = p /\ UNCHANGED <<late, faults>> /\ UNCHANGED authVars
  BY Here, UnchangedIsQuiet DEF UseSave, Placed, Locked
<1>2. PICK to \in {"idle", "abort"} :
        /\ pc' = [pc EXCEPT ![p] = to]
        /\ held' = [held EXCEPT ![p] = IF to = "idle" THEN NoSession ELSE held[p]]
        /\ lock' = IF to = "idle" THEN NoProc ELSE p
        /\ stored' = held[p] \/ (to = "abort" /\ stored' = stored)
  BY <1>1, Here DEF UseSave, Finish, Go
<1>3. to \in Places /\ pc'[p] = to /\ held'[p] = IF to = "idle" THEN NoSession ELSE held[p]
  BY <1>2 DEF CliInv, CliTypes, Places, Locked
<1>4. Placed(p)'
  BY <1>1, <1>2, <1>3, Here DEF Placed, Behind, Locked, authVars, codeVars, tokenVars
<1>5. ASSUME faults = 0 PROVE Calm(p)' /\ StoreNewest' /\ Handed(p)
  <2>1. Calm(p)'
    BY <1>1, <1>2, <1>3, <1>5, Here DEF Placed, Calm, Current, Usable, authVars, tokenVars
  <2>2. StoreNewest'
    <3>1. CASE to = "abort"
      BY <1>3, <3>1 DEF StoreNewest, Rotating
    <3>2. CASE stored' = held[p]
      BY <1>1, <1>5, <3>2, Here DEF StoreNewest, Calm, Current, Usable, authVars, tokenVars
    <3> QED
      BY <1>2, <3>1, <3>2
  <2>3. Handed(p)
    BY <1>1, <1>2, <1>3, Here DEF Placed, Handed, InStore, InHand
  <2> QED
    BY <2>1, <2>2, <2>3
<1> QED
  BY <1>1, <1>2, <1>3, <1>4, <1>5, Here, QuietStep DEF Quiet

\* A logout revokes the session it holds.
LEMMA LogoutRevokeInv ==
  ASSUME CliAssumption, AuthInv, AuthInv', CliInv, NEW p \in Procs, LogoutRevoke(p)
  PROVE  CliInv'
<1>1. /\ pc[p] = "leaving" /\ pc' = [pc EXCEPT ![p] = "forgetting"]
      /\ UNCHANGED <<held, stored, lock, late, faults>>
  BY DEF LogoutRevoke, Go
<1>2. Quiet /\ ~StaysUsable(held[p].code)
  BY <1>1, Here, RevokedEnds DEF LogoutRevoke, Placed
<1>3. pc'[p] = "forgetting" /\ held'[p] = held[p]
  BY <1>1 DEF CliInv, CliTypes
<1>4. Placed(p)'
  BY <1>1, <1>2, <1>3, Here DEF Placed, Behind, Locked, Quiet, Still, Ages, Usable, StaysUsable
<1>5. ASSUME faults = 0 PROVE Calm(p)' /\ StoreNewest' /\ Handed(p)
  <2>1. StoreNewest'
    BY <1>1, <1>2, <1>5, Here, NewestStays DEF Places, Locked
  <2> QED
    BY <1>1, <1>2, <1>3, <2>1 DEF Calm, Current, Handed, InStore, InHand, Usable, StaysUsable
<1> QED
  BY <1>1, <1>2, <1>4, <1>5, Here, QuietStep DEF Places, Locked, Quiet

\* A logout deletes what it has revoked.
LEMMA LogoutDeleteInv ==
  ASSUME CliAssumption, AuthInv, AuthInv', CliInv, NEW p \in Procs, LogoutDelete(p)
  PROVE  CliInv'
<1>1. /\ pc[p] = "forgetting" /\ pc' = [pc EXCEPT ![p] = "out"] /\ stored' = NoSession /\ Quiet
      /\ UNCHANGED <<held, lock, late, faults>> /\ UNCHANGED authVars
  BY UnchangedIsQuiet DEF LogoutDelete, Go
<1>2. stored = held[p] /\ lock = p /\ ~Usable(held[p].code) /\ ~StaysUsable(held[p].code)
  BY <1>1, Here DEF Placed, Locked, Usable, StaysUsable, authVars, tokenVars
<1>3. pc'[p] = "out" /\ held'[p] = held[p]
  BY <1>1 DEF CliInv, CliTypes
<1>4. Placed(p)'
  BY <1>1, <1>2, <1>3, Here DEF Placed, Behind, Locked, Usable, authVars, codeVars, tokenVars
<1>5. Calm(p)' /\ StoreNewest' /\ Handed(p)
  BY <1>1, <1>2, <1>3 DEF Calm, Current, StoreNewest, Handed, InStore, InHand, Usable, StaysUsable
<1> QED
  BY <1>1, <1>2, <1>4, <1>5, Here, QuietStep DEF Places, Locked, Quiet

\* A lost answer or a death: the lock is given back, the store stays as it is.
LEMMA InterruptedInv ==
  ASSUME CliAssumption, AuthInv, AuthInv', CliInv, NEW p \in Procs, Interrupted(p)
  PROVE  CliInv'
<1>1. /\ faults' = faults + 1 /\ pc[p] # "idle" /\ stored' = stored /\ UNCHANGED authVars
      /\ faults \in Nat /\ faults' \in Nat /\ faults' # 0
  BY DEF Interrupted, CliInv, CliTypes
<1>2. late' \subseteq Requests
  <2>1. held[p] \in Sessions
    BY <1>1, Here
  <2>2. pc[p] = "replacing" => stored \in Sessions
    BY Here DEF Placed
  <2>3. Pending(p) \subseteq Requests
    BY <2>1, <2>2 DEF Pending, Requests
  <2> QED
    BY <2>3 DEF Interrupted, CliInv, CliTypes
<1>3. \A c \in Codes : Ages(c)
  BY <1>1, UnchangedIsQuiet DEF Quiet, Still
<1>4. PICK to \in {"idle", "abort"} :
        /\ pc' = [pc EXCEPT ![p] = to]
        /\ held' = [held EXCEPT ![p] = IF to = "idle" THEN NoSession ELSE held[p]]
        /\ lock' = IF to = "idle" /\ lock = p THEN NoProc ELSE lock
        /\ to = "abort" => pc[p] = "replacing"
  BY Here DEF Interrupted, Finish, Go
<1>5. to \in Places /\ pc'[p] = to /\ held'[p] = IF to = "idle" THEN NoSession ELSE held[p]
  BY <1>4 DEF CliInv, CliTypes, Places, Locked
<1>6. Placed(p)'
  BY <1>1, <1>4, <1>5, Here DEF Placed, Behind, Locked, authVars, codeVars, tokenVars
<1>7. \/ lock' = lock
      \/ lock' = NoProc /\ lock = p
  BY <1>4
<1>8. to # "idle" => \A q \in Procs \ {p} : pc[q] # "idle" => held[p].code # held[q].code
  BY <1>1, Here
<1>9. CASE to = "idle"
  BY <1>1, <1>2, <1>3, <1>4, <1>5, <1>6, <1>7, <1>9, StepInv
<1>10. CASE to = "abort"
  BY <1>1, <1>2, <1>3, <1>4, <1>5, <1>6, <1>7, <1>8, <1>10, Here, StepInv
<1> QED
  BY <1>9, <1>10

\* A step that no process takes.
LEMMA OutsideInv ==
  ASSUME CliAssumption, AuthInv, AuthInv', CliInv, UNCHANGED <<pc, held, stored, lock, faults>>,
         late' \subseteq late, \A c \in Codes : Ages(c), faults = 0 => Quiet
  PROVE  CliInv'
<1>1. CliTypes' /\ Apart'
  BY DEF CliInv, CliTypes, Apart
<1>2. ASSUME NEW s \in Sessions
      PROVE  s.code \in Codes /\ s.gen \in Nat /\ generation[s.code] \in Nat
                              /\ generation'[s.code] \in Nat
  BY DEF Sessions, AuthInv, AuthTypes, Generations, CliAssumption, AuthAssumption
<1>3. StoreKnown'
  <2>1. stored # NoSession => stored \in Sessions
    BY DEF CliInv, CliTypes
  <2> QED
    BY <1>2, <2>1 DEF CliInv, StoreKnown, Behind, Ages
<1>4. ASSUME NEW p \in Procs PROVE Placed(p)'
  <2>1. pc[p] # "idle" => held[p] \in Sessions
    BY Here
  <2>2. pc[p] # "idle" => Behind(held[p])'
    BY <1>2, <2>1, Here DEF Placed, Behind, Ages
  <2> QED
    BY <1>2, <2>1, <2>2, Here DEF Placed, Ages, Usable, StaysUsable
<1>5. ASSUME faults = 0 PROVE Undisturbed'
  <2>1. Undisturbed /\ Quiet
    BY <1>5 DEF CliInv
  <2>2. late' = {} /\ \A c \in Codes : family'[c] # "reused"
    BY <2>1 DEF Undisturbed, Quiet
  <2>3. ASSUME NEW p \in Procs PROVE Calm(p)'
    BY <1>5, <2>1, Here DEF Calm, Current, Quiet, Still, Ages, Usable, StaysUsable
  <2>4. StoreNewest'
    <3> SUFFICES ASSUME stored # NoSession, ~Rotating' PROVE Current(stored)'
      BY DEF StoreNewest
    <3>1. ~Rotating /\ stored.code \in Codes
      BY DEF Rotating, CliInv, CliTypes, Sessions
    <3> QED
      BY <2>1, <3>1 DEF Undisturbed, StoreNewest, Current, Quiet, Still, Ages, Usable, StaysUsable
  <2>5. Kept'
    BY <2>1 DEF Undisturbed, Kept, InStore, InHand, Quiet, Still, Ages, Usable, StaysUsable
  <2> QED
    BY <2>2, <2>3, <2>4, <2>5 DEF Undisturbed
<1> QED
  BY <1>1, <1>3, <1>4, <1>5 DEF CliInv

\* A late request may rotate, end or accuse a login, after a fault; it revives none.
LEMMA ExecutedLateInv ==
  ASSUME CliAssumption, AuthInv, AuthInv', CliInv, NEW r \in Requests, ExecutedLate(r)
  PROVE  CliInv'
<1> DEFINE s == r.session
<1>1. /\ s \in Sessions /\ s.code \in Codes /\ s.gen \in Generations /\ r \in late
      /\ late' = late \ {r} /\ UNCHANGED <<pc, held, stored, lock, faults>>
  BY DEF Requests, Sessions, ExecutedLate
<1>2. faults # 0
  BY <1>1 DEF CliInv, Undisturbed
<1>3. CASE Revoked(s)
  <2>1. revoke(s.code, s.gen) => \A c \in Codes : Still(c)
    BY <1>1, EndIsStill DEF revoke, Usable
  <2>2. UNCHANGED authVars => \A c \in Codes : Still(c)
    BY UnchangedIsQuiet DEF Quiet
  <2>3. \A c \in Codes : Ages(c)
    BY <1>3, <2>1, <2>2 DEF Revoked, Still
  <2> QED
    BY <1>1, <1>2, <2>3, OutsideInv
<1>4. CASE refresh(s.code, s.gen)
  <2>1. \A c \in Codes : Ages(c)
    BY <1>1, <1>4, RotationAges DEF Still
  <2> QED
    BY <1>1, <1>2, <2>1, OutsideInv
<1>5. CASE refreshExhausted(s.code, s.gen) \/ Refused(s)
  <2>1. \A c \in Codes : Ages(c)
    BY <1>1, <1>5, ExhaustedIsQuiet, RefusedEnds DEF Quiet, Still
  <2> QED
    BY <1>1, <1>2, <2>1, OutsideInv
<1> QED
  BY <1>3, <1>4, <1>5 DEF ExecutedLate

\* Late answers, deaths and other users keep the invariant.
LEMMA EnvironmentInv ==
  ASSUME CliAssumption, AuthInv, AuthInv', CliInv, Environment \/ UNCHANGED sessionVars
  PROVE  CliInv'
<1>1. Quiet
  BY UnchangedIsQuiet, CodeIsQuiet DEF Environment, Expiry, sessionVars
<1> QED
  BY <1>1, OutsideInv DEF Environment, sessionVars, cliVars, Quiet, Still

-----------------------------------------------------------------------------
(* The composition. *)

\* Whatever the command line does to the server, the server allows.
LEMMA CliStepIsAuthStep ==
  CliAssumption /\ CliInv /\ [CliNext]_sessionVars => [AuthNext]_authVars
<1> SUFFICES ASSUME CliAssumption, CliInv, [CliNext]_sessionVars PROVE [AuthNext]_authVars
  OBVIOUS
<1>1. ASSUME NEW c \in Codes, ClientRequest(c) PROVE AuthNext
  BY <1>1 DEF AuthNext
<1>2. ASSUME NEW s \in Sessions,
             \/ revoke(s.code, s.gen) \/ refresh(s.code, s.gen) \/ refreshReuse(s.code, s.gen)
             \/ refreshInvalidated(s.code, s.gen) \/ refreshExhausted(s.code, s.gen)
      PROVE  AuthNext
  BY <1>1, <1>2 DEF Sessions, ClientRequest
<1>3. ASSUME NEW s \in Sessions, Revoked(s) \/ Refused(s) PROVE [AuthNext]_authVars
  BY <1>2, <1>3 DEF Revoked, Refused
<1>4. CASE UNCHANGED sessionVars
  BY <1>4 DEF sessionVars
<1>5. CASE Environment
  <2>1. {"machines:write"} \in SUBSET Scopes
    BY DEF Scopes
  <2> QED
    BY <1>5, <2>1 DEF Environment, AuthNext, Decision, Expiry
<1>6. ASSUME NEW r \in Requests, ExecutedLate(r) PROVE [AuthNext]_authVars
  BY <1>2, <1>3, <1>6 DEF ExecutedLate, Requests
<1>7. ASSUME NEW p \in Procs, LoginBegin(p) \/ LoginPoll(p) PROVE [AuthNext]_authVars
  <2>1. {"machines:write"} \in SUBSET Scopes
    BY DEF Scopes
  <2>2. pc[p] = "polling" => held[p].code \in Codes
    BY Here
  <2> QED
    BY <1>1, <1>7, <2>1, <2>2 DEF LoginBegin, LoginPoll, ClientRequest
<1>8. ASSUME NEW p \in Procs, \/ LoginLockFails(p) \/ LoginReplace(p) \/ Undo(p)
                              \/ LogoutRevoke(p)
      PROVE  [AuthNext]_authVars
  BY <1>3, <1>8, Here DEF LoginLockFails, LoginReplace, Undo, LogoutRevoke, Placed
<1>9. ASSUME NEW p \in Procs, UseRefreshed(p) \/ UseRefused(p) \/ UseTurnedAway(p)
      PROVE  [AuthNext]_authVars
  BY <1>2, <1>3, <1>9, Here DEF UseRefreshed, UseRefused, UseTurnedAway
<1>10. ASSUME NEW p \in Procs, \/ LoginLock(p) \/ Save(p) \/ UseExpired(p) \/ UseBegin(p)
                               \/ UseDone(p) \/ UseSave(p) \/ LogoutBegin(p) \/ LogoutDelete(p)
                               \/ LogoutDone(p) \/ Interrupted(p)
       PROVE  UNCHANGED authVars
  BY <1>10 DEF LoginLock, Save, UseExpired, UseBegin, UseDone, UseSave, LogoutBegin, LogoutDelete,
     LogoutDone, Interrupted
<1> QED
  BY <1>4, <1>5, <1>6, <1>7, <1>8, <1>9, <1>10 DEF CliNext

\* Nothing is stored at first.
LEMMA CliInitInv == CliAssumption /\ CliInit => SessionInv
<1> SUFFICES ASSUME CliAssumption, CliInit PROVE SessionInv
  OBVIOUS
<1>1. AuthInv
  BY AuthInitInv DEF CliAssumption, CliInit
<1>2. CliTypes /\ StoreKnown /\ Apart
  BY DEF CliInit, NoProcesses, CliTypes, Places, StoreKnown, Apart
<1>3. ASSUME NEW p \in Procs PROVE Placed(p) /\ Calm(p)
  BY DEF CliAssumption, CliInit, NoProcesses, Placed, Calm, Locked
<1>4. Undisturbed
  BY <1>3 DEF CliInit, AuthInit, NoProcesses, Undisturbed, StoreNewest, Kept, Usable
<1> QED
  BY <1>1, <1>2, <1>3, <1>4 DEF SessionInv, CliInv

\* Every step keeps the invariant.
LEMMA CliNextInv == CliAssumption /\ SessionInv /\ [CliNext]_sessionVars => SessionInv'
<1> SUFFICES ASSUME CliAssumption, AuthInv, CliInv, [CliNext]_sessionVars PROVE SessionInv'
  BY DEF SessionInv
<1>1. AuthInv'
  BY CliStepIsAuthStep, AuthNextInv DEF CliAssumption
<1>2. CliInv'
  BY <1>1, LoginBeginInv, LoginPollInv, LoginLockInv, LoginLockFailsInv, LoginReplaceInv, SaveInv, UndoInv,
     UseExpiredInv, BeginInv, DoneInv, UseRefreshedInv, UseRefusedInv, UseSaveInv,
     LogoutRevokeInv, LogoutDeleteInv, InterruptedInv, ExecutedLateInv, EnvironmentInv DEF CliNext
<1> QED
  BY <1>1, <1>2 DEF SessionInv

\* Every invariant above holds in every reachable state.
THEOREM CliInvariant == CliAssumption /\ CliSpec => []SessionInv
<1> SUFFICES ASSUME CliAssumption PROVE CliSpec => []SessionInv
  OBVIOUS
<1>1. CliInit => SessionInv
  BY CliInitInv
<1>2. SessionInv /\ [CliNext]_sessionVars => SessionInv'
  BY CliNextInv
<1> QED
  BY <1>1, <1>2, PTL DEF CliSpec

\* The command line and its server, with lost answers, late requests and deaths, are a
\* behaviour of the server's specification: all that holds of DeviceAuth holds here.
THEOREM CliImplementsAuth == CliAssumption /\ CliSpec => AuthSpec
<1> SUFFICES ASSUME CliAssumption PROVE CliSpec => AuthSpec
  OBVIOUS
<1>1. CliInit => AuthInit
  BY DEF CliInit
<1>2. SessionInv /\ [CliNext]_sessionVars => [AuthNext]_authVars
  BY CliStepIsAuthStep DEF SessionInv
<1> QED
  BY <1>1, <1>2, CliInvariant, PTL DEF CliSpec, AuthSpec

\* For any number of CLI processes and logins: without faults nothing looks like a
\* stolen token and every usable login is known to the store or to a process; with any
\* number of them a logout ends the login on the server, one token refreshes a login,
\* and none serves it after its end (withCredentialLock, authenticatedClientOptions,
\* bc login, bc logout, auth/device.ts).
THEOREM LoginsAreSafe == CliAssumption /\ CliSpec => []LoginsSafe
<1> SUFFICES ASSUME CliAssumption PROVE CliSpec => []LoginsSafe
  OBVIOUS
<1>1. SessionInv => LoginsSafe
  <2> SUFFICES ASSUME SessionInv PROVE LoginsSafe
    OBVIOUS
  <2>1. AuthSafe
    BY AuthInvSafe DEF CliAssumption, SessionInv
  <2>2. NoFalseAlarm
    BY DEF SessionInv, CliInv, Undisturbed, NoFalseAlarm
  <2>3. NoLoginLeftBehind
    BY DEF SessionInv, CliInv, Undisturbed, Kept, InStore, InHand, Placed, NoLoginLeftBehind
  <2>4. LogoutIsFinal
    BY DEF SessionInv, CliInv, Placed, Usable, LogoutIsFinal
  <2> QED
    BY <2>1, <2>2, <2>3, <2>4 DEF LoginsSafe
<1> QED
  BY <1>1, CliInvariant, PTL

-----------------------------------------------------------------------------
(* Row locks. *)

\* No two transactions hold locks that exclude each other.
Compatible ==
  \A c, d \in Calls : c # d => \A l \in locks[c], k \in locks[d] : ~Conflicts(l, k)

ToTake(c) == {todo[c][i] : i \in 1..Len(todo[c])}

Untouched(c) == \A d \in Calls \ {c} : txPc'[d] = txPc[d] /\ todo'[d] = todo[d] /\ locks'[d] = locks[d]

\* What a statement has still to take, less the lock it takes next.
LEMMA TakesNext ==
  ASSUME NEW Lockable, todo \in [Calls -> Seq(Lockable)], NEW c \in Calls, todo[c] # <<>>
  PROVE  /\ Head(todo[c]) \in Lockable /\ Tail(todo[c]) \in Seq(Lockable)
         /\ ToTake(c) = {Head(todo[c])} \cup {Tail(todo[c])[i] : i \in 1..Len(Tail(todo[c]))}
<1>1. PICK s \in Seq(Lockable) : s = todo[c]
  OBVIOUS
<1>2. s # <<>> /\ Len(s) \in Nat /\ Len(s) >= 1
  BY <1>1
<1>3. Head(s) \in Lockable /\ Tail(s) \in Seq(Lockable) /\ Head(s) = s[1] /\ Len(Tail(s)) = Len(s) - 1
      /\ \A i \in 1..Len(Tail(s)) : Tail(s)[i] = s[i + 1]
  BY <1>2
<1>4. {s[i] : i \in 1..Len(s)} = {Head(s)} \cup {Tail(s)[i] : i \in 1..Len(Tail(s))}
  <2>1. ASSUME NEW i \in 1..Len(s)
        PROVE  s[i] \in {Head(s)} \cup {Tail(s)[j] : j \in 1..Len(Tail(s))}
    <3>1. CASE i = 1
      BY <1>3, <3>1
    <3>2. CASE i # 1
      <4>1. i - 1 \in 1..Len(Tail(s)) /\ Tail(s)[i - 1] = s[i]
        BY <1>2, <1>3, <3>2
      <4> QED
        BY <4>1
    <3> QED
      BY <3>1, <3>2
  <2>2. ASSUME NEW i \in 1..Len(Tail(s))
        PROVE  Tail(s)[i] \in {s[j] : j \in 1..Len(s)}
    <3>1. i + 1 \in 1..Len(s) /\ Tail(s)[i] = s[i + 1]
      BY <1>2, <1>3
    <3> QED
      BY <3>1
  <2>3. Head(s) \in {s[j] : j \in 1..Len(s)}
    <3>1. 1 \in 1..Len(s)
      BY <1>2
    <3> QED
      BY <1>3, <3>1
  <2> QED
    BY <2>1, <2>2, <2>3
<1> QED
  BY <1>1, <1>3, <1>4 DEF ToTake

\* A transaction that holds no more than before conflicts with nobody.
LEMMA CompatibleLess ==
  ASSUME Compatible, NEW c \in Calls, Untouched(c), locks'[c] \subseteq locks[c]
  PROVE  Compatible'
BY DEF Compatible, Untouched

\* Locks that nobody's locks conflict with may be taken.
LEMMA CompatibleMore ==
  ASSUME Compatible, NEW c \in Calls, Untouched(c), NEW S, locks'[c] = locks[c] \cup S, \A l \in S : Holders(c, l) = {}
  PROVE  Compatible'
<1>1. \A d \in Calls \ {c} : \A l \in S, k \in locks[d] : ~Conflicts(l, k) /\ ~Conflicts(k, l)
  BY DEF Holders, Conflicts
<1> QED
  BY <1>1 DEF Compatible, Untouched

-----------------------------------------------------------------------------
(* Identities: what a transaction found under its locks stays so until it writes. *)

IdentityRow ==
  ({"users"} \X Persons) \cup ({"organizations"} \X Orgs) \cup ({"organization_members"} \X Orgs \X Persons)
    \cup ({"event"} \X STRING) \cup ({"stream"} \X (Persons \X (Orgs \cup {None})))
IdentityLock == [mode : {"share", "update"}, row : IdentityRow]
IdentityPlaces == {"new", "authorize", "refused", "decide", "write", "replayed", "conflict", "stale", "done", "aborted"}

IdentityTypes ==
  /\ enabled \in [Persons \cup Orgs -> BOOLEAN]
  /\ memberRole \in [Orgs \X Persons -> {"admin", "member", None}]
  /\ receipts \subseteq [event : Event, result : {"applied", "stale"}]
  /\ grants \subseteq Orgs \X Persons
  /\ body \in [Calls -> Bodies]
  /\ txPc \in [Calls -> IdentityPlaces] /\ todo \in [Calls -> Seq(IdentityLock)] /\ locks \in [Calls -> SUBSET IdentityLock]

ActorLocks(b) == {Share(row) : row \in ActorRows(b)}
EventLock(e) == Update(<<"event", e.id>>)
StreamLock(e) == Update(<<"stream", syncStreamHash(e)>>)
EventLocks(e) ==
  {EventLock(e), StreamLock(e)} \cup (IF Membership(e) THEN {} ELSE {Update(UserRow(e.user))})

\* What a transaction holds, or is about to take, before it writes.
HeldBy(c) ==
  LET b == body[c]
      soon == locks[c] \cup ToTake(c)
  IN /\ txPc[c] \notin {"decide", "write"} => todo[c] = <<>>
     /\ txPc[c] \in {"decide", "write"} => ActorLocks(b) \subseteq locks[c]
     /\ txPc[c] = "decide" => b.kind = "sync" /\ EventLocks(b.event) \subseteq soon
     /\ txPc[c] = "write" /\ b.kind = "sync" =>
          /\ EventLocks(b.event) \subseteq locks[c]
          /\ Membership(b.event) /\ memberRole[<<b.event.org, b.event.user>>] # None =>
               Update(MemberRow(b.event.org, b.event.user)) \in soon
     /\ txPc[c] = "write" /\ b.kind = "user" => Update(UserRow(b.target)) \in soon
     /\ txPc[c] = "write" /\ b.kind = "organization" => Update(OrgRow(b.target)) \in soon

\* Authority that was found is still there, because its rows are held.
Authority(c) ==
  txPc[c] \in {"decide", "write"} =>
    IF Lifecycle(body[c]) THEN IsOperator(body[c].user, body[c].org) ELSE IsMember(body[c].user, body[c].org)

\* An event that will be applied is new, and newer than the others of its stream.
Newest(c) ==
  txPc[c] = "write" /\ body[c].kind = "sync" =>
    \A r \in receipts :
      /\ r.event.id # body[c].event.id
      /\ syncStreamHash(r.event) = syncStreamHash(body[c].event) => r.event.version < body[c].event.version

IdentityInv ==
  /\ IdentityTypes /\ Compatible
  /\ \A c \in Calls : HeldBy(c) /\ Authority(c) /\ Newest(c)
  /\ LatestWins /\ GrantsFollowIdentity

-----------------------------------------------------------------------------
\* What the fields of a request are.
LEMMA BodyFields ==
  ASSUME IdentityAssumption, NEW b \in Bodies
  PROVE  /\ b.user \in Persons /\ b.org \in Orgs /\ b.kind \in {"sync", "user", "organization", "session"}
         /\ b.kind = "sync" => b.event \in Event
         /\ b.kind = "user" => b.target \in Persons /\ b.disabled \in BOOLEAN
         /\ b.kind = "organization" => b.target \in Orgs /\ b.disabled \in BOOLEAN
BY DEF IdentityAssumption, Body

\* The locks of a request are locks.
LEMMA LockTypes ==
  ASSUME IdentityAssumption, NEW b \in Bodies
  PROVE  /\ ActorLocks(b) \subseteq IdentityLock
         /\ b.kind = "user" => Update(UserRow(b.target)) \in IdentityLock
         /\ b.kind = "organization" => Update(OrgRow(b.target)) \in IdentityLock
         /\ b.kind = "sync" =>
              /\ TargetLocks(b.event) \in Seq(IdentityLock)
              /\ Membership(b.event) => Update(MemberRow(b.event.org, b.event.user)) \in IdentityLock
<1>1. ActorLocks(b) \subseteq IdentityLock
  BY BodyFields DEF ActorLocks, ActorRows, Share, UserRow, OrgRow, MemberRow, IdentityLock, IdentityRow
<1>2. b.kind = "user" => Update(UserRow(b.target)) \in IdentityLock
  BY BodyFields DEF Update, UserRow, IdentityLock, IdentityRow
<1>3. b.kind = "organization" => Update(OrgRow(b.target)) \in IdentityLock
  BY BodyFields DEF Update, OrgRow, IdentityLock, IdentityRow
<1>4. ASSUME b.kind = "sync"
      PROVE  /\ TargetLocks(b.event) \in Seq(IdentityLock)
             /\ Membership(b.event) => Update(MemberRow(b.event.org, b.event.user)) \in IdentityLock
  <2>1. PICK e \in Event : e = b.event
    BY <1>4, BodyFields
  <2>2. /\ e.id \in STRING /\ e.user \in Persons /\ e.org \in Orgs \cup {None}
    BY DEF Event
  <2>3. Update(<<"event", e.id>>) \in IdentityLock /\ Update(<<"stream", syncStreamHash(e)>>) \in IdentityLock
    BY <2>2 DEF Update, syncStreamHash, IdentityLock, IdentityRow
  <2>4. Update(UserRow(e.user)) \in IdentityLock /\ Share(UserRow(e.user)) \in IdentityLock
    BY <2>2 DEF Update, Share, UserRow, IdentityLock, IdentityRow
  <2>5. Membership(e) => Share(OrgRow(e.org)) \in IdentityLock /\ Update(MemberRow(e.org, e.user)) \in IdentityLock
    BY <2>2 DEF Update, Share, OrgRow, MemberRow, IdentityLock, IdentityRow, Membership
  <2>6. TargetLocks(e) \in Seq(IdentityLock)
    BY <2>3, <2>4, <2>5 DEF TargetLocks
  <2> QED
    BY <2>1, <2>5, <2>6
<1> QED
  BY <1>1, <1>2, <1>3, <1>4

\* A sequence of locks holds what it was put together from.
LEMMA TargetsCover ==
  ASSUME IdentityAssumption, NEW e \in Event
  PROVE  \A l \in EventLocks(e) : \E i \in 1..Len(TargetLocks(e)) : TargetLocks(e)[i] = l
<1>1. PICK a, b, x, y, z : /\ a = EventLock(e) /\ b = StreamLock(e) /\ x = Share(UserRow(e.user)) /\ y = Share(OrgRow(e.org))
                           /\ z = Update(UserRow(e.user))
  OBVIOUS
<1>2. CASE Membership(e)
  <2>1. TargetLocks(e) = <<a, b>> \o <<x, y>> /\ EventLocks(e) = {a, b}
    BY <1>1, <1>2 DEF TargetLocks, EventLocks, EventLock, StreamLock
  <2>2. Len(TargetLocks(e)) = 4 /\ TargetLocks(e)[1] = a /\ TargetLocks(e)[2] = b
    BY <2>1
  <2> QED
    BY <2>1, <2>2
<1>3. CASE ~Membership(e)
  <2>1. TargetLocks(e) = <<a, b>> \o <<z>> /\ EventLocks(e) = {a, b, z}
    BY <1>1, <1>3 DEF TargetLocks, EventLocks, EventLock, StreamLock
  <2>2. Len(TargetLocks(e)) = 3 /\ TargetLocks(e)[1] = a /\ TargetLocks(e)[2] = b /\ TargetLocks(e)[3] = z
    BY <2>1
  <2> QED
    BY <2>1, <2>2
<1> QED
  BY <1>2, <1>3

-----------------------------------------------------------------------------
\* What a step changes in the tables it changes under exclusive locks of L.
GuardedBy(L) ==
  /\ \A u \in Persons : enabled'[u] # enabled[u] => Update(UserRow(u)) \in L
  /\ \A o \in Orgs : enabled'[o] # enabled[o] => Update(OrgRow(o)) \in L
  /\ \A o \in Orgs, u \in Persons : memberRole'[<<o, u>>] # memberRole[<<o, u>>] =>
       /\ Update(<<"stream", <<u, o>>>>) \in L
       /\ memberRole[<<o, u>>] # None => Update(MemberRow(o, u)) \in L
  /\ \A r \in receipts' : r \notin receipts => EventLock(r.event) \in L /\ StreamLock(r.event) \in L

\* What one transaction writes under its locks takes nothing from the others.
LEMMA Frame ==
  ASSUME IdentityAssumption, IdentityInv, body' = body, NEW c \in Calls, Untouched(c), GuardedBy(locks[c]),
         NEW d \in Calls, d # c
  PROVE  HeldBy(d)' /\ Authority(d)' /\ Newest(d)'
<1> USE DEF IdentityInv
<1>1. PICK b \in Bodies : b = body[d]
  BY DEF IdentityTypes
<1>2. body'[d] = b /\ txPc'[d] = txPc[d] /\ todo'[d] = todo[d] /\ locks'[d] = locks[d] /\ ToTake(d)' = ToTake(d)
  BY <1>1 DEF Untouched, ToTake
<1>3. \A l \in locks[c], k \in locks[d] : ~Conflicts(l, k)
  BY DEF Compatible
<1>4. \A row : Share(row) \in locks[d] => Update(row) \notin locks[c]
  BY <1>3 DEF Conflicts, Share, Update
<1>5. \A row : Update(row) \in locks[d] => Update(row) \notin locks[c]
  BY <1>3 DEF Conflicts, Update
<1>6. b.user \in Persons /\ b.org \in Orgs
  BY <1>1, BodyFields
<1>7. ASSUME txPc[d] \in {"decide", "write"}
      PROVE  /\ enabled'[b.user] = enabled[b.user] /\ enabled'[b.org] = enabled[b.org]
             /\ memberRole[<<b.org, b.user>>] # None => memberRole'[<<b.org, b.user>>] = memberRole[<<b.org, b.user>>]
  <2>1. Share(UserRow(b.user)) \in locks[d] /\ Share(OrgRow(b.org)) \in locks[d] /\ Share(MemberRow(b.org, b.user)) \in locks[d]
    BY <1>1, <1>7 DEF HeldBy, ActorLocks, ActorRows
  <2>2. Update(UserRow(b.user)) \notin locks[c] /\ Update(OrgRow(b.org)) \notin locks[c] /\ Update(MemberRow(b.org, b.user)) \notin locks[c]
    BY <1>4, <2>1
  <2> QED
    BY <1>6, <2>2 DEF GuardedBy
<1>8. Authority(d)'
  <2>1. CASE txPc[d] \in {"decide", "write"}
    <3>1. IF Lifecycle(b) THEN IsOperator(b.user, b.org) ELSE IsMember(b.user, b.org)
      BY <1>1, <2>1 DEF Authority
    <3>2. IF Lifecycle(b) THEN IsOperator(b.user, b.org)' ELSE IsMember(b.user, b.org)'
      BY <1>7, <2>1, <3>1 DEF IsOperator, IsMember, Active, None
    <3> QED
      BY <1>2, <3>2 DEF Authority
  <2>2. CASE txPc[d] \notin {"decide", "write"}
    BY <1>2, <2>2 DEF Authority
  <2> QED
    BY <2>1, <2>2
<1>9. ASSUME txPc[d] = "write", b.kind = "sync"
      PROVE  /\ Newest(d)'
             /\ Membership(b.event) => memberRole'[<<b.event.org, b.event.user>>] = memberRole[<<b.event.org, b.event.user>>]
  <2>1. EventLock(b.event) \in locks[d] /\ StreamLock(b.event) \in locks[d]
    BY <1>1, <1>9 DEF HeldBy, EventLocks
  <2>2. EventLock(b.event) \notin locks[c] /\ StreamLock(b.event) \notin locks[c]
    BY <1>5, <2>1 DEF EventLock, StreamLock
  <2>3. ASSUME NEW r \in receipts', r \notin receipts
        PROVE  r.event.id # b.event.id /\ syncStreamHash(r.event) # syncStreamHash(b.event)
    <3>1. EventLock(r.event) \in locks[c] /\ StreamLock(r.event) \in locks[c]
      BY <2>3 DEF GuardedBy
    <3> QED
      BY <2>2, <3>1 DEF EventLock, StreamLock
  <2>4. Newest(d)'
    BY <1>1, <1>2, <1>9, <2>3 DEF Newest
  <2>5. ASSUME Membership(b.event)
        PROVE  memberRole'[<<b.event.org, b.event.user>>] = memberRole[<<b.event.org, b.event.user>>]
    <3>1. b.event.org \in Orgs /\ b.event.user \in Persons
      BY <1>9, <2>5, BodyFields DEF Membership, Event
    <3>2. Update(<<"stream", <<b.event.user, b.event.org>>>>) \notin locks[c]
      BY <2>2 DEF StreamLock, syncStreamHash
    <3> QED
      BY <3>1, <3>2 DEF GuardedBy
  <2> QED
    BY <2>4, <2>5
<1>10. Newest(d)'
  BY <1>1, <1>2, <1>9 DEF Newest
<1>11. HeldBy(d)'
  <2>1. HeldBy(d)
    OBVIOUS
  <2>2. CASE txPc[d] = "write" /\ b.kind = "sync"
    BY <1>1, <1>2, <1>9, <2>1, <2>2 DEF HeldBy
  <2>3. CASE ~(txPc[d] = "write" /\ b.kind = "sync")
    BY <1>1, <1>2, <2>1, <2>3 DEF HeldBy
  <2> QED
    BY <2>2, <2>3
<1> QED
  BY <1>8, <1>10, <1>11

\* The end of a transaction.
LEMMA EndFields ==
  ASSUME IdentityTypes, NEW c \in Calls, NEW outcome \in IdentityPlaces \ {"decide", "write"}, EndTx(c, outcome)
  PROVE  /\ Untouched(c) /\ locks'[c] = {} /\ todo'[c] = <<>> /\ txPc'[c] = outcome
         /\ txPc' \in [Calls -> IdentityPlaces] /\ todo' \in [Calls -> Seq(IdentityLock)] /\ locks' \in [Calls -> SUBSET IdentityLock]
BY DEF EndTx, IdentityTypes, Untouched

\* After its end a transaction holds and promises nothing.
LEMMA EndHolds ==
  ASSUME NEW c \in Calls, txPc'[c] \notin {"decide", "write"}, todo'[c] = <<>>
  PROVE  HeldBy(c)' /\ Authority(c)' /\ Newest(c)'
BY DEF HeldBy, Authority, Newest

\* The invariant from what a step does to its own transaction.
LEMMA Combine ==
  ASSUME IdentityAssumption, IdentityInv, body' = body, NEW c \in Calls, Untouched(c), GuardedBy(locks[c]),
         IdentityTypes', Compatible', HeldBy(c)', Authority(c)', Newest(c)', LatestWins', GrantsFollowIdentity'
  PROVE  IdentityInv'
<1>1. ASSUME NEW d \in Calls
      PROVE  HeldBy(d)' /\ Authority(d)' /\ Newest(d)'
  <2>1. CASE d = c
    BY <2>1
  <2>2. CASE d # c
    BY <2>2, Frame
  <2> QED
    BY <2>1, <2>2
<1> QED
  BY <1>1 DEF IdentityInv

\* A step that leaves the tables alone.
LEMMA TablesSame ==
  ASSUME IdentityInv, UNCHANGED tables, NEW L
  PROVE  GuardedBy(L) /\ LatestWins' /\ GrantsFollowIdentity'
BY DEF IdentityInv, tables, GuardedBy, LatestWins, GrantsFollowIdentity, Active

\* A transaction ends and leaves the tables alone.
LEMMA EndStep ==
  ASSUME IdentityAssumption, IdentityInv, UNCHANGED <<tables, body>>, NEW c \in Calls,
         NEW outcome \in IdentityPlaces \ {"decide", "write"}, EndTx(c, outcome)
  PROVE  IdentityInv'
<1>1. IdentityTypes
  BY DEF IdentityInv
<1>2. Untouched(c) /\ locks'[c] = {} /\ todo'[c] = <<>> /\ txPc'[c] = outcome
      /\ txPc' \in [Calls -> IdentityPlaces] /\ todo' \in [Calls -> Seq(IdentityLock)] /\ locks' \in [Calls -> SUBSET IdentityLock]
  BY <1>1, EndFields
<1>3. GuardedBy(locks[c]) /\ LatestWins' /\ GrantsFollowIdentity'
  BY TablesSame
<1>4. IdentityTypes'
  BY <1>1, <1>2 DEF IdentityTypes, tables
<1>5. Compatible'
  BY <1>2, CompatibleLess DEF IdentityInv
<1>6. HeldBy(c)' /\ Authority(c)' /\ Newest(c)'
  BY <1>2, EndHolds
<1> QED
  BY <1>2, <1>3, <1>4, <1>5, <1>6, Combine

\* A handler authenticates and opens no transaction yet.
LEMMA CalledStep ==
  ASSUME IdentityAssumption, IdentityInv, NEW c \in Calls, NEW allowed \in BOOLEAN, Called(c, allowed)
  PROVE  IdentityInv'
<1>1. IdentityTypes
  BY DEF IdentityInv
<1>2. /\ Untouched(c) /\ locks'[c] = locks[c] /\ todo'[c] = <<>> /\ txPc'[c] \in {"authorize", "refused"}
      /\ txPc' \in [Calls -> IdentityPlaces]
  BY <1>1 DEF Called, At, Goes, IdentityTypes, Untouched, IdentityPlaces
<1>3. GuardedBy(locks[c]) /\ LatestWins' /\ GrantsFollowIdentity'
  BY TablesSame DEF Called
<1>4. IdentityTypes'
  BY <1>1, <1>2 DEF IdentityTypes, tables, Called, Goes
<1>5. Compatible'
  BY <1>2, CompatibleLess DEF IdentityInv
<1>6. HeldBy(c)' /\ Authority(c)' /\ Newest(c)'
  BY <1>2, EndHolds
<1> QED
  BY <1>2, <1>3, <1>4, <1>5, <1>6, Combine DEF Called

\* A statement takes its next lock: what it was about to hold, it still is.
LEMMA WaitStepHolds ==
  ASSUME IdentityAssumption, IdentityInv, NEW c \in Calls, WaitStep(c)
  PROVE  IdentityInv'
<1>1. IdentityTypes /\ HeldBy(c) /\ Authority(c) /\ Newest(c)
  BY DEF IdentityInv
<1>2. PICK l : l = Head(todo[c])
  OBVIOUS
<1>3. todo[c] # <<>> /\ Holders(c, l) = {}
  BY <1>2 DEF WaitStep, TakeLock, Waits
<1>4. PICK t : t = Tail(todo[c])
  OBVIOUS
<1>5. /\ l \in IdentityLock /\ t \in Seq(IdentityLock)
      /\ ToTake(c) = {l} \cup {t[i] : i \in 1..Len(t)}
  <2>1. todo \in [Calls -> Seq(IdentityLock)]
    BY <1>1 DEF IdentityTypes
  <2> QED
    BY <1>2, <1>3, <1>4, <2>1, TakesNext
<1>6. /\ Untouched(c) /\ locks'[c] = locks[c] \cup {l} /\ todo'[c] = t /\ txPc' = txPc
      /\ todo' \in [Calls -> Seq(IdentityLock)] /\ locks' \in [Calls -> SUBSET IdentityLock]
  BY <1>1, <1>2, <1>4, <1>5 DEF WaitStep, TakeLock, IdentityTypes, Untouched
<1>7. GuardedBy(locks[c]) /\ LatestWins' /\ GrantsFollowIdentity'
  BY TablesSame DEF WaitStep
<1>8. IdentityTypes'
  BY <1>1, <1>6 DEF IdentityTypes, tables, WaitStep
<1>9. Compatible'
  BY <1>3, <1>6, CompatibleMore DEF IdentityInv
<1>10. ToTake(c)' = {t[i] : i \in 1..Len(t)}
  BY <1>6 DEF ToTake
<1>11. locks'[c] \cup ToTake(c)' = locks[c] \cup ToTake(c)
  BY <1>5, <1>6, <1>10
<1>12. HeldBy(c)'
  <2>1. txPc[c] \in {"decide", "write"}
    BY <1>1, <1>3 DEF HeldBy
  <2> QED
    BY <1>1, <1>6, <1>11, <2>1 DEF HeldBy, WaitStep, tables
<1>13. Authority(c)' /\ Newest(c)'
  BY <1>1, <1>6 DEF Authority, Newest, WaitStep, tables, IsOperator, IsMember, Active
<1> QED
  BY <1>6, <1>7, <1>8, <1>9, <1>12, <1>13, Combine DEF WaitStep

\* A request that holds the rows of its authority goes on with it.
LEMMA AuthorizedStep ==
  ASSUME IdentityAssumption, IdentityInv, NEW c \in Calls, UNCHANGED <<tables, body>>,
         NEW then \in Seq(IdentityLock), NEW where \in {"decide", "write"},
         At(c, "authorize"), \A row \in ActorRows(body[c]) : Holders(c, Share(row)) = {},
         Locking(c, then, where), locks' = [locks EXCEPT ![c] = @ \cup ActorLocks(body[c])],
         IF Lifecycle(body[c]) THEN IsOperator(body[c].user, body[c].org) ELSE IsMember(body[c].user, body[c].org),
         where = "decide" <=> body[c].kind = "sync",
         where = "decide" => \A l \in EventLocks(body[c].event) : \E i \in 1..Len(then) : then[i] = l,
         body[c].kind = "user" => \E i \in 1..Len(then) : then[i] = Update(UserRow(body[c].target)),
         body[c].kind = "organization" => \E i \in 1..Len(then) : then[i] = Update(OrgRow(body[c].target))
  PROVE  IdentityInv'
<1>1. IdentityTypes /\ body[c] \in Bodies
  BY DEF IdentityInv, IdentityTypes
<1>2. ActorLocks(body[c]) \subseteq IdentityLock
  <2>1. PICK b \in Bodies : b = body[c]
    BY <1>1
  <2>2. ActorLocks(b) \subseteq IdentityLock
    BY LockTypes
  <2> QED
    BY <2>1, <2>2
<1>3. /\ Untouched(c) /\ locks'[c] = locks[c] \cup ActorLocks(body[c]) /\ todo'[c] = then /\ txPc'[c] = where
      /\ txPc' \in [Calls -> IdentityPlaces] /\ todo' \in [Calls -> Seq(IdentityLock)] /\ locks' \in [Calls -> SUBSET IdentityLock]
  BY <1>1, <1>2 DEF Locking, IdentityTypes, Untouched, IdentityPlaces
<1>4. GuardedBy(locks[c]) /\ LatestWins' /\ GrantsFollowIdentity'
  BY TablesSame
<1>5. IdentityTypes'
  BY <1>1, <1>3 DEF IdentityTypes, tables
<1>6. Compatible'
  <2>1. PICK S : S = ActorLocks(body[c])
    OBVIOUS
  <2>2. locks'[c] = locks[c] \cup S /\ \A l \in S : Holders(c, l) = {}
    BY <1>3, <2>1 DEF ActorLocks
  <2>3. Untouched(c)
    BY <1>3
  <2> QED
    BY ONLY IdentityInv, c \in Calls, <2>2, <2>3, CompatibleMore DEF IdentityInv
<1>7. ToTake(c)' = {then[i] : i \in 1..Len(then)}
  BY <1>3 DEF ToTake
<1>8. HeldBy(c)'
  BY <1>3, <1>7 DEF HeldBy
<1>9. Authority(c)'
  BY <1>3 DEF Authority, tables, IsOperator, IsMember, Active
<1>10. Newest(c)'
  BY <1>3 DEF Newest
<1> QED
  BY <1>3, <1>4, <1>5, <1>6, <1>8, <1>9, <1>10, Combine

\* An operator goes on with his rows held, or is refused.
LEMMA LockLifecycleActor ==
  ASSUME IdentityAssumption, IdentityInv, NEW c \in Calls, lockLifecycleActor(c)
  PROVE  IdentityInv'
<1>1. PICK b \in Bodies : b = body[c]
  BY DEF IdentityInv, IdentityTypes
<1>2. PICK then : then = CASE b.kind = "sync" -> TargetLocks(b.event)
                           [] b.kind = "user" -> <<Update(UserRow(b.target))>>
                           [] b.kind = "organization" -> <<Update(OrgRow(b.target))>>
  OBVIOUS
<1>3. PICK where : where = IF b.kind = "sync" THEN "decide" ELSE "write"
  OBVIOUS
<1>4. /\ Lifecycle(b) /\ UNCHANGED <<tables, body>>
      /\ HoldActor(c, ActorRows(b), IsOperator(b.user, b.org), then, where)
  BY <1>1, <1>2, <1>3 DEF lockLifecycleActor
<1>5. CASE ~IsOperator(b.user, b.org)
  <2>1. EndTx(c, "refused") /\ "refused" \in IdentityPlaces \ {"decide", "write"}
    BY <1>4, <1>5 DEF HoldActor, IdentityPlaces
  <2> QED
    BY <1>4, <2>1, EndStep
<1>6. CASE IsOperator(b.user, b.org)
  <2>1. b.kind \in {"sync", "user", "organization"}
    BY <1>4, BodyFields DEF Lifecycle
  <2>2. /\ then \in Seq(IdentityLock)
        /\ b.kind = "sync" => \A l \in EventLocks(b.event) : \E i \in 1..Len(then) : then[i] = l
        /\ b.kind = "user" => \E i \in 1..Len(then) : then[i] = Update(UserRow(b.target))
        /\ b.kind = "organization" => \E i \in 1..Len(then) : then[i] = Update(OrgRow(b.target))
    <3>1. CASE b.kind = "sync"
      <4>1. then = TargetLocks(b.event) /\ b.event \in Event
        BY <1>2, <3>1, BodyFields
      <4> QED
        BY <3>1, <4>1, LockTypes, TargetsCover
    <3>2. CASE b.kind = "user"
      <4>1. PICK l \in IdentityLock : l = Update(UserRow(b.target))
        BY <3>2, LockTypes
      <4>2. then = <<l>>
        BY <1>2, <3>2, <4>1
      <4>3. then \in Seq(IdentityLock) /\ 1 \in 1..Len(then) /\ then[1] = l
        BY <4>2
      <4> QED
        BY <3>2, <4>1, <4>3
    <3>3. CASE b.kind = "organization"
      <4>1. PICK l \in IdentityLock : l = Update(OrgRow(b.target))
        BY <3>3, LockTypes
      <4>2. then = <<l>>
        BY <1>2, <3>3, <4>1
      <4>3. then \in Seq(IdentityLock) /\ 1 \in 1..Len(then) /\ then[1] = l
        BY <4>2
      <4> QED
        BY <3>3, <4>1, <4>3
    <3> QED
      BY <2>1, <3>1, <3>2, <3>3
  <2>3. /\ At(c, "authorize") /\ \A row \in ActorRows(body[c]) : Holders(c, Share(row)) = {}
        /\ Locking(c, then, where) /\ locks' = [locks EXCEPT ![c] = @ \cup ActorLocks(body[c])]
    BY <1>1, <1>4, <1>6 DEF HoldActor, ActorLocks
  <2>4. where \in {"decide", "write"} /\ (where = "decide" <=> body[c].kind = "sync")
    BY <1>1, <1>3
  <2> QED
    BY <1>1, <1>4, <1>6, <2>2, <2>3, <2>4, AuthorizedStep
<1> QED
  BY <1>5, <1>6

\* So does a user who opens a session.
LEMMA ActiveClerkUser ==
  ASSUME IdentityAssumption, IdentityInv, NEW c \in Calls, activeClerkUser(c)
  PROVE  IdentityInv'
<1>1. PICK b \in Bodies : b = body[c]
  BY DEF IdentityInv, IdentityTypes
<1>2. /\ b.kind = "session" /\ UNCHANGED <<tables, body>>
      /\ HoldActor(c, ActorRows(b), IsMember(b.user, b.org), <<>>, "write")
  BY <1>1 DEF activeClerkUser, Lifecycle
<1>3. CASE ~IsMember(b.user, b.org)
  <2>1. EndTx(c, "refused") /\ "refused" \in IdentityPlaces \ {"decide", "write"}
    BY <1>2, <1>3 DEF HoldActor, IdentityPlaces
  <2> QED
    BY <1>2, <2>1, EndStep
<1>4. CASE IsMember(b.user, b.org)
  <2>1. /\ At(c, "authorize") /\ \A row \in ActorRows(body[c]) : Holders(c, Share(row)) = {}
        /\ Locking(c, <<>>, "write") /\ locks' = [locks EXCEPT ![c] = @ \cup ActorLocks(body[c])]
    BY <1>1, <1>2, <1>4 DEF HoldActor, ActorLocks
  <2>2. ~Lifecycle(body[c]) /\ IsMember(body[c].user, body[c].org) /\ <<>> \in Seq(IdentityLock)
    BY <1>1, <1>2, <1>4 DEF Lifecycle
  <2> QED
    BY <1>1, <1>2, <2>1, <2>2, AuthorizedStep
<1> QED
  BY <1>3, <1>4

-----------------------------------------------------------------------------
\* What the sync of a new event rests on when it comes to its statements.
LEMMA DecideHolds ==
  ASSUME IdentityAssumption, IdentityInv, NEW c \in Calls, Decide(c)
  PROVE  IdentityInv'
<1>1. PICK b \in Bodies : b = body[c]
  BY DEF IdentityInv, IdentityTypes
<1>2. IdentityTypes /\ HeldBy(c) /\ Authority(c)
  BY DEF IdentityInv
<1>3. txPc[c] = "decide" /\ todo[c] = <<>> /\ body' = body
  BY DEF Decide, At
<1>4. ToTake(c) = {}
  BY <1>3 DEF ToTake
<1>5. b.kind = "sync" /\ EventLocks(b.event) \subseteq locks[c] /\ ActorLocks(b) \subseteq locks[c]
  BY <1>1, <1>2, <1>3, <1>4 DEF HeldBy
<1>6. PICK e \in Event : e = b.event
  BY <1>5, BodyFields
<1>7. CASE \E r \in receipts : r.event = e
  <2>1. EndTx(c, "replayed") /\ UNCHANGED <<tables, body>> /\ "replayed" \in IdentityPlaces \ {"decide", "write"}
    BY <1>1, <1>6, <1>7 DEF Decide, IdentityPlaces
  <2> QED
    BY <2>1, EndStep
<1>8. CASE /\ ~\E r \in receipts : r.event = e
           /\ (\E r \in receipts : r.event.id = e.id) \/ e.version \in StreamVersions(e)
  <2>1. EndTx(c, "conflict") /\ UNCHANGED <<tables, body>> /\ "conflict" \in IdentityPlaces \ {"decide", "write"}
    BY <1>1, <1>6, <1>8 DEF Decide, IdentityPlaces
  <2> QED
    BY <2>1, EndStep
<1>9. ASSUME ~((\E r \in receipts : r.event.id = e.id) \/ e.version \in StreamVersions(e)),
             ~\E r \in receipts : r.event = e
      PROVE  \A r \in receipts : /\ r.event.id # e.id /\ r.event.version \in Nat /\ e.version \in Nat
                                 /\ syncStreamHash(r.event) = syncStreamHash(e) => r.event.version # e.version
  <2>1. ASSUME NEW r \in receipts
        PROVE  /\ r.event.id # e.id /\ r.event.version \in Nat /\ e.version \in Nat
               /\ syncStreamHash(r.event) = syncStreamHash(e) => r.event.version # e.version
    <3>1. r.event \in Event
      BY <1>2 DEF IdentityTypes
    <3>2. r.event.version \in Nat /\ e.version \in Nat
      BY <3>1 DEF Event
    <3> QED
      BY <1>9, <3>2 DEF StreamVersions
  <2> QED
    BY <2>1
<1>10. CASE /\ ~\E r \in receipts : r.event = e
            /\ ~((\E r \in receipts : r.event.id = e.id) \/ e.version \in StreamVersions(e))
            /\ \E v \in StreamVersions(e) : e.version < v
  <2>1. /\ receipts' = receipts \cup {Receipt(e, "stale")}
        /\ EndTx(c, "stale") /\ "stale" \in IdentityPlaces \ {"decide", "write"}
        /\ UNCHANGED <<enabled, memberRole, grants>>
    BY <1>1, <1>6, <1>10 DEF Decide, IdentityPlaces
  <2>2. Untouched(c) /\ locks'[c] = {} /\ todo'[c] = <<>> /\ txPc'[c] = "stale"
        /\ txPc' \in [Calls -> IdentityPlaces] /\ todo' \in [Calls -> Seq(IdentityLock)] /\ locks' \in [Calls -> SUBSET IdentityLock]
    BY <1>2, <2>1, EndFields
  <2>3. Receipt(e, "stale") \in [event : Event, result : {"applied", "stale"}] /\ Receipt(e, "stale").event = e
    BY DEF Receipt
  <2>4. IdentityTypes'
    BY <1>2, <1>3, <2>1, <2>2, <2>3 DEF IdentityTypes
  <2>5. Compatible'
    BY <2>2, CompatibleLess DEF IdentityInv
  <2>6. HeldBy(c)' /\ Authority(c)' /\ Newest(c)'
    BY <2>2, EndHolds
  <2>7. GuardedBy(locks[c])
    BY <1>5, <1>6, <2>1, <2>3 DEF GuardedBy, EventLocks
  <2>8. GrantsFollowIdentity'
    BY <2>1 DEF IdentityInv, GrantsFollowIdentity, Active
  <2>9. LatestWins'
    <3>1. PICK q \in receipts : syncStreamHash(q.event) = syncStreamHash(e) /\ e.version < q.event.version
      BY <1>10 DEF StreamVersions
    <3>2. q.event.version \in Nat /\ e.version \in Nat
      BY <1>9, <1>10
    <3>3. SUFFICES ASSUME NEW r \in receipts',
                          \A p \in receipts' : syncStreamHash(p.event) = syncStreamHash(r.event) =>
                                                 p.event.version <= r.event.version
                   PROVE  /\ r.result = "applied"
                          /\ Membership(r.event) => memberRole'[<<r.event.org, r.event.user>>] = r.event.role
      BY DEF LatestWins
    <3>4. r.event # e
      BY <2>1, <3>1, <3>2, <3>3
    <3>5. r \in receipts
      BY <2>1, <2>3, <3>4
    <3> QED
      BY <2>1, <3>3, <3>5 DEF IdentityInv, LatestWins
  <2> QED
    BY <1>3, <2>2, <2>4, <2>5, <2>6, <2>7, <2>8, <2>9, Combine
<1>11. CASE /\ ~\E r \in receipts : r.event = e
            /\ ~((\E r \in receipts : r.event.id = e.id) \/ e.version \in StreamVersions(e))
            /\ ~\E v \in StreamVersions(e) : e.version < v
  <2>1. PICK then : then = MembershipLock(e)
    OBVIOUS
  <2>2. Locking(c, then, "write") /\ UNCHANGED <<tables, locks>>
    BY <1>1, <1>6, <1>11, <2>1 DEF Decide
  <2>3. /\ then \in Seq(IdentityLock)
        /\ Membership(e) /\ memberRole[<<e.org, e.user>>] # None =>
             \E i \in 1..Len(then) : then[i] = Update(MemberRow(e.org, e.user))
    <3>1. CASE Membership(e) /\ memberRole[<<e.org, e.user>>] # None
      <4>1. PICK l \in IdentityLock : l = Update(MemberRow(e.org, e.user))
        BY <1>5, <1>6, <3>1, LockTypes
      <4>2. then = <<l>>
        BY <2>1, <3>1, <4>1 DEF MembershipLock
      <4>3. then \in Seq(IdentityLock) /\ 1 \in 1..Len(then) /\ then[1] = l
        BY <4>2
      <4> QED
        BY <4>1, <4>3
    <3>2. CASE ~(Membership(e) /\ memberRole[<<e.org, e.user>>] # None)
      BY <2>1, <3>2 DEF MembershipLock
    <3> QED
      BY <3>1, <3>2
  <2>4. /\ Untouched(c) /\ locks'[c] = locks[c] /\ todo'[c] = then /\ txPc'[c] = "write"
        /\ txPc' \in [Calls -> IdentityPlaces] /\ todo' \in [Calls -> Seq(IdentityLock)]
    BY <1>2, <2>2, <2>3 DEF Locking, IdentityTypes, Untouched, IdentityPlaces
  <2>5. IdentityTypes'
    BY <1>2, <1>3, <2>2, <2>4 DEF IdentityTypes, tables
  <2>6. Compatible'
    BY <2>4, CompatibleLess DEF IdentityInv
  <2>7. GuardedBy(locks[c]) /\ LatestWins' /\ GrantsFollowIdentity'
    BY <2>2, TablesSame
  <2>8. ToTake(c)' = {then[i] : i \in 1..Len(then)}
    BY <2>4 DEF ToTake
  <2>9. HeldBy(c)'
    BY <1>1, <1>3, <1>5, <1>6, <2>2, <2>3, <2>4, <2>8 DEF HeldBy, tables
  <2>10. Authority(c)'
    BY <1>2, <1>3, <2>2, <2>4 DEF Authority, tables, IsOperator, IsMember, Active
  <2>11. Newest(c)'
    <3>1. ASSUME NEW r \in receipts
          PROVE  r.event.id # e.id /\ (syncStreamHash(r.event) = syncStreamHash(e) => r.event.version < e.version)
      BY <1>9, <1>11 DEF StreamVersions
    <3> QED
      BY <1>1, <1>3, <1>6, <2>2, <3>1 DEF Newest, tables
  <2> QED
    BY <1>3, <2>4, <2>5, <2>6, <2>7, <2>9, <2>10, <2>11, Combine
<1> QED
  BY <1>7, <1>8, <1>10, <1>11

\* A transaction writes the tables under its locks, and ends.
LEMMA WriteStep ==
  ASSUME IdentityAssumption, IdentityInv, body' = body, NEW c \in Calls, At(c, "write"), EndTx(c, "done"),
         enabled' \in [Persons \cup Orgs -> BOOLEAN], memberRole' \in [Orgs \X Persons -> {"admin", "member", None}],
         receipts' \subseteq [event : Event, result : {"applied", "stale"}], grants' \subseteq Orgs \X Persons,
         GuardedBy(locks[c]), LatestWins', GrantsFollowIdentity'
  PROVE  IdentityInv'
<1>1. IdentityTypes
  BY DEF IdentityInv
<1>2. Untouched(c) /\ locks'[c] = {} /\ todo'[c] = <<>> /\ txPc'[c] = "done"
      /\ txPc' \in [Calls -> IdentityPlaces] /\ todo' \in [Calls -> Seq(IdentityLock)] /\ locks' \in [Calls -> SUBSET IdentityLock]
  <2>1. "done" \in IdentityPlaces \ {"decide", "write"}
    BY DEF IdentityPlaces
  <2> QED
    BY <1>1, <2>1, EndFields
<1>3. IdentityTypes'
  BY <1>1, <1>2 DEF IdentityTypes
<1>4. Compatible'
  BY <1>2, CompatibleLess DEF IdentityInv
<1>5. HeldBy(c)' /\ Authority(c)' /\ Newest(c)'
  BY <1>2, EndHolds
<1> QED
  BY <1>2, <1>3, <1>4, <1>5, Combine

\* What a transaction that writes holds: everything its statements asked for.
LEMMA WriterHolds ==
  ASSUME IdentityInv, NEW c \in Calls, At(c, "write"), NEW b, b = body[c]
  PROVE  /\ b.kind = "sync" =>
              /\ EventLocks(b.event) \subseteq locks[c]
              /\ Membership(b.event) /\ memberRole[<<b.event.org, b.event.user>>] # None =>
                   Update(MemberRow(b.event.org, b.event.user)) \in locks[c]
         /\ b.kind = "user" => Update(UserRow(b.target)) \in locks[c]
         /\ b.kind = "organization" => Update(OrgRow(b.target)) \in locks[c]
<1>1. HeldBy(c) /\ txPc[c] = "write" /\ todo[c] = <<>>
  BY DEF IdentityInv, At
<1>2. ToTake(c) = {}
  BY <1>1 DEF ToTake
<1> QED
  BY <1>1, <1>2 DEF HeldBy

\* A new event becomes the newest of its stream and its membership what it says.
LEMMA SyncHolds ==
  ASSUME IdentityAssumption, IdentityInv, NEW c \in Calls, syncIdentityProvider(c)
  PROVE  IdentityInv'
<1>1. PICK b \in Bodies : b = body[c]
  BY DEF IdentityInv, IdentityTypes
<1>2. IdentityTypes /\ Newest(c)
  BY DEF IdentityInv
<1>3. At(c, "write") /\ b.kind = "sync" /\ body' = body /\ EndTx(c, "done")
  BY <1>1 DEF syncIdentityProvider
<1>4. PICK e \in Event : e = b.event
  BY <1>3, BodyFields
<1>5. PICK R : R = Receipt(e, "applied")
  OBVIOUS
<1>6. /\ receipts' = receipts \cup {R} /\ R.event = e /\ R.result = "applied"
      /\ R \in [event : Event, result : {"applied", "stale"}]
  BY <1>1, <1>4, <1>5 DEF syncIdentityProvider, Receipt
<1>7. /\ EventLocks(e) \subseteq locks[c]
      /\ Membership(e) /\ memberRole[<<e.org, e.user>>] # None => Update(MemberRow(e.org, e.user)) \in locks[c]
  BY <1>1, <1>3, <1>4, WriterHolds
<1>8. \A r \in receipts : syncStreamHash(r.event) = syncStreamHash(e) => r.event.version < e.version
  BY <1>1, <1>2, <1>3, <1>4 DEF Newest, At
<1>9. e.user \in Persons /\ e.org \in Orgs \cup {None} /\ e.role \in {"admin", "member", None} /\ e.version \in Nat
  BY DEF Event
<1>10. receipts' \subseteq [event : Event, result : {"applied", "stale"}]
  BY <1>2, <1>6 DEF IdentityTypes
<1>11. \A r \in receipts' : r \notin receipts => EventLock(r.event) \in locks[c] /\ StreamLock(r.event) \in locks[c]
  BY <1>6, <1>7 DEF EventLocks
<1>12. CASE Membership(e)
  <2>1. e.org \in Orgs
    BY <1>9, <1>12 DEF Membership
  <2>2. /\ memberRole' = [memberRole EXCEPT ![<<e.org, e.user>>] = e.role] /\ enabled' = enabled
        /\ grants' = grants \ (IF e.role = None THEN {<<e.org, e.user>>} ELSE {})
    BY <1>1, <1>4, <1>12 DEF syncIdentityProvider, identity_revoke_dependents
  <2>3. /\ memberRole' \in [Orgs \X Persons -> {"admin", "member", None}] /\ memberRole'[<<e.org, e.user>>] = e.role
        /\ \A o \in Orgs, u \in Persons : <<o, u>> # <<e.org, e.user>> => memberRole'[<<o, u>>] = memberRole[<<o, u>>]
    BY <1>2, <1>9, <2>1, <2>2 DEF IdentityTypes
  <2>4. enabled' \in [Persons \cup Orgs -> BOOLEAN] /\ grants' \subseteq Orgs \X Persons
    BY <1>2, <2>2 DEF IdentityTypes
  <2>5. GuardedBy(locks[c])
    <3>1. StreamLock(e) = Update(<<"stream", <<e.user, e.org>>>>) /\ StreamLock(e) \in locks[c]
      BY <1>7 DEF EventLocks, StreamLock, syncStreamHash
    <3>2. ASSUME NEW o \in Orgs, NEW u \in Persons, memberRole'[<<o, u>>] # memberRole[<<o, u>>]
          PROVE  /\ Update(<<"stream", <<u, o>>>>) \in locks[c]
                 /\ memberRole[<<o, u>>] # None => Update(MemberRow(o, u)) \in locks[c]
      <4>1. o = e.org /\ u = e.user
        BY <2>3, <3>2
      <4> QED
        BY <1>7, <1>12, <3>1, <4>1
    <3> QED
      BY <1>11, <2>2, <3>2 DEF GuardedBy
  <2>6. GrantsFollowIdentity'
    <3>1. ASSUME NEW g \in grants'
          PROVE  Active(g[2], g[1])' /\ memberRole'[g] # None
      <4>1. g \in grants /\ (g = <<e.org, e.user>> => e.role # None)
        BY <2>2
      <4>2. Active(g[2], g[1]) /\ memberRole[g] # None /\ g \in Orgs \X Persons
        BY <1>2, <4>1 DEF IdentityInv, GrantsFollowIdentity, IdentityTypes
      <4>3. Active(g[2], g[1])'
        BY <2>2, <4>2 DEF Active
      <4>4. memberRole'[g] = IF g = <<e.org, e.user>> THEN e.role ELSE memberRole[g]
        BY <1>2, <2>2, <4>2 DEF IdentityTypes
      <4> QED
        BY <4>1, <4>2, <4>3, <4>4
    <3> QED
      BY <3>1 DEF GrantsFollowIdentity
  <2>7. LatestWins'
    <3>1. SUFFICES ASSUME NEW r \in receipts',
                          \A p \in receipts' : syncStreamHash(p.event) = syncStreamHash(r.event) =>
                                                 p.event.version <= r.event.version
                   PROVE  /\ r.result = "applied"
                          /\ Membership(r.event) => memberRole'[<<r.event.org, r.event.user>>] = r.event.role
      BY DEF LatestWins
    <3>2. CASE r = R
      BY <1>6, <2>3, <3>2
    <3>3. CASE r # R
      <4>1. r \in receipts /\ r.event \in Event /\ r.event.version \in Nat
        BY <1>2, <1>6, <3>3 DEF IdentityTypes, Event
      <4>2. syncStreamHash(r.event) # syncStreamHash(e)
        <5>1. syncStreamHash(r.event) = syncStreamHash(e) => e.version <= r.event.version /\ r.event.version < e.version
          BY <1>6, <1>8, <3>1, <4>1
        <5> QED
          BY <1>9, <4>1, <5>1
      <4>3. /\ r.result = "applied"
            /\ Membership(r.event) => memberRole[<<r.event.org, r.event.user>>] = r.event.role
        BY <1>6, <3>1, <4>1 DEF IdentityInv, LatestWins
      <4>4. ASSUME Membership(r.event)
            PROVE  memberRole'[<<r.event.org, r.event.user>>] = memberRole[<<r.event.org, r.event.user>>]
        <5>1. r.event.org \in Orgs /\ r.event.user \in Persons
          BY <4>1, <4>4 DEF Event, Membership
        <5>2. <<r.event.org, r.event.user>> # <<e.org, e.user>>
          BY <4>2 DEF syncStreamHash
        <5> QED
          BY <2>3, <5>1, <5>2
      <4> QED
        BY <4>3, <4>4
    <3> QED
      BY <3>2, <3>3
  <2> QED
    BY <1>3, <1>10, <2>3, <2>4, <2>5, <2>6, <2>7, WriteStep
<1>13. CASE ~Membership(e)
  <2>1. /\ enabled' = [enabled EXCEPT ![e.user] = FALSE] /\ memberRole' = memberRole
        /\ grants' = grants \ (Orgs \X {e.user})
    BY <1>1, <1>4, <1>13 DEF syncIdentityProvider, identity_revoke_dependents
  <2>2. /\ enabled' \in [Persons \cup Orgs -> BOOLEAN] /\ memberRole' \in [Orgs \X Persons -> {"admin", "member", None}]
        /\ grants' \subseteq Orgs \X Persons
    BY <1>2, <2>1 DEF IdentityTypes
  <2>3. \A x \in Persons \cup Orgs : x # e.user => enabled'[x] = enabled[x]
    BY <1>2, <2>1 DEF IdentityTypes
  <2>4. e.user \notin Orgs
    BY <1>9 DEF IdentityAssumption
  <2>5. GuardedBy(locks[c])
    <3>1. Update(UserRow(e.user)) \in locks[c]
      BY <1>7, <1>13 DEF EventLocks
    <3> QED
      BY <1>11, <2>1, <2>3, <2>4, <3>1 DEF GuardedBy
  <2>6. GrantsFollowIdentity'
    <3>1. ASSUME NEW g \in grants'
          PROVE  Active(g[2], g[1])' /\ memberRole'[g] # None
      <4>1. g \in grants /\ g \in Orgs \X Persons /\ g[2] # e.user /\ g[1] # e.user
        BY <1>2, <2>1, <2>4 DEF IdentityTypes
      <4>2. Active(g[2], g[1]) /\ memberRole[g] # None
        BY <4>1 DEF IdentityInv, GrantsFollowIdentity
      <4> QED
        BY <2>1, <2>3, <4>1, <4>2 DEF Active
    <3> QED
      BY <3>1 DEF GrantsFollowIdentity
  <2>7. LatestWins'
    <3>1. SUFFICES ASSUME NEW r \in receipts',
                          \A p \in receipts' : syncStreamHash(p.event) = syncStreamHash(r.event) =>
                                                 p.event.version <= r.event.version
                   PROVE  /\ r.result = "applied"
                          /\ Membership(r.event) => memberRole'[<<r.event.org, r.event.user>>] = r.event.role
      BY DEF LatestWins
    <3>2. CASE r = R
      BY <1>6, <1>13, <3>2
    <3>3. CASE r # R
      BY <1>6, <2>1, <3>1, <3>3 DEF IdentityInv, LatestWins
    <3> QED
      BY <3>2, <3>3
  <2> QED
    BY <1>3, <1>10, <2>2, <2>5, <2>6, <2>7, WriteStep
<1> QED
  BY <1>12, <1>13

\* A user or an organization x disabled or enabled under its lock.
LEMMA ToggleHolds ==
  ASSUME IdentityAssumption, IdentityInv, body' = body, NEW c \in Calls, At(c, "write"), EndTx(c, "done"),
         NEW x \in Persons \cup Orgs, NEW on \in BOOLEAN,
         x \in Persons => Update(UserRow(x)) \in locks[c], x \in Orgs => Update(OrgRow(x)) \in locks[c],
         enabled' = [enabled EXCEPT ![x] = on], UNCHANGED <<memberRole, receipts>>,
         grants' \subseteq grants, ~on => \A g \in grants' : g[1] # x /\ g[2] # x
  PROVE  IdentityInv'
<1>1. IdentityTypes
  BY DEF IdentityInv
<1>2. /\ enabled' \in [Persons \cup Orgs -> BOOLEAN] /\ memberRole' \in [Orgs \X Persons -> {"admin", "member", None}]
      /\ grants' \subseteq Orgs \X Persons /\ receipts' \subseteq [event : Event, result : {"applied", "stale"}]
  BY <1>1 DEF IdentityTypes
<1>3. \A y \in Persons \cup Orgs : enabled'[y] = IF y = x THEN on ELSE enabled[y]
  BY <1>1 DEF IdentityTypes
<1>4. GuardedBy(locks[c])
  BY <1>3 DEF GuardedBy
<1>5. GrantsFollowIdentity'
  <2>1. ASSUME NEW g \in grants'
        PROVE  Active(g[2], g[1])' /\ memberRole'[g] # None
    <3>1. g \in grants /\ g[1] \in Persons \cup Orgs /\ g[2] \in Persons \cup Orgs
      BY <1>1 DEF IdentityTypes
    <3>2. enabled[g[1]] /\ enabled[g[2]] /\ memberRole[g] # None
      BY <3>1 DEF IdentityInv, GrantsFollowIdentity, Active
    <3>3. enabled'[g[1]]
      BY <1>3, <3>1, <3>2
    <3>4. enabled'[g[2]]
      BY <1>3, <3>1, <3>2
    <3> QED
      BY <3>2, <3>3, <3>4 DEF Active
  <2> QED
    BY <2>1 DEF GrantsFollowIdentity
<1>6. LatestWins'
  BY DEF IdentityInv, LatestWins
<1> QED
  BY <1>2, <1>4, <1>5, <1>6, WriteStep

\* A user is disabled or enabled under his row.
LEMMA UserToggles ==
  ASSUME IdentityAssumption, IdentityInv, NEW c \in Calls, setUserDisabled(c)
  PROVE  IdentityInv'
<1>1. PICK b \in Bodies : b = body[c]
  BY DEF IdentityInv, IdentityTypes
<1>2. At(c, "write") /\ b.kind = "user" /\ body' = body /\ EndTx(c, "done") /\ UNCHANGED <<memberRole, receipts>>
  BY <1>1 DEF setUserDisabled
<1>3. PICK x \in Persons : x = b.target
  BY <1>2, BodyFields
<1>4. PICK on \in BOOLEAN : on = ~b.disabled
  OBVIOUS
<1>5. enabled' = [enabled EXCEPT ![x] = on] /\ grants' = grants \ (IF on THEN {} ELSE Orgs \X {x})
  <2>1. b.disabled \in BOOLEAN
    BY <1>2, BodyFields
  <2> QED
    BY <1>1, <1>3, <1>4, <2>1 DEF setUserDisabled, identity_revoke_dependents
<1>6. Update(UserRow(x)) \in locks[c]
  BY <1>1, <1>2, <1>3, WriterHolds
<1>7. x \notin Orgs
  BY DEF IdentityAssumption
<1>8. ~on => \A g \in grants' : g[1] # x /\ g[2] # x
  BY <1>5, <1>7 DEF IdentityInv, IdentityTypes
<1> QED
  BY <1>2, <1>5, <1>6, <1>7, <1>8, ToggleHolds

\* So is an organization.
LEMMA OrganizationToggles ==
  ASSUME IdentityAssumption, IdentityInv, NEW c \in Calls, setOrganizationDisabled(c)
  PROVE  IdentityInv'
<1>1. PICK b \in Bodies : b = body[c]
  BY DEF IdentityInv, IdentityTypes
<1>2. At(c, "write") /\ b.kind = "organization" /\ body' = body /\ EndTx(c, "done") /\ UNCHANGED <<memberRole, receipts>>
  BY <1>1 DEF setOrganizationDisabled
<1>3. PICK x \in Orgs : x = b.target
  BY <1>2, BodyFields
<1>4. PICK on \in BOOLEAN : on = ~b.disabled
  OBVIOUS
<1>5. enabled' = [enabled EXCEPT ![x] = on] /\ grants' = grants \ (IF on THEN {} ELSE {x} \X Persons)
  <2>1. b.disabled \in BOOLEAN
    BY <1>2, BodyFields
  <2> QED
    BY <1>1, <1>3, <1>4, <2>1 DEF setOrganizationDisabled, identity_revoke_dependents
<1>6. Update(OrgRow(x)) \in locks[c]
  BY <1>1, <1>2, <1>3, WriterHolds
<1>7. x \notin Persons
  BY DEF IdentityAssumption
<1>8. ~on => \A g \in grants' : g[1] # x /\ g[2] # x
  BY <1>5, <1>7 DEF IdentityInv, IdentityTypes
<1> QED
  BY <1>2, <1>5, <1>6, <1>7, <1>8, ToggleHolds

\* The session is inserted while its user is still a member.
LEMMA GrantInserts ==
  ASSUME IdentityAssumption, IdentityInv, NEW c \in Calls, insertGrant(c)
  PROVE  IdentityInv'
<1>1. PICK b \in Bodies : b = body[c]
  BY DEF IdentityInv, IdentityTypes
<1>2. /\ At(c, "write") /\ b.kind = "session" /\ body' = body /\ EndTx(c, "done")
      /\ UNCHANGED <<enabled, memberRole, receipts>> /\ grants' = grants \cup {<<b.org, b.user>>}
  BY <1>1 DEF insertGrant
<1>3. IdentityTypes /\ b.org \in Orgs /\ b.user \in Persons
  BY <1>1, BodyFields DEF IdentityInv
<1>4. /\ enabled' \in [Persons \cup Orgs -> BOOLEAN] /\ memberRole' \in [Orgs \X Persons -> {"admin", "member", None}]
      /\ grants' \subseteq Orgs \X Persons /\ receipts' \subseteq [event : Event, result : {"applied", "stale"}]
  BY <1>2, <1>3 DEF IdentityTypes
<1>5. GuardedBy(locks[c])
  BY <1>2 DEF GuardedBy
<1>6. LatestWins'
  BY <1>2 DEF IdentityInv, LatestWins
<1>7. IsMember(b.user, b.org)
  BY <1>1, <1>2 DEF IdentityInv, Authority, At, Lifecycle
<1>8. GrantsFollowIdentity'
  BY <1>2, <1>7 DEF IdentityInv, GrantsFollowIdentity, IsMember, Active
<1> QED
  BY <1>2, <1>4, <1>5, <1>6, <1>8, WriteStep

\* Sessions may always go.
LEMMA GrantRevokes ==
  ASSUME IdentityInv, NEW g \in grants, revokeGrant(g)
  PROVE  IdentityInv'
<1>1. /\ UNCHANGED <<enabled, memberRole, receipts, body, txPc, todo, locks>> /\ grants' \subseteq grants
  BY DEF revokeGrant, txVars
<1>2. IdentityTypes' /\ Compatible'
  BY <1>1 DEF IdentityInv, IdentityTypes, Compatible
<1>3. ASSUME NEW c \in Calls
      PROVE  HeldBy(c)' /\ Authority(c)' /\ Newest(c)'
  BY <1>1 DEF IdentityInv, HeldBy, ToTake, Authority, Newest, IsOperator, IsMember, Active
<1>4. LatestWins' /\ GrantsFollowIdentity'
  BY <1>1 DEF IdentityInv, LatestWins, GrantsFollowIdentity, Active
<1> QED
  BY <1>2, <1>3, <1>4 DEF IdentityInv

-----------------------------------------------------------------------------
\* Nothing is held or received at first.
LEMMA IdentityStarts ==
  ASSUME IdentityAssumption, IdentityInit
  PROVE  IdentityInv
<1>1. IdentityTypes
  BY DEF IdentityInit, LocksInit, IdentityTypes, IdentityAssumption, IdentityPlaces
<1>2. Compatible
  BY DEF IdentityInit, LocksInit, Compatible
<1>3. ASSUME NEW c \in Calls
      PROVE  HeldBy(c) /\ Authority(c) /\ Newest(c)
  BY DEF IdentityInit, LocksInit, HeldBy, Authority, Newest
<1>4. LatestWins /\ GrantsFollowIdentity
  BY DEF IdentityInit, LatestWins, GrantsFollowIdentity
<1> QED
  BY <1>1, <1>2, <1>3, <1>4 DEF IdentityInv

\* Nothing changes.
LEMMA IdentityQuiet ==
  ASSUME IdentityInv, UNCHANGED identityVars
  PROVE  IdentityInv'
<1>1. UNCHANGED <<enabled, memberRole, receipts, grants, body, txPc, todo, locks>>
  BY DEF identityVars, identityState, tables, txVars
<1>2. IdentityTypes' /\ Compatible'
  BY <1>1 DEF IdentityInv, IdentityTypes, Compatible
<1>3. ASSUME NEW c \in Calls
      PROVE  HeldBy(c)' /\ Authority(c)' /\ Newest(c)'
  BY <1>1 DEF IdentityInv, HeldBy, ToTake, Authority, Newest, IsOperator, IsMember, Active
<1>4. LatestWins' /\ GrantsFollowIdentity'
  BY <1>1 DEF IdentityInv, LatestWins, GrantsFollowIdentity, Active
<1> QED
  BY <1>2, <1>3, <1>4 DEF IdentityInv

\* Every step keeps the invariant.
LEMMA IdentitySteps ==
  ASSUME IdentityAssumption, IdentityInv, [IdentityNext]_identityVars
  PROVE  IdentityInv'
<1>1. ASSUME NEW c \in Calls, IdentityStep(c)
      PROVE  IdentityInv'
  <2>1. CASE lifecycle(c) \/ postSync(c) \/ postSession(c)
    <3>1. PICK allowed : Called(c, allowed) /\ allowed \in BOOLEAN
      BY <2>1 DEF lifecycle, postSync, postSession, IsOperator, IsMember
    <3> QED
      BY <3>1, CalledStep
  <2>2. CASE lockLifecycleActor(c)
    BY <2>2, LockLifecycleActor
  <2>3. CASE activeClerkUser(c)
    BY <2>3, ActiveClerkUser
  <2>4. CASE WaitStep(c)
    BY <2>4, WaitStepHolds
  <2>5. CASE Decide(c)
    BY <2>5, DecideHolds
  <2>6. CASE syncIdentityProvider(c)
    BY <2>6, SyncHolds
  <2>7. CASE setUserDisabled(c)
    BY <2>7, UserToggles
  <2>8. CASE setOrganizationDisabled(c)
    BY <2>8, OrganizationToggles
  <2>9. CASE insertGrant(c)
    BY <2>9, GrantInserts
  <2> QED
    BY <1>1, <2>1, <2>2, <2>3, <2>4, <2>5, <2>6, <2>7, <2>8, <2>9 DEF IdentityStep
<1>2. ASSUME NEW c \in Calls, IdentityAborts(c)
      PROVE  IdentityInv'
  <2>1. EndTx(c, "aborted") /\ UNCHANGED <<tables, body>> /\ "aborted" \in IdentityPlaces \ {"decide", "write"}
    BY <1>2 DEF IdentityAborts, DeadlockVictim, IdentityPlaces
  <2> QED
    BY <2>1, EndStep
<1>3. ASSUME NEW g \in grants, revokeGrant(g)
      PROVE  IdentityInv'
  BY <1>3, GrantRevokes
<1> QED
  BY <1>1, <1>2, <1>3, IdentityQuiet DEF IdentityNext

\* The invariant is what identities promise.
LEMMA IdentityInvSafe ==
  ASSUME IdentityInv
  PROVE  IdentitySafe
<1>1. ReceiptKeysFree
  <2>1. ASSUME NEW c \in Calls, txPc[c] = "write", body[c].kind = "sync", NEW r \in receipts
        PROVE  ~(\/ r.event.id = body[c].event.id
                 \/ syncStreamHash(r.event) = syncStreamHash(body[c].event) /\ r.event.version = body[c].event.version)
    <3>1. /\ r.event.id # body[c].event.id
          /\ syncStreamHash(r.event) = syncStreamHash(body[c].event) => r.event.version < body[c].event.version
      BY <2>1 DEF IdentityInv, Newest
    <3>2. r.event.version \in Nat
      BY DEF IdentityInv, IdentityTypes, Event
    <3> QED
      BY <3>1, <3>2
  <2> QED
    BY <2>1 DEF ReceiptKeysFree
<1> QED
  BY <1>1 DEF IdentityInv, IdentitySafe

\* Provider events in any order leave what the newest one says, no receipt is written twice,
\* and no session outlives the standing of its user, for any number of requests, operators,
\* users and organizations (domain/identity-lifecycle.ts, http/routes/machines.ts).
THEOREM IdentityIsSafe ==
  ASSUME IdentityAssumption
  PROVE  IdentitySpec => []IdentitySafe
<1>1. IdentityInit => IdentityInv
  BY IdentityStarts
<1>2. IdentityInv /\ [IdentityNext]_identityVars => IdentityInv'
  BY IdentitySteps
<1>3. IdentityInv => IdentitySafe
  BY IdentityInvSafe
<1> QED
  BY <1>1, <1>2, <1>3, PTL DEF IdentitySpec

\* Whoever changes an identity is an operator in the state in which the change commits
\* (lockLifecycleActor), for any number of requests.
THEOREM OperatorsActAsOperators ==
  ASSUME IdentityAssumption
  PROVE  IdentitySpec => [][OperatorWhenItHappens]_identityVars
<1>1. IdentityInit => IdentityInv
  BY IdentityStarts
<1>2. IdentityInv /\ [IdentityNext]_identityVars => IdentityInv'
  BY IdentitySteps
<1>3. IdentityInv => OperatorWhenItHappens
  BY DEF IdentityInv, Authority, OperatorWhenItHappens
<1> QED
  BY <1>1, <1>2, <1>3, PTL DEF IdentitySpec

-----------------------------------------------------------------------------
(* API keys: quotas, rotations, sessions and the slots of hasher and verifier. *)

KeyRows == {Organization} \cup ({"api_keys"} \X Keys) \cup ({"users"} \X Staff) \cup ({"organization_members"} \X {"org"} \X Staff)
KeyLock == [mode : {"share", "update"}, row : KeyRows]
Waiting == {"authorize", "write", "issuer"}
KeyPlaces ==
  {"new", "crypto", "running", "waiting", "busy", "refused", "isActive", "organization", "failed", "authorize",
   "write", "commit", "quota", "unavailable", "done", "notFound", "session", "issuer", "grant", "aborted"}

KeysTypes ==
  /\ key \in [Keys -> [state : {"none", "active", "disabled", "revoked"}, root : Keys]]
  /\ org \in BOOLEAN /\ keySessions \subseteq Keys
  /\ asked \in [Calls -> KeyBodies]
  /\ active \in [Queues -> Nat] /\ waiters \in [Queues -> Seq(Calls)]
  /\ txPc \in [Calls -> KeyPlaces] /\ todo \in [Calls -> Seq(KeyLock)] /\ locks \in [Calls -> SUBSET KeyLock]

\* Where requests of a kind may be.
PlaceOfKind(c) ==
  LET kind == asked[c].kind IN
  /\ txPc[c] \in {"isActive", "session", "issuer", "grant"} => kind = "session"
  /\ txPc[c] \in {"authorize", "write", "commit"} => kind # "session"
  /\ txPc[c] = "organization" => kind \in {"create", "rotate"}
  /\ txPc[c] \in {"crypto", "running", "waiting"} => kind \in {"create", "rotate", "session"}
  /\ txPc[c] = "commit" => kind \in {"create", "rotate"}

\* What a request holds, or is about to take, before it writes.
KeyHeldBy(c) ==
  LET b == asked[c]
      soon == locks[c] \cup ToTake(c)
  IN /\ txPc[c] \notin Waiting => todo[c] = <<>>
     /\ b.kind \in {"create", "rotate"} /\ txPc[c] \in {"authorize", "write", "commit"} => Update(Organization) \in soon
     /\ txPc[c] \in {"write", "commit"} =>
          /\ {Share(row) : row \in AdministratorRows(b.user)} \subseteq locks[c]
          /\ b.kind # "create" => Update(KeyRow(b.key)) \in soon
     /\ txPc[c] \in {"issuer", "grant"} => Share(KeyRow(b.key)) \in soon /\ Share(Organization) \in soon

\* What a request found under its locks is still so.
KeyFound(c) ==
  /\ txPc[c] \in {"write", "commit"} => org /\ asked[c].user \in admins
  /\ txPc[c] = "commit" /\ asked[c].kind = "create" => Cardinality(Unrevoked) < MaxActive
  /\ txPc[c] = "commit" /\ asked[c].kind = "rotate" => asked[c].key \in Unrevoked
  /\ txPc[c] = "grant" => org /\ key[asked[c].key].state = "active"

RootsAreRows == \A k \in Rows : key[k].root \in Rows

Running(q) == {c \in Calls : txPc[c] = "running" /\ QueueOf(c) = q}

\* Those who wait for a slot, once each, and those who have one.
Slots(q) ==
  /\ \A i \in 1..Len(waiters[q]) : txPc[waiters[q][i]] = "waiting" /\ QueueOf(waiters[q][i]) = q
  /\ \A i, j \in 1..Len(waiters[q]) : waiters[q][i] = waiters[q][j] => i = j
  /\ IsFiniteSet(Running(q)) /\ active[q] = Cardinality(Running(q))
  /\ active[q] <= Concurrent[q]
  /\ waiters[q] # <<>> => active[q] = Concurrent[q]

KeysInv ==
  /\ KeysTypes /\ Compatible
  /\ \A c \in Calls : PlaceOfKind(c) /\ KeyHeldBy(c) /\ KeyFound(c)
  /\ OneHeirPerKey /\ RootsAreRows /\ GrantsFollowKeys /\ IsFiniteSet(Unrevoked) /\ KeysWithinQuota
  /\ \A q \in Queues : Slots(q)

-----------------------------------------------------------------------------
\* What the fields of a request are.
LEMMA KeyBodyFields ==
  ASSUME ApiKeysAssumption, NEW b \in KeyBodies
  PROVE  /\ b.kind \in {"create", "disable", "enable", "rotate", "revoke", "session"}
         /\ b.kind # "session" => b.user \in Staff
         /\ b.kind # "create" => b.key \in Keys
BY DEF ApiKeysAssumption, KeyBody

\* The locks of a request are locks.
LEMMA KeyLockTypes ==
  ASSUME ApiKeysAssumption, NEW b \in KeyBodies
  PROVE  /\ Update(Organization) \in KeyLock /\ Share(Organization) \in KeyLock
         /\ b.kind # "session" => {Share(row) : row \in AdministratorRows(b.user)} \subseteq KeyLock
         /\ b.kind # "create" => Update(KeyRow(b.key)) \in KeyLock /\ Share(KeyRow(b.key)) \in KeyLock
<1>1. Update(Organization) \in KeyLock /\ Share(Organization) \in KeyLock
  BY DEF Update, Share, KeyLock, KeyRows
<1>2. ASSUME b.kind # "session"
      PROVE  {Share(row) : row \in AdministratorRows(b.user)} \subseteq KeyLock
  BY <1>2, KeyBodyFields DEF AdministratorRows, Share, UserRow, MemberRow, KeyLock, KeyRows
<1>3. ASSUME b.kind # "create"
      PROVE  Update(KeyRow(b.key)) \in KeyLock /\ Share(KeyRow(b.key)) \in KeyLock
  BY <1>3, KeyBodyFields DEF KeyRow, Share, Update, KeyLock, KeyRows
<1> QED
  BY <1>1, <1>2, <1>3

\* What a step changes in the tables it changes under exclusive locks of L.
KeysGuardedBy(L) ==
  /\ org' = org /\ admins' = admins
  /\ \A k \in Rows : key'[k].state # key[k].state => Update(KeyRow(k)) \in L
  /\ Unrevoked' \subseteq Unrevoked \/ Update(Organization) \in L

\* What one request writes under its locks takes nothing from the others.
LEMMA KeyFrame ==
  ASSUME ApiKeysAssumption, KeysInv, asked' = asked, NEW c \in Calls, Untouched(c), KeysGuardedBy(locks[c]),
         NEW d \in Calls, d # c
  PROVE  PlaceOfKind(d)' /\ KeyHeldBy(d)' /\ KeyFound(d)'
<1>1. PICK b \in KeyBodies : b = asked[d]
  BY DEF KeysInv, KeysTypes
<1>2. asked'[d] = b /\ txPc'[d] = txPc[d] /\ todo'[d] = todo[d] /\ locks'[d] = locks[d] /\ ToTake(d)' = ToTake(d)
  BY <1>1 DEF Untouched, ToTake
<1>3. PlaceOfKind(d) /\ KeyHeldBy(d) /\ KeyFound(d)
  BY DEF KeysInv
<1>4. \A l \in locks[c], k \in locks[d] : ~Conflicts(l, k)
  BY DEF KeysInv, Compatible
<1>5. \A row : Share(row) \in locks[d] \/ Update(row) \in locks[d] => Update(row) \notin locks[c]
  BY <1>4 DEF Conflicts, Share, Update
<1>6. PlaceOfKind(d)'
  BY <1>1, <1>2, <1>3 DEF PlaceOfKind
<1>7. KeyHeldBy(d)'
  BY <1>1, <1>2, <1>3 DEF KeyHeldBy
<1>8. txPc[d] \notin Waiting => locks[d] \cup ToTake(d) = locks[d]
  BY <1>3 DEF KeyHeldBy, ToTake
<1>9. org' = org /\ admins' = admins
  BY DEF KeysGuardedBy
<1>10. ASSUME txPc[d] = "commit", b.kind = "create"
       PROVE  Cardinality(Unrevoked') < MaxActive
  <2>1. Update(Organization) \in locks[d]
    BY <1>1, <1>3, <1>8, <1>10 DEF KeyHeldBy, Waiting
  <2>2. Unrevoked' \subseteq Unrevoked
    BY <1>5, <2>1 DEF KeysGuardedBy
  <2>3. Cardinality(Unrevoked') <= Cardinality(Unrevoked) /\ Cardinality(Unrevoked') \in Nat /\ Cardinality(Unrevoked) \in Nat
    BY <2>2, FS_Subset, FS_CardinalityType DEF KeysInv
  <2>4. Cardinality(Unrevoked) < MaxActive
    BY <1>1, <1>3, <1>10 DEF KeyFound
  <2>5. MaxActive \in Nat
    BY DEF ApiKeysAssumption
  <2> QED
    BY <2>3, <2>4, <2>5
<1>11. ASSUME txPc[d] = "commit", b.kind = "rotate"
       PROVE  b.key \in Unrevoked'
  <2>1. Update(KeyRow(b.key)) \in locks[d]
    BY <1>1, <1>3, <1>8, <1>11 DEF KeyHeldBy, Waiting
  <2>2. b.key \in Unrevoked
    BY <1>1, <1>3, <1>11 DEF KeyFound
  <2>3. key'[b.key].state = key[b.key].state
    BY <1>5, <2>1, <2>2 DEF KeysGuardedBy, Unrevoked
  <2> QED
    BY <2>2, <2>3 DEF Unrevoked, Rows
<1>12. ASSUME txPc[d] = "grant"
       PROVE  org' /\ key'[b.key].state = "active"
  <2>1. Share(KeyRow(b.key)) \in locks[d] /\ b.key \in Keys
    BY <1>1, <1>3, <1>8, <1>12, KeyBodyFields DEF KeyHeldBy, Waiting, PlaceOfKind
  <2>2. org /\ key[b.key].state = "active"
    BY <1>1, <1>3, <1>12 DEF KeyFound
  <2>3. key'[b.key].state = key[b.key].state
    BY <1>5, <2>1, <2>2 DEF KeysGuardedBy, Rows
  <2> QED
    BY <1>9, <2>2, <2>3
<1>13. KeyFound(d)'
  BY <1>1, <1>2, <1>3, <1>9, <1>10, <1>11, <1>12 DEF KeyFound
<1> QED
  BY <1>6, <1>7, <1>13

\* The state of the tables by itself.
KeyTablesHold == OneHeirPerKey /\ RootsAreRows /\ GrantsFollowKeys /\ IsFiniteSet(Unrevoked) /\ KeysWithinQuota

\* The invariant from what a step does to its own request.
LEMMA KeysCombine ==
  ASSUME ApiKeysAssumption, KeysInv, asked' = asked, NEW c \in Calls, Untouched(c), KeysGuardedBy(locks[c]),
         KeysTypes', Compatible', PlaceOfKind(c)', KeyHeldBy(c)', KeyFound(c)', KeyTablesHold', \A q \in Queues : Slots(q)'
  PROVE  KeysInv'
<1>1. ASSUME NEW d \in Calls
      PROVE  PlaceOfKind(d)' /\ KeyHeldBy(d)' /\ KeyFound(d)'
  <2>1. CASE d = c
    BY <2>1
  <2>2. CASE d # c
    BY <2>2, KeyFrame
  <2> QED
    BY <2>1, <2>2
<1> QED
  BY <1>1 DEF KeysInv, KeyTablesHold

\* A step that leaves the tables alone.
LEMMA KeyTablesSame ==
  ASSUME KeysInv, UNCHANGED <<key, org, admins, keySessions>>, NEW L
  PROVE  KeysGuardedBy(L) /\ KeyTablesHold'
<1>1. Rows' = Rows /\ Unrevoked' = Unrevoked
  BY DEF Rows, Unrevoked
<1>2. KeysGuardedBy(L)
  BY <1>1 DEF KeysGuardedBy
<1>3. OneHeirPerKey' /\ RootsAreRows' /\ GrantsFollowKeys'
  BY <1>1 DEF KeysInv, OneHeirPerKey, RootsAreRows, GrantsFollowKeys
<1>4. IsFiniteSet(Unrevoked)' /\ KeysWithinQuota'
  BY <1>1 DEF KeysInv, KeysWithinQuota
<1> QED
  BY <1>2, <1>3, <1>4 DEF KeyTablesHold

\* A step of a request that neither runs nor waits for a slot, before and after it.
LEMMA SlotsSame ==
  ASSUME KeysInv, UNCHANGED <<active, waiters, asked>>, NEW c \in Calls, Untouched(c),
         txPc[c] \notin {"running", "waiting"}, txPc'[c] \notin {"running", "waiting"}
  PROVE  \A q \in Queues : Slots(q)'
<1> SUFFICES ASSUME NEW q \in Queues
             PROVE  Slots(q)'
  OBVIOUS
<1>1. Slots(q)
  BY DEF KeysInv
<1>2. Running(q)' = Running(q)
  BY DEF Running, QueueOf, Untouched
<1>3. PICK w \in Seq(Calls) : w = waiters[q] /\ w = waiters'[q]
  BY DEF KeysInv, KeysTypes
<1>4. \A i \in 1..Len(w) : w[i] \in Calls
  BY <1>3
<1>5. \A i \in 1..Len(w) : txPc'[w[i]] = "waiting" /\ QueueOf(w[i])' = q
  BY <1>1, <1>3, <1>4 DEF Slots, Untouched, QueueOf
<1> QED
  BY <1>1, <1>2, <1>3, <1>5 DEF Slots

keyTablesAndQueues == <<key, org, admins, keySessions, asked, active, waiters>>

\* A request moves and leaves tables and queues alone.
LEMMA QuietMove ==
  ASSUME ApiKeysAssumption, KeysInv, UNCHANGED keyTablesAndQueues, NEW c \in Calls, Untouched(c),
         txPc[c] \notin {"running", "waiting"}, txPc'[c] \notin {"running", "waiting"},
         txPc' \in [Calls -> KeyPlaces], todo' \in [Calls -> Seq(KeyLock)], locks' \in [Calls -> SUBSET KeyLock],
         Compatible', PlaceOfKind(c)', KeyHeldBy(c)', KeyFound(c)'
  PROVE  KeysInv'
<1>1. UNCHANGED <<key, org, admins, keySessions>> /\ UNCHANGED <<active, waiters, asked>>
  BY DEF keyTablesAndQueues
<1>2. KeysGuardedBy(locks[c]) /\ KeyTablesHold'
  BY <1>1, KeyTablesSame
<1>3. \A q \in Queues : Slots(q)'
  BY <1>1, SlotsSame
<1>4. KeysTypes'
  BY <1>1 DEF KeysInv, KeysTypes
<1> QED
  BY <1>1, <1>2, <1>3, <1>4, KeysCombine

\* The end of a transaction.
LEMMA KeyEndFields ==
  ASSUME KeysTypes, NEW c \in Calls, NEW outcome \in KeyPlaces, EndTx(c, outcome)
  PROVE  /\ Untouched(c) /\ locks'[c] = {} /\ todo'[c] = <<>> /\ txPc'[c] = outcome
         /\ txPc' \in [Calls -> KeyPlaces] /\ todo' \in [Calls -> Seq(KeyLock)] /\ locks' \in [Calls -> SUBSET KeyLock]
BY DEF EndTx, KeysTypes, Untouched

\* Where a request has ended, or starts again.
Ended == {"crypto", "busy", "refused", "failed", "quota", "unavailable", "done", "notFound", "aborted"}

\* After its end a request holds and promises nothing.
LEMMA EndedHolds ==
  ASSUME NEW c \in Calls, txPc'[c] \in Ended, todo'[c] = <<>>,
         txPc'[c] = "crypto" => asked'[c].kind \in {"create", "rotate", "session"}
  PROVE  PlaceOfKind(c)' /\ KeyHeldBy(c)' /\ KeyFound(c)'
BY DEF PlaceOfKind, KeyHeldBy, KeyFound, Ended, Waiting

\* A request ends and leaves tables and queues alone.
LEMMA QuietEnd ==
  ASSUME ApiKeysAssumption, KeysInv, UNCHANGED keyTablesAndQueues, NEW c \in Calls, NEW outcome \in Ended,
         EndTx(c, outcome), txPc[c] \notin {"running", "waiting"},
         outcome = "crypto" => asked[c].kind \in {"create", "rotate", "session"}
  PROVE  KeysInv'
<1>1. outcome \in KeyPlaces /\ KeysTypes
  BY DEF Ended, KeyPlaces, KeysInv
<1>2. /\ Untouched(c) /\ locks'[c] = {} /\ todo'[c] = <<>> /\ txPc'[c] = outcome
      /\ txPc' \in [Calls -> KeyPlaces] /\ todo' \in [Calls -> Seq(KeyLock)] /\ locks' \in [Calls -> SUBSET KeyLock]
  BY <1>1, KeyEndFields
<1>3. Compatible'
  BY <1>2, CompatibleLess DEF KeysInv
<1>4. asked' = asked
  BY DEF keyTablesAndQueues
<1>5. PlaceOfKind(c)' /\ KeyHeldBy(c)' /\ KeyFound(c)'
  BY <1>2, <1>4, EndedHolds
<1>6. txPc'[c] \notin {"running", "waiting"}
  BY <1>2 DEF Ended
<1> QED
  BY <1>2, <1>3, <1>5, <1>6, QuietMove

\* A request goes on from one place to another and takes no lock.
LEMMA QuietGoes ==
  ASSUME ApiKeysAssumption, KeysInv, UNCHANGED keyTablesAndQueues, NEW c \in Calls, NEW where \in KeyPlaces,
         Goes(c, where), todo[c] = <<>>, txPc[c] \notin {"running", "waiting"}, where \notin {"running", "waiting"}
  PROVE  /\ txPc'[c] = where /\ todo'[c] = <<>> /\ locks'[c] = locks[c]
         /\ PlaceOfKind(c)' /\ KeyHeldBy(c)' /\ KeyFound(c)' => KeysInv'
<1>1. /\ Untouched(c) /\ txPc'[c] = where /\ todo'[c] = <<>> /\ locks'[c] = locks[c]
      /\ txPc' \in [Calls -> KeyPlaces] /\ todo' \in [Calls -> Seq(KeyLock)] /\ locks' \in [Calls -> SUBSET KeyLock]
  BY DEF KeysInv, KeysTypes, Goes, Untouched
<1>2. Compatible'
  BY <1>1, CompatibleLess DEF KeysInv
<1> QED
  BY <1>1, <1>2, QuietMove

\* An administrator asks.
LEMMA AdministratorHolds ==
  ASSUME ApiKeysAssumption, KeysInv, NEW c \in Calls, postKey(c) \/ postDisabled(c) \/ postRotate(c) \/ deleteKey(c)
  PROVE  KeysInv'
<1>1. PICK b \in KeyBodies : b = asked[c]
  BY DEF KeysInv, KeysTypes
<1>2. PICK where : /\ Goes(c, where) /\ where \in {"crypto", "authorize", "refused"}
                   /\ where = "crypto" => b.kind \in {"create", "rotate"}
                   /\ where = "authorize" => b.kind \in {"disable", "enable", "revoke"}
  BY <1>1 DEF postKey, postDisabled, postRotate, deleteKey, AdministratorAsks
<1>3. At(c, "new") /\ UNCHANGED keyTablesAndQueues
  BY DEF postKey, postDisabled, postRotate, deleteKey, AdministratorAsks, keyTablesAndQueues, keyTables, crypto
<1>4. todo[c] = <<>> /\ txPc[c] = "new" /\ where \in KeyPlaces /\ where \notin {"running", "waiting"}
  BY <1>2, <1>3 DEF At, KeyPlaces
<1>5. /\ txPc'[c] = where /\ todo'[c] = <<>>
      /\ PlaceOfKind(c)' /\ KeyHeldBy(c)' /\ KeyFound(c)' => KeysInv'
  BY <1>2, <1>3, <1>4, QuietGoes
<1>6. asked'[c] = b
  BY <1>1, <1>3 DEF keyTablesAndQueues
<1>7. PlaceOfKind(c)' /\ KeyHeldBy(c)' /\ KeyFound(c)'
  BY <1>2, <1>5, <1>6 DEF PlaceOfKind, KeyHeldBy, KeyFound, Waiting
<1> QED
  BY <1>5, <1>7

\* A request authenticates with a key.
LEMMA PrefixHolds ==
  ASSUME ApiKeysAssumption, KeysInv, NEW c \in Calls, findByPrefix(c) \/ authenticate(c)
  PROVE  KeysInv'
<1>1. PICK b \in KeyBodies : b = asked[c]
  BY DEF KeysInv, KeysTypes
<1>2. UNCHANGED keyTablesAndQueues
  BY DEF findByPrefix, authenticate, keyTablesAndQueues, keyTables, crypto
<1>3. b.kind = "session"
  BY <1>1 DEF findByPrefix, authenticate, KeysInv, PlaceOfKind, At
<1>4. PICK where : /\ Goes(c, where) /\ where \in {"crypto", "session", "refused"}
  BY DEF findByPrefix, authenticate
<1>5. todo[c] = <<>> /\ txPc[c] \in {"new", "isActive"} /\ where \in KeyPlaces /\ where \notin {"running", "waiting"}
  BY <1>4 DEF findByPrefix, authenticate, At, KeyPlaces
<1>6. /\ txPc'[c] = where /\ todo'[c] = <<>>
      /\ PlaceOfKind(c)' /\ KeyHeldBy(c)' /\ KeyFound(c)' => KeysInv'
  BY <1>2, <1>4, <1>5, QuietGoes
<1>7. asked'[c] = b
  BY <1>1, <1>2 DEF keyTablesAndQueues
<1>8. PlaceOfKind(c)' /\ KeyHeldBy(c)' /\ KeyFound(c)'
  BY <1>3, <1>4, <1>6, <1>7 DEF PlaceOfKind, KeyHeldBy, KeyFound, Waiting
<1> QED
  BY <1>6, <1>8

\* The request takes the locks S at once.
Takes(c, S) == locks' = [locks EXCEPT ![c] = @ \cup S]

\* A statement begins that is to take the locks `then`.
LEMMA QuietLocking ==
  ASSUME ApiKeysAssumption, KeysInv, UNCHANGED keyTablesAndQueues, NEW c \in Calls, NEW where, where \in Waiting,
         NEW then, then \in Seq(KeyLock), Locking(c, then, where), NEW S, S \subseteq KeyLock,
         Takes(c, S), \A l \in S : Holders(c, l) = {}, txPc[c] \notin {"running", "waiting"}
  PROVE  /\ txPc'[c] = where /\ todo'[c] = then /\ locks'[c] = locks[c] \cup S
         /\ PlaceOfKind(c)' /\ KeyHeldBy(c)' /\ KeyFound(c)' => KeysInv'
<1>1. where \in KeyPlaces /\ where \notin {"running", "waiting"}
  BY DEF Waiting, KeyPlaces
<1>2. /\ Untouched(c) /\ txPc'[c] = where /\ todo'[c] = then /\ locks'[c] = locks[c] \cup S
      /\ txPc' \in [Calls -> KeyPlaces] /\ todo' \in [Calls -> Seq(KeyLock)] /\ locks' \in [Calls -> SUBSET KeyLock]
  BY <1>1 DEF KeysInv, KeysTypes, Locking, Takes, Untouched
<1>3. Compatible'
  BY <1>2, CompatibleMore DEF KeysInv
<1> QED
  BY <1>1, <1>2, <1>3, QuietMove

\* insert, rotate and the opening of a session begin with their locks.
LEMMA BeginsLocking ==
  ASSUME ApiKeysAssumption, KeysInv, NEW c \in Calls, LockOrganization(c) \/ activeApiKey(c)
  PROVE  KeysInv'
<1>1. PICK b \in KeyBodies : b = asked[c]
  BY DEF KeysInv, KeysTypes
<1>2. UNCHANGED keyTablesAndQueues /\ asked'[c] = b
  BY <1>1 DEF LockOrganization, activeApiKey, keyTablesAndQueues, keyTables, crypto
<1>3. PICK S : S = {}
  OBVIOUS
<1>9. Takes(c, S) /\ S \subseteq KeyLock /\ \A l \in S : Holders(c, l) = {}
  BY <1>3 DEF LockOrganization, activeApiKey, Takes, KeysInv, KeysTypes
<1>4. CASE LockOrganization(c)
  <2>1. PICK l \in KeyLock : l = Update(Organization)
    BY KeyLockTypes
  <2>2. PICK then \in Seq(KeyLock) : then = <<l>>
    <3>1. <<l>> \in Seq(KeyLock)
      OBVIOUS
    <3> QED
      BY <3>1
  <2>3. Locking(c, then, "authorize") /\ txPc[c] = "organization" /\ "authorize" \in Waiting
    BY <1>4, <2>1, <2>2 DEF LockOrganization, At, Waiting
  <2>4. /\ txPc'[c] = "authorize" /\ todo'[c] = then
        /\ PlaceOfKind(c)' /\ KeyHeldBy(c)' /\ KeyFound(c)' => KeysInv'
    BY <1>2, <1>9, <2>2, <2>3, QuietLocking
  <2>5. 1 \in 1..Len(then) /\ then[1] = Update(Organization)
    BY <2>1, <2>2
  <2>6. Update(Organization) \in ToTake(c)'
    BY <2>4, <2>5 DEF ToTake
  <2>7. b.kind \in {"create", "rotate"}
    BY <1>1, <2>3 DEF KeysInv, PlaceOfKind
  <2>8. PlaceOfKind(c)' /\ KeyHeldBy(c)' /\ KeyFound(c)'
    BY <1>2, <2>4, <2>6, <2>7 DEF PlaceOfKind, KeyHeldBy, KeyFound, Waiting
  <2> QED
    BY <2>4, <2>8
<1>5. CASE activeApiKey(c)
  <2>1. txPc[c] = "session" /\ b.kind = "session"
    BY <1>1, <1>5 DEF activeApiKey, At, KeysInv, PlaceOfKind
  <2>2. PICK l \in KeyLock, m \in KeyLock : l = Share(KeyRow(b.key)) /\ m = Share(Organization)
    BY <2>1, KeyLockTypes
  <2>3. PICK then \in Seq(KeyLock) : then = <<l, m>>
    <3>1. <<l, m>> \in Seq(KeyLock)
      OBVIOUS
    <3> QED
      BY <3>1
  <2>4. Locking(c, then, "issuer") /\ "issuer" \in Waiting
    BY <1>1, <1>5, <2>2, <2>3 DEF activeApiKey, Waiting
  <2>5. /\ txPc'[c] = "issuer" /\ todo'[c] = then
        /\ PlaceOfKind(c)' /\ KeyHeldBy(c)' /\ KeyFound(c)' => KeysInv'
    BY <1>2, <1>9, <2>1, <2>3, <2>4, QuietLocking
  <2>6. 1 \in 1..Len(then) /\ 2 \in 1..Len(then) /\ then[1] = l /\ then[2] = m
    BY <2>3
  <2>7. Share(KeyRow(b.key)) \in ToTake(c)' /\ Share(Organization) \in ToTake(c)'
    BY <2>2, <2>5, <2>6 DEF ToTake
  <2>8. PlaceOfKind(c)' /\ KeyHeldBy(c)' /\ KeyFound(c)'
    BY <1>2, <2>1, <2>5, <2>7 DEF PlaceOfKind, KeyHeldBy, KeyFound, Waiting
  <2> QED
    BY <2>5, <2>8
<1> QED
  BY <1>4, <1>5

\* An administrator goes on with his rows held, or is refused.
LEMMA LockAdministrator ==
  ASSUME ApiKeysAssumption, KeysInv, NEW c \in Calls, lockApiKeyAdministrator(c)
  PROVE  KeysInv'
<1>1. PICK b \in KeyBodies : b = asked[c]
  BY DEF KeysInv, KeysTypes
<1>2. UNCHANGED keyTablesAndQueues /\ asked'[c] = b
  BY <1>1 DEF lockApiKeyAdministrator, keyTablesAndQueues, keyTables, crypto
<1>3. b.kind # "session" /\ txPc[c] = "authorize" /\ todo[c] = <<>>
  BY <1>1 DEF lockApiKeyAdministrator, HoldActor, At
<1>4. CASE ~(org /\ b.user \in admins)
  <2>1. EndTx(c, "refused") /\ "refused" \in Ended
    BY <1>1, <1>4 DEF lockApiKeyAdministrator, HoldActor, Ended
  <2> QED
    BY <1>2, <1>3, <2>1, QuietEnd
<1>5. CASE org /\ b.user \in admins
  <2>1. PICK S \in SUBSET KeyLock : S = {Share(row) : row \in AdministratorRows(b.user)}
    BY <1>3, KeyLockTypes
  <2>2. PICK then \in Seq(KeyLock) : then = KeyLocks(b)
    <3>1. CASE b.kind = "create"
      <4>1. <<>> \in Seq(KeyLock) /\ KeyLocks(b) = <<>>
        BY <3>1 DEF KeyLocks
      <4> QED
        BY <4>1
    <3>2. CASE b.kind # "create"
      <4>1. PICK l \in KeyLock : l = Update(KeyRow(b.key))
        BY <3>2, KeyLockTypes
      <4>2. <<l>> \in Seq(KeyLock)
        OBVIOUS
      <4> QED
        BY <3>2, <4>1, <4>2 DEF KeyLocks
    <3> QED
      BY <3>1, <3>2
  <2>3. /\ Locking(c, then, "write") /\ "write" \in Waiting
        /\ Takes(c, S) /\ \A l \in S : Holders(c, l) = {}
    BY <1>1, <1>5, <2>1, <2>2 DEF lockApiKeyAdministrator, HoldActor, Takes, Waiting
  <2>4. /\ txPc'[c] = "write" /\ locks'[c] = locks[c] \cup S /\ todo'[c] = then
        /\ PlaceOfKind(c)' /\ KeyHeldBy(c)' /\ KeyFound(c)' => KeysInv'
    BY <1>2, <1>3, <2>1, <2>2, <2>3, QuietLocking
  <2>5. b.kind # "create" => Update(KeyRow(b.key)) \in ToTake(c)'
    <3>1. SUFFICES ASSUME b.kind # "create"
                   PROVE  Update(KeyRow(b.key)) \in ToTake(c)'
      OBVIOUS
    <3>2. PICK l : l = Update(KeyRow(b.key))
      OBVIOUS
    <3>3. then = <<l>>
      BY <2>2, <3>1, <3>2 DEF KeyLocks
    <3>4. 1 \in 1..Len(then) /\ then[1] = l
      BY <3>3
    <3> QED
      BY <2>4, <3>2, <3>4 DEF ToTake
  <2>6. b.kind \in {"create", "rotate"} => Update(Organization) \in locks[c]
    <3>1. KeyHeldBy(c)
      BY DEF KeysInv
    <3>2. ToTake(c) = {}
      BY <1>3 DEF ToTake
    <3> QED
      BY <1>1, <1>3, <3>1, <3>2 DEF KeyHeldBy
  <2>7. KeyHeldBy(c)'
    BY <1>2, <1>3, <2>1, <2>4, <2>5, <2>6 DEF KeyHeldBy, Waiting
  <2>8. PlaceOfKind(c)' /\ KeyFound(c)'
    BY <1>2, <1>3, <1>5, <2>4 DEF PlaceOfKind, KeyFound, keyTablesAndQueues
  <2> QED
    BY <2>4, <2>7, <2>8
<1> QED
  BY <1>4, <1>5

\* A statement takes its next lock: what it was about to hold, it still is.
LEMMA KeyWaitHolds ==
  ASSUME ApiKeysAssumption, KeysInv, NEW c \in Calls, TakeLock(c), UNCHANGED keyTablesAndQueues
  PROVE  KeysInv'
<1>1. KeysTypes /\ PlaceOfKind(c) /\ KeyHeldBy(c) /\ KeyFound(c)
  BY DEF KeysInv
<1>2. PICK l, t : l = Head(todo[c]) /\ t = Tail(todo[c])
  OBVIOUS
<1>3. todo[c] # <<>> /\ Holders(c, l) = {}
  BY <1>2 DEF TakeLock, Waits
<1>4. txPc[c] \in Waiting
  BY <1>1, <1>3 DEF KeyHeldBy
<1>5. l \in KeyLock /\ t \in Seq(KeyLock) /\ ToTake(c) = {l} \cup {t[i] : i \in 1..Len(t)}
  <2>1. todo \in [Calls -> Seq(KeyLock)]
    BY <1>1 DEF KeysTypes
  <2> QED
    <3>1. /\ Head(todo[c]) \in KeyLock /\ Tail(todo[c]) \in Seq(KeyLock)
          /\ ToTake(c) = {Head(todo[c])} \cup {Tail(todo[c])[i] : i \in 1..Len(Tail(todo[c]))}
      BY <1>3, <2>1, TakesNext
    <3> QED
      BY <1>2, <3>1
<1>6. /\ Untouched(c) /\ locks'[c] = locks[c] \cup {l} /\ todo'[c] = t /\ txPc' = txPc
      /\ txPc' \in [Calls -> KeyPlaces] /\ todo' \in [Calls -> Seq(KeyLock)] /\ locks' \in [Calls -> SUBSET KeyLock]
  BY <1>1, <1>2, <1>5 DEF TakeLock, KeysTypes, Untouched
<1>7. Compatible'
  BY <1>3, <1>6, CompatibleMore DEF KeysInv
<1>8. locks'[c] \cup ToTake(c)' = locks[c] \cup ToTake(c)
  BY <1>5, <1>6 DEF ToTake
<1>9. asked' = asked /\ UNCHANGED <<key, org, admins>>
  BY DEF keyTablesAndQueues
<1>10. KeyHeldBy(c)'
  BY <1>1, <1>4, <1>6, <1>8, <1>9 DEF KeyHeldBy
<1>11. PlaceOfKind(c)' /\ KeyFound(c)'
  BY <1>1, <1>6, <1>9 DEF PlaceOfKind, KeyFound, Unrevoked, Rows
<1> QED
  BY <1>4, <1>6, <1>7, <1>10, <1>11, QuietMove DEF Waiting

\* The insert passes the trigger while the organization's row is held.
LEMMA InsertHolds ==
  ASSUME ApiKeysAssumption, KeysInv, NEW c \in Calls, insert(c)
  PROVE  KeysInv'
<1>1. PICK b \in KeyBodies : b = asked[c]
  BY DEF KeysInv, KeysTypes
<1>2. UNCHANGED keyTablesAndQueues /\ asked'[c] = b
  BY <1>1 DEF insert, keyTablesAndQueues, keyTables, crypto
<1>3. txPc[c] = "write" /\ todo[c] = <<>> /\ b.kind \in {"create", "rotate"} /\ (b.kind = "rotate" => UsableKey(b.key))
  BY <1>1 DEF insert, Inserting, At
<1>4. CASE ~WithinBounds(Beside(c))
  <2>1. EndTx(c, "quota") /\ "quota" \in Ended
    BY <1>4 DEF insert, Ended
  <2> QED
    BY <1>2, <1>3, <2>1, QuietEnd
<1>5. CASE WithinBounds(Beside(c))
  <2>1. Goes(c, "commit") /\ "commit" \in KeyPlaces
    BY <1>5 DEF insert, KeyPlaces
  <2>2. /\ txPc'[c] = "commit" /\ todo'[c] = <<>> /\ locks'[c] = locks[c]
        /\ PlaceOfKind(c)' /\ KeyHeldBy(c)' /\ KeyFound(c)' => KeysInv'
    BY <1>2, <1>3, <2>1, QuietGoes
  <2>3. PlaceOfKind(c) /\ KeyHeldBy(c) /\ KeyFound(c)
    BY DEF KeysInv
  <2>4. ToTake(c) = {} /\ ToTake(c)' = {}
    BY <1>3, <2>2 DEF ToTake
  <2>5. PlaceOfKind(c)'
    BY <1>2, <1>3, <2>2 DEF PlaceOfKind
  <2>6. KeyHeldBy(c)'
    BY <1>1, <1>2, <1>3, <2>2, <2>3, <2>4 DEF KeyHeldBy, Waiting
  <2>7. KeyFound(c)'
    <3>1. org' = org /\ admins' = admins /\ Unrevoked' = Unrevoked
      BY <1>2 DEF keyTablesAndQueues, Unrevoked, Rows
    <3>2. org /\ b.user \in admins
      BY <1>1, <1>3, <2>3 DEF KeyFound
    <3>3. b.kind = "create" => Cardinality(Unrevoked) < MaxActive
      BY <1>1, <1>5 DEF WithinBounds, Beside
    <3>4. b.kind = "rotate" => b.key \in Unrevoked
      BY <1>3, KeyBodyFields DEF UsableKey, Unrevoked, Rows
    <3> QED
      BY <1>2, <2>2, <3>1, <3>2, <3>3, <3>4 DEF KeyFound
  <2> QED
    BY <2>2, <2>5, <2>6, <2>7
<1> QED
  BY <1>4, <1>5

\* The transactions that end without a change.
LEMMA EndsHold ==
  ASSUME ApiKeysAssumption, KeysInv, NEW c \in Calls, Collides(c) \/ rotateNothing(c) \/ KeyAborts(c)
  PROVE  KeysInv'
<1>1. UNCHANGED keyTablesAndQueues
  BY DEF Collides, rotateNothing, KeyAborts, keyTablesAndQueues, keyTables, crypto
<1>2. CASE Collides(c)
  <2>1. PICK outcome \in {"crypto", "unavailable"} : EndTx(c, outcome)
    BY <1>2 DEF Collides
  <2>2. txPc[c] = "write" /\ asked[c].kind \in {"create", "rotate"} /\ outcome \in Ended
    BY <1>2 DEF Collides, Inserting, At, Ended
  <2> QED
    BY <1>1, <2>1, <2>2, QuietEnd
<1>3. CASE rotateNothing(c)
  <2>1. EndTx(c, "notFound") /\ "notFound" \in Ended /\ txPc[c] = "write"
    BY <1>3 DEF rotateNothing, Ended, At
  <2> QED
    BY <1>1, <2>1, QuietEnd
<1>4. CASE KeyAborts(c)
  <2>1. EndTx(c, "aborted") /\ "aborted" \in Ended /\ Waits(c) # {}
    BY <1>4 DEF KeyAborts, DeadlockVictim, Ended
  <2>2. todo[c] # <<>>
    BY <2>1 DEF Waits
  <2>3. txPc[c] \in Waiting
    BY <2>2 DEF KeysInv, KeyHeldBy
  <2> QED
    BY <1>1, <2>1, <2>3, QuietEnd DEF Waiting
<1> QED
  BY <1>2, <1>3, <1>4

\* The issuer of a session is judged under the locks on it.
LEMMA IssuerHolds ==
  ASSUME ApiKeysAssumption, KeysInv, NEW c \in Calls, issuerHeld(c)
  PROVE  KeysInv'
<1>1. PICK b \in KeyBodies : b = asked[c]
  BY DEF KeysInv, KeysTypes
<1>2. UNCHANGED keyTablesAndQueues /\ asked'[c] = b
  BY <1>1 DEF issuerHeld, keyTablesAndQueues, keyTables, crypto
<1>3. txPc[c] = "issuer" /\ todo[c] = <<>>
  BY DEF issuerHeld, At
<1>4. CASE ~(org /\ UsableKey(b.key))
  <2>1. EndTx(c, "refused") /\ "refused" \in Ended
    BY <1>1, <1>4 DEF issuerHeld, Ended
  <2> QED
    BY <1>2, <1>3, <2>1, QuietEnd
<1>5. CASE org /\ UsableKey(b.key)
  <2>1. Goes(c, "grant") /\ "grant" \in KeyPlaces
    BY <1>1, <1>5 DEF issuerHeld, KeyPlaces
  <2>2. /\ txPc'[c] = "grant" /\ todo'[c] = <<>> /\ locks'[c] = locks[c]
        /\ PlaceOfKind(c)' /\ KeyHeldBy(c)' /\ KeyFound(c)' => KeysInv'
    BY <1>2, <1>3, <2>1, QuietGoes
  <2>3. PlaceOfKind(c) /\ KeyHeldBy(c)
    BY DEF KeysInv
  <2>4. ToTake(c) = {} /\ ToTake(c)' = {}
    BY <1>3, <2>2 DEF ToTake
  <2>5. PlaceOfKind(c)'
    BY <1>1, <1>2, <1>3, <2>2, <2>3 DEF PlaceOfKind
  <2>6. KeyHeldBy(c)'
    BY <1>1, <1>2, <1>3, <2>2, <2>3, <2>4 DEF KeyHeldBy, Waiting
  <2>7. KeyFound(c)'
    BY <1>2, <1>5, <2>2 DEF KeyFound, UsableKey, keyTablesAndQueues
  <2> QED
    BY <2>2, <2>5, <2>6, <2>7
<1> QED
  BY <1>4, <1>5

-----------------------------------------------------------------------------
KeyRecords == [state : {"none", "active", "disabled", "revoked"}, root : Keys]

\* A request writes the tables under its locks, and ends.
LEMMA KeyWriteStep ==
  ASSUME ApiKeysAssumption, KeysInv, NEW c \in Calls, txPc[c] \notin {"running", "waiting"}, EndTx(c, "done"),
         UNCHANGED <<active, waiters, asked>>, key' \in [Keys -> KeyRecords], keySessions' \subseteq Keys,
         KeysGuardedBy(locks[c]), KeyTablesHold'
  PROVE  KeysInv'
<1>1. KeysTypes /\ "done" \in KeyPlaces /\ "done" \in Ended
  BY DEF KeysInv, KeyPlaces, Ended
<1>2. /\ Untouched(c) /\ locks'[c] = {} /\ todo'[c] = <<>> /\ txPc'[c] = "done"
      /\ txPc' \in [Calls -> KeyPlaces] /\ todo' \in [Calls -> Seq(KeyLock)] /\ locks' \in [Calls -> SUBSET KeyLock]
  BY <1>1, KeyEndFields
<1>3. Compatible'
  BY <1>2, CompatibleLess DEF KeysInv
<1>4. PlaceOfKind(c)' /\ KeyHeldBy(c)' /\ KeyFound(c)'
  BY <1>1, <1>2, EndedHolds
<1>5. \A q \in Queues : Slots(q)'
  BY <1>2, SlotsSame
<1>6. KeysTypes'
  BY <1>1, <1>2 DEF KeysTypes, KeysGuardedBy, KeyRecords
<1> QED
  BY <1>2, <1>3, <1>4, <1>5, <1>6, KeysCombine

\* What a request that writes holds: everything its statements asked for.
LEMMA KeyWriterHolds ==
  ASSUME KeysInv, NEW c \in Calls, At(c, "write") \/ At(c, "commit") \/ At(c, "grant"), NEW b, b = asked[c]
  PROVE  /\ txPc[c] # "grant" /\ b.kind \in {"create", "rotate"} => Update(Organization) \in locks[c]
         /\ txPc[c] # "grant" /\ b.kind # "create" => Update(KeyRow(b.key)) \in locks[c]
<1>1. KeyHeldBy(c) /\ txPc[c] \in {"write", "commit", "grant"} /\ todo[c] = <<>>
  BY DEF KeysInv, At
<1>2. ToTake(c) = {}
  BY <1>1 DEF ToTake
<1> QED
  BY <1>1, <1>2 DEF KeyHeldBy

KeyTurns(k, to) == key' = [key EXCEPT ![k].state = to]

\* A key is disabled, enabled or revoked under its lock.
LEMMA KeyTurnsHold ==
  ASSUME ApiKeysAssumption, KeysInv, NEW k \in Rows, NEW to \in {"active", "disabled", "revoked"}, to # "revoked" => k \in Unrevoked,
         KeyTurns(k, to), UNCHANGED <<org, admins>>, keySessions' \subseteq keySessions,
         to # "active" => k \notin keySessions', NEW L, Update(KeyRow(k)) \in L
  PROVE  key' \in [Keys -> KeyRecords] /\ keySessions' \subseteq Keys /\ KeysGuardedBy(L) /\ KeyTablesHold'
<1>1. KeysTypes /\ k \in Keys
  BY DEF KeysInv, Rows
<1>2. /\ key' \in [Keys -> KeyRecords] /\ key'[k].state = to
      /\ \A x \in Keys : key'[x].root = key[x].root /\ (x # k => key'[x].state = key[x].state)
  <2>1. key \in [Keys -> KeyRecords]
    BY <1>1 DEF KeysTypes, KeyRecords
  <2>2. key' = [key EXCEPT ![k] = [key[k] EXCEPT !.state = to]]
    BY DEF KeyTurns
  <2>3. key[k] \in KeyRecords
    BY <1>1, <2>1
  <2>4. [key[k] EXCEPT !.state = to] \in KeyRecords /\ [key[k] EXCEPT !.state = to].state = to
        /\ [key[k] EXCEPT !.state = to].root = key[k].root
    BY <2>3 DEF KeyRecords
  <2> QED
    BY <1>1, <2>1, <2>2, <2>4
<1>3. Rows' = Rows
  BY <1>1, <1>2 DEF Rows
<1>4. Unrevoked' = IF to = "revoked" THEN Unrevoked \ {k} ELSE Unrevoked
  BY <1>1, <1>2, <1>3 DEF Unrevoked, Rows
<1>5. Unrevoked' \subseteq Unrevoked
  BY <1>4
<1>6. KeysGuardedBy(L)
  BY <1>2, <1>5 DEF KeysGuardedBy, Rows
<1>7. OneHeirPerKey'
  BY <1>2, <1>5 DEF KeysInv, OneHeirPerKey, Unrevoked, Rows
<1>8. RootsAreRows'
  BY <1>2, <1>3 DEF KeysInv, RootsAreRows, Rows
<1>9. GrantsFollowKeys'
  <2>1. ASSUME NEW x \in keySessions'
        PROVE  key'[x].state = "active" /\ org'
    <3>1. x \in keySessions /\ x \in Keys /\ key[x].state = "active" /\ org
      BY <1>1 DEF KeysInv, GrantsFollowKeys, KeysTypes
    <3> QED
      BY <1>2, <3>1
  <2> QED
    BY <2>1 DEF GrantsFollowKeys
<1>10. IsFiniteSet(Unrevoked)' /\ KeysWithinQuota'
  <2>1. IsFiniteSet(Unrevoked') /\ Cardinality(Unrevoked') <= Cardinality(Unrevoked)
    BY <1>5, FS_Subset DEF KeysInv
  <2>2. MaxActive \in Nat
    BY DEF ApiKeysAssumption
  <2>3. Cardinality(Unrevoked) \in Nat /\ Cardinality(Unrevoked') \in Nat
    BY <2>1, FS_CardinalityType DEF KeysInv
  <2>4. Cardinality(Unrevoked) <= MaxActive
    BY DEF KeysInv, KeysWithinQuota
  <2> QED
    BY <2>1, <2>2, <2>3, <2>4 DEF KeysWithinQuota
<1> QED
  BY <1>1, <1>2, <1>6, <1>7, <1>8, <1>9, <1>10 DEF KeyTablesHold, KeysTypes

\* disable, enable and revoke turn a key under its lock, or find none.
LEMMA DisableHolds ==
  ASSUME ApiKeysAssumption, KeysInv, NEW c \in Calls, setDisabled(c) \/ revokeKey(c)
  PROVE  KeysInv'
<1>1. PICK b \in KeyBodies : b = asked[c]
  BY DEF KeysInv, KeysTypes
<1>2. /\ At(c, "write") /\ b.kind \in {"disable", "enable", "revoke"} /\ UNCHANGED <<active, waiters, asked>>
      /\ UNCHANGED <<org, admins>>
  BY <1>1 DEF setDisabled, revokeKey, crypto
<1>3. txPc[c] = "write"
  BY <1>2 DEF At
<1>4. PICK to : to = IF b.kind = "disable" THEN "disabled" ELSE IF b.kind = "enable" THEN "active" ELSE "revoked"
  OBVIOUS
<1>5. CASE b.key \in Rows /\ (to # "revoked" => b.key \in Unrevoked)
  <2>1. /\ KeyTurns(b.key, to) /\ EndTx(c, "done")
        /\ keySessions' = IF to = "active" THEN keySessions ELSE keySessions \ {b.key}
    <3>1. CASE setDisabled(c)
      BY <1>1, <1>2, <1>4, <1>5, <3>1 DEF setDisabled, KeyTurns
    <3>2. CASE revokeKey(c)
      BY <1>1, <1>2, <1>4, <1>5, <3>2 DEF revokeKey, KeyTurns
    <3> QED
      BY <3>1, <3>2
  <2>2. to \in {"active", "disabled", "revoked"} /\ keySessions' \subseteq keySessions /\ (to # "active" => b.key \notin keySessions')
    BY <1>4, <2>1
  <2>3. Update(KeyRow(b.key)) \in locks[c]
    BY <1>1, <1>2, <1>3, KeyWriterHolds
  <2>4. key' \in [Keys -> KeyRecords] /\ keySessions' \subseteq Keys /\ KeysGuardedBy(locks[c]) /\ KeyTablesHold'
    <3>1. PICK k, L : k = b.key /\ L = locks[c]
      OBVIOUS
    <3>2. k \in Rows /\ (to # "revoked" => k \in Unrevoked) /\ KeyTurns(k, to) /\ Update(KeyRow(k)) \in L
      BY <1>5, <2>1, <2>3, <3>1
    <3>3. to # "active" => k \notin keySessions'
      BY <2>2, <3>1
    <3>4. key' \in [Keys -> KeyRecords] /\ keySessions' \subseteq Keys /\ KeysGuardedBy(L) /\ KeyTablesHold'
      BY <1>2, <2>2, <3>2, <3>3, KeyTurnsHold
    <3> QED
      BY <3>1, <3>4
  <2> QED
    BY <1>2, <1>3, <2>1, <2>4, KeyWriteStep
<1>6. CASE ~(b.key \in Rows /\ (to # "revoked" => b.key \in Unrevoked))
  <2>1. EndTx(c, "notFound") /\ UNCHANGED <<key, keySessions>> /\ "notFound" \in Ended
    <3>1. b.kind \in {"disable", "enable"} => b.key \notin Unrevoked
      BY <1>4, <1>6 DEF Unrevoked
    <3>2. b.kind = "revoke" => b.key \notin Rows
      BY <1>4, <1>6
    <3> QED
      BY <1>1, <3>1, <3>2 DEF setDisabled, revokeKey, Ended
  <2>2. UNCHANGED keyTablesAndQueues
    BY <1>2, <2>1 DEF keyTablesAndQueues
  <2> QED
    BY <1>3, <2>1, <2>2, QuietEnd
<1> QED
  BY <1>5, <1>6

\* The session is inserted while its key is still active.
LEMMA GrantInsertHolds ==
  ASSUME ApiKeysAssumption, KeysInv, NEW c \in Calls, insertKeyGrant(c)
  PROVE  KeysInv'
<1>1. PICK b \in KeyBodies : b = asked[c]
  BY DEF KeysInv, KeysTypes
<1>2. /\ txPc[c] = "grant" /\ EndTx(c, "done") /\ UNCHANGED <<active, waiters, asked>>
      /\ keySessions' = keySessions \cup {b.key} /\ UNCHANGED <<key, org, admins>>
  BY <1>1 DEF insertKeyGrant, At, crypto
<1>3. b.key \in Keys
  BY <1>1, <1>2, KeyBodyFields DEF KeysInv, PlaceOfKind
<1>4. key' \in [Keys -> KeyRecords] /\ keySessions' \subseteq Keys
  BY <1>2, <1>3 DEF KeysInv, KeysTypes, KeyRecords
<1>5. Rows' = Rows /\ Unrevoked' = Unrevoked
  BY <1>2 DEF Rows, Unrevoked
<1>6. KeysGuardedBy(locks[c])
  BY <1>2, <1>5 DEF KeysGuardedBy
<1>7. GrantsFollowKeys'
  BY <1>1, <1>2 DEF KeysInv, KeyFound, GrantsFollowKeys
<1>8. OneHeirPerKey' /\ RootsAreRows' /\ IsFiniteSet(Unrevoked)' /\ KeysWithinQuota'
  BY <1>2, <1>5 DEF KeysInv, OneHeirPerKey, RootsAreRows, KeysWithinQuota
<1> QED
  BY <1>2, <1>4, <1>6, <1>7, <1>8, KeyWriteStep DEF KeyTablesHold

\* A new key is its own root and fits the quota, since the organization was held from the count on.
LEMMA CreateHolds ==
  ASSUME ApiKeysAssumption, KeysInv, NEW c \in Calls, create(c)
  PROVE  KeysInv'
<1>1. PICK b \in KeyBodies : b = asked[c]
  BY DEF KeysInv, KeysTypes
<1>2. /\ At(c, "commit") /\ txPc[c] = "commit" /\ b.kind = "create" /\ EndTx(c, "done") /\ UNCHANGED <<active, waiters, asked>>
      /\ UNCHANGED <<org, admins, keySessions>>
  BY <1>1 DEF create, At, crypto
<1>3. PICK n \in Keys \ Rows : key' = [key EXCEPT ![n] = [state |-> "active", root |-> n]]
  BY DEF create
<1>4. KeysTypes
  BY DEF KeysInv
<1>5. /\ key' \in [Keys -> KeyRecords] /\ key'[n].state = "active" /\ key'[n].root = n
      /\ \A x \in Keys \ {n} : key'[x] = key[x]
  BY <1>3, <1>4 DEF KeysTypes, KeyRecords
<1>6. Rows' = Rows \cup {n} /\ Unrevoked' = Unrevoked \cup {n} /\ n \notin Unrevoked
  BY <1>3, <1>5 DEF Rows, Unrevoked
<1>7. Update(Organization) \in locks[c]
  BY <1>1, <1>2, KeyWriterHolds
<1>8. KeysGuardedBy(locks[c])
  BY <1>2, <1>3, <1>5, <1>7 DEF KeysGuardedBy, Rows
<1>9. \A x \in Rows : x # n /\ x \in Keys /\ key'[x] = key[x] /\ key[x].root \in Rows
  BY <1>3, <1>5 DEF KeysInv, RootsAreRows, Rows
<1>10. OneHeirPerKey'
  <2>1. ASSUME NEW j \in Unrevoked', NEW k \in Unrevoked', key'[j].root = key'[k].root
        PROVE  j = k
    <3>1. CASE j = n /\ k # n
      BY <1>3, <1>5, <1>6, <1>9, <2>1, <3>1 DEF Unrevoked
    <3>2. CASE j # n /\ k = n
      BY <1>3, <1>5, <1>6, <1>9, <2>1, <3>2 DEF Unrevoked
    <3>3. CASE j # n /\ k # n
      <4>1. j \in Unrevoked /\ k \in Unrevoked /\ j \in Rows /\ k \in Rows
        BY <1>6, <3>3 DEF Unrevoked
      <4> QED
        BY <1>9, <2>1, <4>1 DEF KeysInv, OneHeirPerKey
    <3> QED
      BY <3>1, <3>2, <3>3
  <2> QED
    BY <2>1 DEF OneHeirPerKey
<1>11. RootsAreRows'
  BY <1>5, <1>6, <1>9 DEF RootsAreRows
<1>12. GrantsFollowKeys'
  <2>1. ASSUME NEW x \in keySessions'
        PROVE  key'[x].state = "active" /\ org'
    <3>1. x \in Keys /\ key[x].state = "active" /\ org
      BY <1>2, <1>4 DEF KeysInv, GrantsFollowKeys, KeysTypes
    <3>2. x \in Rows
      BY <3>1 DEF Rows
    <3> QED
      BY <1>2, <1>9, <3>1, <3>2
  <2> QED
    BY <2>1 DEF GrantsFollowKeys
<1>13. IsFiniteSet(Unrevoked)' /\ KeysWithinQuota'
  <2>1. IsFiniteSet(Unrevoked) /\ Cardinality(Unrevoked) \in Nat /\ MaxActive \in Nat
    BY FS_CardinalityType DEF KeysInv, ApiKeysAssumption
  <2>2. IsFiniteSet(Unrevoked') /\ Cardinality(Unrevoked') = Cardinality(Unrevoked) + 1
    BY <1>6, <2>1, FS_AddElement
  <2>3. Cardinality(Unrevoked) < MaxActive
    BY <1>1, <1>2 DEF KeysInv, KeyFound
  <2>4. Cardinality(Unrevoked') <= MaxActive
    BY <2>1, <2>2, <2>3
  <2> QED
    BY <2>2, <2>4 DEF KeysWithinQuota
<1>14. keySessions' \subseteq Keys
  BY <1>2, <1>4 DEF KeysTypes
<1> QED
  BY <1>2, <1>5, <1>8, <1>10, <1>11, <1>12, <1>13, <1>14, KeyWriteStep DEF KeyTablesHold

\* A rotation replaces: the quota and the number of heirs stay what they were.
LEMMA RotateHolds ==
  ASSUME ApiKeysAssumption, KeysInv, NEW c \in Calls, rotate(c)
  PROVE  KeysInv'
<1>1. PICK b \in KeyBodies : b = asked[c]
  BY DEF KeysInv, KeysTypes
<1>2. /\ At(c, "commit") /\ txPc[c] = "commit" /\ b.kind = "rotate" /\ EndTx(c, "done") /\ UNCHANGED <<active, waiters, asked>>
      /\ UNCHANGED <<org, admins>> /\ keySessions' = keySessions \ {b.key}
  BY <1>1 DEF rotate, At, crypto
<1>3. PICK k \in Keys : k = b.key
  BY <1>2, KeyBodyFields
<1>4. PICK n \in Keys \ Rows : key' = [key EXCEPT ![k].state = "revoked", ![n] = [state |-> "active", root |-> key[k].root]]
  BY <1>1, <1>3 DEF rotate
<1>5. KeysTypes /\ k \in Unrevoked /\ k \in Rows /\ k # n
  BY <1>1, <1>2, <1>3, <1>4 DEF KeysInv, KeyFound, Unrevoked
<1>6. /\ key' \in [Keys -> KeyRecords] /\ key'[n].state = "active" /\ key'[n].root = key[k].root
      /\ key'[k].state = "revoked" /\ key'[k].root = key[k].root
      /\ \A x \in Keys \ {k, n} : key'[x] = key[x]
  <2>1. key \in [Keys -> KeyRecords]
    BY <1>5 DEF KeysTypes, KeyRecords
  <2>2. PICK r \in KeyRecords : r = key[k]
    BY <2>1
  <2>3. PICK u \in KeyRecords : u = [r EXCEPT !.state = "revoked"]
    BY DEF KeyRecords
  <2>4. PICK v \in KeyRecords : v = [state |-> "active", root |-> r.root]
    BY DEF KeyRecords
  <2>5. u.state = "revoked" /\ u.root = r.root /\ v.state = "active" /\ v.root = r.root
    BY <2>3, <2>4 DEF KeyRecords
  <2>6. key' = [[key EXCEPT ![k] = u] EXCEPT ![n] = v]
    BY <1>4, <1>5, <2>1, <2>2, <2>3, <2>4
  <2> QED
    BY <1>5, <2>1, <2>2, <2>5, <2>6
<1>7. /\ Rows' = Rows \cup {n} /\ Unrevoked' = (Unrevoked \ {k}) \cup {n} /\ n \notin Unrevoked
  BY <1>4, <1>5, <1>6 DEF Rows, Unrevoked
<1>8. Update(Organization) \in locks[c] /\ Update(KeyRow(k)) \in locks[c]
  BY <1>1, <1>2, <1>3, KeyWriterHolds
<1>9. KeysGuardedBy(locks[c])
  BY <1>2, <1>4, <1>6, <1>8 DEF KeysGuardedBy, Rows
<1>10. \A x \in Rows : x # n /\ x \in Keys /\ key'[x].root = key[x].root /\ key[x].root \in Rows
  BY <1>4, <1>6 DEF KeysInv, RootsAreRows, Rows
<1>11. OneHeirPerKey'
  <2>1. ASSUME NEW i \in Unrevoked', NEW j \in Unrevoked', key'[i].root = key'[j].root
        PROVE  i = j
    <3>1. \A x \in Unrevoked \ {k} : key[x].root # key[k].root /\ x \in Rows
      BY <1>5 DEF KeysInv, OneHeirPerKey, Unrevoked
    <3>2. CASE i = n /\ j # n
      BY <1>6, <1>7, <1>10, <2>1, <3>1, <3>2
    <3>3. CASE i # n /\ j = n
      BY <1>6, <1>7, <1>10, <2>1, <3>1, <3>3
    <3>4. CASE i # n /\ j # n
      <4>1. i \in Unrevoked /\ j \in Unrevoked /\ i \in Rows /\ j \in Rows
        BY <1>7, <3>4 DEF Unrevoked
      <4> QED
        BY <1>10, <2>1, <4>1 DEF KeysInv, OneHeirPerKey
    <3> QED
      BY <3>2, <3>3, <3>4
  <2> QED
    BY <2>1 DEF OneHeirPerKey
<1>12. RootsAreRows'
  BY <1>5, <1>6, <1>7, <1>10 DEF RootsAreRows
<1>13. GrantsFollowKeys'
  <2>1. ASSUME NEW x \in keySessions'
        PROVE  key'[x].state = "active" /\ org'
    <3>1. x \in Keys /\ key[x].state = "active" /\ org /\ x # k
      BY <1>2, <1>3, <1>5 DEF KeysInv, GrantsFollowKeys, KeysTypes
    <3>2. x # n
      BY <1>4, <3>1 DEF Rows
    <3> QED
      BY <1>2, <1>6, <3>1, <3>2
  <2> QED
    BY <2>1 DEF GrantsFollowKeys
<1>14. IsFiniteSet(Unrevoked)' /\ KeysWithinQuota'
  <2>1. IsFiniteSet(Unrevoked) /\ Cardinality(Unrevoked) \in Nat
    BY FS_CardinalityType DEF KeysInv
  <2>2. IsFiniteSet(Unrevoked \ {k}) /\ Cardinality(Unrevoked \ {k}) = Cardinality(Unrevoked) - 1
    BY <1>5, <2>1, FS_RemoveElement
  <2>3. IsFiniteSet(Unrevoked') /\ Cardinality(Unrevoked') = Cardinality(Unrevoked \ {k}) + 1
    BY <1>7, <2>2, FS_AddElement
  <2>4. Cardinality(Unrevoked') = Cardinality(Unrevoked)
    BY <2>1, <2>2, <2>3
  <2> QED
    BY <2>3, <2>4 DEF KeysInv, KeysWithinQuota
<1>15. keySessions' \subseteq Keys
  BY <1>2, <1>5 DEF KeysTypes
<1> QED
  BY <1>2, <1>6, <1>9, <1>11, <1>12, <1>13, <1>14, <1>15, KeyWriteStep DEF KeyTablesHold

-----------------------------------------------------------------------------
\* The slots of one queue change; those of the other stay.
LEMMA OtherSlots ==
  ASSUME KeysInv, UNCHANGED asked, NEW q \in Queues, NEW p \in Queues, p # q, active'[p] = active[p], waiters'[p] = waiters[p],
         \A d \in Calls : QueueOf(d) # q => txPc'[d] = txPc[d]
  PROVE  Slots(p)'
<1>1. Slots(p)
  BY DEF KeysInv
<1>2. \A d \in Calls : QueueOf(d)' = QueueOf(d)
  BY DEF QueueOf
<1>3. Running(p)' = Running(p)
  BY <1>2 DEF Running
<1>4. PICK w \in Seq(Calls) : w = waiters[p] /\ w = waiters'[p]
  BY DEF KeysInv, KeysTypes
<1>5. \A i \in 1..Len(w) : w[i] \in Calls
  BY <1>4
<1>6. \A i \in 1..Len(w) : txPc'[w[i]] = "waiting" /\ QueueOf(w[i])' = p
  BY <1>1, <1>2, <1>4, <1>5 DEF Slots
<1> QED
  BY <1>1, <1>3, <1>4, <1>6 DEF Slots

\* An operation runs, waits, or is turned away.
LEMMA EnterHolds ==
  ASSUME ApiKeysAssumption, KeysInv, NEW c \in Calls, Enter(c)
  PROVE  KeysInv'
<1>1. PICK q \in Queues : q = QueueOf(c)
  BY DEF QueueOf, Queues
<1>2. /\ txPc[c] = "crypto" /\ todo[c] = <<>> /\ asked' = asked /\ UNCHANGED <<key, org, admins, keySessions>>
  BY DEF Enter, At, keyTables
<1>3. KeysTypes /\ Slots(q) /\ PlaceOfKind(c)
  BY DEF KeysInv
<1>4. active[q] \in Nat /\ Concurrent[q] \in Nat /\ waiters[q] \in Seq(Calls)
  BY <1>3 DEF KeysTypes, ApiKeysAssumption
<1>5. KeysGuardedBy(locks[c]) /\ KeyTablesHold'
  BY <1>2, KeyTablesSame
<1>6. \A d \in Calls : QueueOf(d)' = QueueOf(d)
  BY <1>2 DEF QueueOf
<1>7. ASSUME NEW where \in {"running", "waiting"}, Goes(c, where)
      PROVE  /\ Untouched(c) /\ txPc'[c] = where /\ todo'[c] = <<>> /\ Compatible'
             /\ txPc' \in [Calls -> KeyPlaces] /\ todo' \in [Calls -> Seq(KeyLock)] /\ locks' \in [Calls -> SUBSET KeyLock]
             /\ PlaceOfKind(c)' /\ KeyHeldBy(c)' /\ KeyFound(c)'
             /\ \A d \in Calls : QueueOf(d) # q => txPc'[d] = txPc[d]
  <2>1. /\ Untouched(c) /\ txPc'[c] = where /\ todo'[c] = <<>> /\ locks'[c] = locks[c]
        /\ txPc' \in [Calls -> KeyPlaces] /\ todo' \in [Calls -> Seq(KeyLock)] /\ locks' \in [Calls -> SUBSET KeyLock]
    BY <1>2, <1>3, <1>7 DEF Goes, KeysTypes, KeyPlaces, Untouched
  <2>2. Compatible'
    BY <2>1, CompatibleLess DEF KeysInv
  <2>3. PlaceOfKind(c)' /\ KeyHeldBy(c)' /\ KeyFound(c)'
    BY <1>2, <1>3, <2>1 DEF PlaceOfKind, KeyHeldBy, KeyFound, Waiting
  <2>4. \A d \in Calls : QueueOf(d) # q => txPc'[d] = txPc[d]
    BY <1>1, <2>1 DEF Untouched
  <2> QED
    BY <2>1, <2>2, <2>3, <2>4
<1>8. CASE active[q] < Concurrent[q] /\ active' = [active EXCEPT ![q] = @ + 1] /\ Goes(c, "running") /\ UNCHANGED waiters
  <2>1. active' \in [Queues -> Nat] /\ active'[q] = active[q] + 1 /\ \A p \in Queues \ {q} : active'[p] = active[p]
    BY <1>3, <1>8 DEF KeysTypes
  <2>2. Running(q)' = Running(q) \cup {c} /\ c \notin Running(q)
    BY <1>1, <1>2, <1>6, <1>7, <1>8 DEF Running, Untouched
  <2>3. IsFiniteSet(Running(q)') /\ Cardinality(Running(q)') = Cardinality(Running(q)) + 1
    BY <1>3, <2>2, FS_AddElement DEF Slots
  <2>4. waiters[q] = <<>> /\ waiters'[q] = <<>>
    BY <1>3, <1>4, <1>8 DEF Slots
  <2>5. Slots(q)'
    <3>1. active'[q] = Cardinality(Running(q)') /\ active'[q] <= Concurrent[q]
      BY <1>3, <1>4, <1>8, <2>1, <2>3 DEF Slots
    <3>2. \A i \in 1..Len(waiters'[q]) : FALSE
      BY <2>4
    <3> QED
      BY <2>3, <2>4, <3>1, <3>2 DEF Slots
  <2>6. \A p \in Queues : Slots(p)'
    <3>1. ASSUME NEW p \in Queues, p # q
          PROVE  Slots(p)'
      BY <1>2, <1>7, <1>8, <2>1, <3>1, OtherSlots
    <3> QED
      BY <2>5, <3>1
  <2>7. KeysTypes'
    BY <1>2, <1>3, <1>7, <1>8, <2>1 DEF KeysTypes
  <2> QED
    BY <1>2, <1>5, <1>7, <1>8, <2>6, <2>7, KeysCombine
<1>9. CASE active[q] >= Concurrent[q] /\ waiters' = [waiters EXCEPT ![q] = Append(@, c)] /\ Goes(c, "waiting") /\ UNCHANGED active
  <2>1. PICK w \in Seq(Calls) : w = waiters[q]
    BY <1>4
  <2>2. Append(w, c) \in Seq(Calls) /\ Len(Append(w, c)) = Len(w) + 1 /\ Append(w, c)[Len(w) + 1] = c /\ Len(w) \in Nat
        /\ \A i \in 1..Len(w) : Append(w, c)[i] = w[i]
    BY <2>1
  <2>3. PICK v \in Seq(Calls) : v = Append(w, c)
    BY <2>2
  <2>4. waiters' \in [Queues -> Seq(Calls)] /\ waiters'[q] = v /\ \A p \in Queues \ {q} : waiters'[p] = waiters[p]
    BY <1>3, <1>9, <2>1, <2>3 DEF KeysTypes
  <2>5. Running(q)' = Running(q)
    BY <1>2, <1>6, <1>7, <1>9 DEF Running, Untouched
  <2>6. Slots(q)'
    <3>1. \A i \in 1..Len(w) : w[i] \in Calls /\ w[i] # c /\ txPc'[w[i]] = "waiting" /\ QueueOf(w[i])' = q
      <4>1. \A i \in 1..Len(w) : w[i] \in Calls /\ txPc[w[i]] = "waiting" /\ QueueOf(w[i]) = q
        BY <1>3, <2>1 DEF Slots
      <4>2. txPc[c] # "waiting"
        BY <1>2
      <4>3. \A d \in Calls \ {c} : txPc'[d] = txPc[d]
        BY <1>7, <1>9 DEF Untouched
      <4>4. \A i \in 1..Len(w) : w[i] \in Calls \ {c}
        BY <4>1, <4>2
      <4> QED
        BY <1>6, <4>1, <4>3, <4>4
    <3>2. ASSUME NEW i \in 1..Len(v)
          PROVE  txPc'[v[i]] = "waiting" /\ QueueOf(v[i])' = q
      <4>1. CASE i = Len(w) + 1
        BY <1>1, <1>6, <1>7, <1>9, <2>2, <2>3, <4>1
      <4>2. CASE i # Len(w) + 1
        <5>1. i \in 1..Len(w)
          BY <2>2, <2>3, <4>2
        <5> QED
          BY <2>2, <2>3, <3>1, <5>1
      <4> QED
        BY <4>1, <4>2
    <3>3. ASSUME NEW i \in 1..Len(v), NEW j \in 1..Len(v), v[i] = v[j]
          PROVE  i = j
      <4>1. \A x \in 1..Len(v) : x \in 1..Len(w) \/ x = Len(w) + 1
        BY <2>2, <2>3
      <4>2. \A x, y \in 1..Len(w) : w[x] = w[y] => x = y
        BY <1>3, <2>1 DEF Slots
      <4> QED
        BY <2>2, <2>3, <3>1, <3>3, <4>1, <4>2
    <3>4. active'[q] = active[q] /\ active[q] = Concurrent[q]
      BY <1>3, <1>4, <1>9 DEF Slots
    <3> QED
      BY <1>3, <1>4, <2>4, <2>5, <3>2, <3>3, <3>4 DEF Slots
  <2>7. \A p \in Queues : Slots(p)'
    <3>1. ASSUME NEW p \in Queues, p # q
          PROVE  Slots(p)'
      BY <1>2, <1>7, <1>9, <2>4, <3>1, OtherSlots
    <3> QED
      BY <2>6, <3>1
  <2>8. KeysTypes'
    BY <1>2, <1>3, <1>7, <1>9, <2>4 DEF KeysTypes
  <2> QED
    BY <1>2, <1>5, <1>7, <1>9, <2>7, <2>8, KeysCombine
<1>10. CASE Goes(c, "busy") /\ UNCHANGED crypto
  <2>1. UNCHANGED keyTablesAndQueues /\ "busy" \in KeyPlaces
    BY <1>2, <1>10 DEF crypto, keyTablesAndQueues, KeyPlaces
  <2>2. /\ txPc'[c] = "busy" /\ todo'[c] = <<>>
        /\ PlaceOfKind(c)' /\ KeyHeldBy(c)' /\ KeyFound(c)' => KeysInv'
    BY <1>2, <1>10, <2>1, QuietGoes
  <2>3. PlaceOfKind(c)' /\ KeyHeldBy(c)' /\ KeyFound(c)'
    BY <2>2, EndedHolds DEF Ended
  <2> QED
    BY <2>2, <2>3
<1> QED
  BY <1>1, <1>8, <1>9, <1>10 DEF Enter

\* The slot passes to the first that waits, or becomes free.
LEMMA LeaveHolds ==
  ASSUME ApiKeysAssumption, KeysInv, NEW c \in Calls, At(c, "running"), UNCHANGED <<key, org, admins, keySessions, asked>>,
         NEW next \in {"isActive", "organization", "failed"}, LeaveCrypto(c, next),
         next = "isActive" => asked[c].kind = "session", next = "organization" => asked[c].kind # "session"
  PROVE  KeysInv'
<1>1. PICK q \in Queues : q = QueueOf(c)
  BY DEF QueueOf, Queues
<1>2. txPc[c] = "running" /\ todo[c] = <<>> /\ todo' = todo /\ locks' = locks
  BY DEF At, LeaveCrypto
<1>3. KeysTypes /\ Slots(q) /\ PlaceOfKind(c) /\ \A d \in Calls : PlaceOfKind(d) /\ KeyHeldBy(d) /\ KeyFound(d)
  BY DEF KeysInv
<1>4. active[q] \in Nat /\ Concurrent[q] \in Nat /\ waiters[q] \in Seq(Calls)
  BY <1>3 DEF KeysTypes, ApiKeysAssumption
<1>5. KeyTablesHold' /\ KeysGuardedBy(locks[c])
  BY KeyTablesSame
<1>6. \A d \in Calls : QueueOf(d)' = QueueOf(d)
  BY DEF QueueOf
<1>7. c \in Running(q) /\ IsFiniteSet(Running(q)) /\ active[q] = Cardinality(Running(q))
  BY <1>1, <1>2, <1>3 DEF Running, Slots
<1>8. IsFiniteSet(Running(q) \ {c}) /\ Cardinality(Running(q) \ {c}) = active[q] - 1 /\ Cardinality(Running(q) \ {c}) \in Nat
  BY <1>7, FS_RemoveElement, FS_CardinalityType
<1>9. Compatible'
  BY <1>2 DEF KeysInv, Compatible
<1>10. ASSUME NEW p \in Queues, p # q, active'[p] = active[p], waiters'[p] = waiters[p],
              \A d \in Calls : QueueOf(d) # q => txPc'[d] = txPc[d]
       PROVE  Slots(p)'
  BY <1>10, OtherSlots
<1>11. txPc'[c] = next => PlaceOfKind(c)' /\ KeyHeldBy(c)' /\ KeyFound(c)'
  BY <1>2, <1>3 DEF PlaceOfKind, KeyHeldBy, KeyFound, Waiting
<1>12. next \in KeyPlaces /\ "running" \in KeyPlaces /\ next \notin {"running", "waiting"}
  BY DEF KeyPlaces
<1>13. CASE waiters[q] = <<>>
  <2>1. txPc' = [txPc EXCEPT ![c] = next] /\ active' = [active EXCEPT ![q] = @ - 1] /\ waiters' = waiters
    BY <1>1, <1>13 DEF LeaveCrypto
  <2>2. /\ Untouched(c) /\ txPc'[c] = next /\ txPc' \in [Calls -> KeyPlaces]
        /\ active'[q] = active[q] - 1 /\ active' \in [Queues -> Nat] /\ \A p \in Queues \ {q} : active'[p] = active[p]
    BY <1>2, <1>3, <1>8, <1>12, <2>1 DEF KeysTypes, Untouched
  <2>3. Running(q)' = Running(q) \ {c}
    BY <1>6, <1>12, <2>2 DEF Running, Untouched
  <2>4. Slots(q)'
    <3>1. active'[q] = Cardinality(Running(q)') /\ active'[q] <= Concurrent[q] /\ IsFiniteSet(Running(q)')
      BY <1>3, <1>4, <1>8, <2>2, <2>3 DEF Slots
    <3>2. waiters'[q] = <<>> /\ \A i \in 1..Len(waiters'[q]) : FALSE
      BY <1>13, <2>1
    <3> QED
      BY <3>1, <3>2 DEF Slots
  <2>5. \A d \in Calls : QueueOf(d) # q => txPc'[d] = txPc[d]
    BY <1>1, <2>2 DEF Untouched
  <2>6. \A p \in Queues : Slots(p)'
    BY <1>10, <2>1, <2>2, <2>4, <2>5
  <2>7. KeysTypes'
    BY <1>2, <1>3, <2>1, <2>2 DEF KeysTypes
  <2> QED
    BY <1>5, <1>9, <1>11, <2>2, <2>6, <2>7, KeysCombine
<1>14. CASE waiters[q] # <<>>
  <2>1. PICK w \in Seq(Calls) : w = waiters[q]
    BY <1>4
  <2>2. w # <<>> /\ Len(w) \in Nat /\ Len(w) >= 1 /\ \A i \in 1..Len(w) : w[i] \in Calls
    BY <1>14, <2>1
  <2>3. Head(w) = w[1] /\ Head(w) \in Calls /\ Tail(w) \in Seq(Calls) /\ Len(Tail(w)) = Len(w) - 1
        /\ \A i \in 1..Len(Tail(w)) : Tail(w)[i] = w[i + 1]
    BY <2>2
  <2>4. PICK h \in Calls : h = Head(w)
    BY <2>3
  <2>5. PICK v \in Seq(Calls) : v = Tail(w)
    BY <2>3
  <2>6. 1 \in 1..Len(w) /\ \A i \in 1..Len(v) : i + 1 \in 1..Len(w) /\ v[i] = w[i + 1] /\ i + 1 # 1
    BY <2>2, <2>3, <2>5
  <2>7. \A i \in 1..Len(w) : txPc[w[i]] = "waiting" /\ QueueOf(w[i]) = q
    BY <1>3, <2>1 DEF Slots
  <2>8. txPc[h] = "waiting" /\ QueueOf(h) = q /\ h # c
    BY <1>2, <2>3, <2>4, <2>6, <2>7
  <2>9. txPc' = [txPc EXCEPT ![c] = next, ![h] = "running"] /\ active' = active /\ waiters' = [waiters EXCEPT ![q] = v]
    BY <1>1, <1>14, <2>1, <2>4, <2>5 DEF LeaveCrypto
  <2>10. /\ txPc'[c] = next /\ txPc'[h] = "running" /\ txPc' \in [Calls -> KeyPlaces]
         /\ \A d \in Calls \ {c, h} : txPc'[d] = txPc[d]
    BY <1>3, <1>12, <2>8, <2>9 DEF KeysTypes
  <2>11. waiters' \in [Queues -> Seq(Calls)] /\ waiters'[q] = v /\ \A p \in Queues \ {q} : waiters'[p] = waiters[p]
    BY <1>3, <2>9 DEF KeysTypes
  <2>12. Running(q)' = (Running(q) \ {c}) \cup {h} /\ h \notin Running(q) \ {c}
    BY <1>6, <1>12, <2>8, <2>10 DEF Running
  <2>13. IsFiniteSet(Running(q)') /\ Cardinality(Running(q)') = active[q]
    <3>1. IsFiniteSet(Running(q)') /\ Cardinality(Running(q)') = Cardinality(Running(q) \ {c}) + 1
      <4>1. PICK S : S = Running(q) \ {c}
        OBVIOUS
      <4>2. IsFiniteSet(S) /\ h \notin S /\ Running(q)' = S \cup {h}
        BY <1>8, <2>12, <4>1
      <4>3. IsFiniteSet(S \cup {h}) /\ Cardinality(S \cup {h}) = Cardinality(S) + 1
        BY <4>2, FS_AddElement
      <4> QED
        BY <4>1, <4>2, <4>3
    <3> QED
      BY <1>4, <1>8, <3>1
  <2>14. Slots(q)'
    <3>1. ASSUME NEW i \in 1..Len(v)
          PROVE  txPc'[v[i]] = "waiting" /\ QueueOf(v[i])' = q
      <4>1. v[i] \in Calls /\ txPc[v[i]] = "waiting" /\ QueueOf(v[i]) = q
        BY <2>2, <2>6, <2>7
      <4>2. v[i] # h
        <5>1. w[i + 1] = w[1] => i + 1 = 1
          BY <1>3, <2>1, <2>6 DEF Slots
        <5> QED
          BY <2>3, <2>4, <2>6, <5>1
      <4> QED
        BY <1>2, <1>6, <2>10, <4>1, <4>2
    <3>2. ASSUME NEW i \in 1..Len(v), NEW j \in 1..Len(v), v[i] = v[j]
          PROVE  i = j
      <4>1. w[i + 1] = w[j + 1] => i + 1 = j + 1
        BY <1>3, <2>1, <2>6 DEF Slots
      <4> QED
        BY <2>6, <3>2, <4>1
    <3>3. active'[q] = Concurrent[q] /\ active'[q] <= Concurrent[q]
      BY <1>3, <1>4, <1>14, <2>9 DEF Slots
    <3> QED
      BY <2>9, <2>11, <2>13, <3>1, <3>2, <3>3 DEF Slots
  <2>15. \A d \in Calls : QueueOf(d) # q => txPc'[d] = txPc[d]
    BY <1>1, <2>8, <2>10
  <2>16. \A p \in Queues : Slots(p)'
    BY <1>10, <2>9, <2>11, <2>14, <2>15
  <2>17. KeysTypes'
    BY <1>2, <1>3, <2>9, <2>10, <2>11 DEF KeysTypes
  <2>18. ASSUME NEW d \in Calls
         PROVE  PlaceOfKind(d)' /\ KeyHeldBy(d)' /\ KeyFound(d)'
    <3>1. CASE d = c
      BY <1>11, <2>10, <3>1
    <3>2. CASE d = h
      <4>1. todo'[h] = <<>>
        BY <1>2, <1>3, <2>8 DEF KeyHeldBy, Waiting
      <4>2. asked[h].kind \in {"create", "rotate", "session"}
        BY <1>3, <2>8 DEF PlaceOfKind
      <4> QED
        BY <2>10, <3>2, <4>1, <4>2 DEF PlaceOfKind, KeyHeldBy, KeyFound, Waiting
    <3>3. CASE d \notin {c, h}
      <4>1. txPc'[d] = txPc[d] /\ todo'[d] = todo[d] /\ locks'[d] = locks[d] /\ ToTake(d)' = ToTake(d)
        BY <1>2, <2>10, <3>3 DEF ToTake
      <4>2. PlaceOfKind(d)' /\ KeyHeldBy(d)'
        BY <1>3, <4>1 DEF PlaceOfKind, KeyHeldBy
      <4>3. KeyFound(d)'
        BY <1>3, <4>1 DEF KeyFound, Unrevoked, Rows
      <4> QED
        BY <4>2, <4>3
    <3> QED
      BY <3>1, <3>2, <3>3
  <2> QED
    BY <1>5, <1>9, <2>16, <2>17, <2>18 DEF KeysInv, KeyTablesHold
<1> QED
  BY <1>13, <1>14

\* An operation answers or throws.
LEMMA RunEndsHolds ==
  ASSUME ApiKeysAssumption, KeysInv, NEW c \in Calls, RunEnds(c)
  PROVE  KeysInv'
<1>1. At(c, "running") /\ UNCHANGED <<key, org, admins, keySessions, asked>>
  BY DEF RunEnds, keyTables
<1>2. PICK next \in {"isActive", "organization", "failed"} :
        /\ LeaveCrypto(c, next)
        /\ next = "isActive" => asked[c].kind = "session"
        /\ next = "organization" => asked[c].kind # "session"
  BY DEF RunEnds
<1> QED
  BY <1>1, <1>2, LeaveHolds

\* Time, demotions and the organization's standing, between the requests.
LEMMA SurroundingsHold ==
  ASSUME ApiKeysAssumption, KeysInv, Expires \/ Demoted \/ OrganizationTurns
  PROVE  KeysInv'
<1>1. UNCHANGED <<key, asked, active, waiters, txPc, todo, locks>>
  BY DEF Expires, Demoted, OrganizationTurns, Turn, crypto, txVars
<1>2. Rows' = Rows /\ Unrevoked' = Unrevoked
  BY <1>1 DEF Rows, Unrevoked
<1>3. \A d \in Calls : ToTake(d)' = ToTake(d) /\ QueueOf(d)' = QueueOf(d)
  BY <1>1 DEF ToTake, QueueOf
<1>4. org' \in BOOLEAN /\ keySessions' \subseteq Keys
  BY DEF Expires, Demoted, OrganizationTurns, KeysInv, KeysTypes
<1>5. KeysTypes'
  BY <1>1, <1>4 DEF KeysInv, KeysTypes
<1>6. Compatible'
  BY <1>1 DEF KeysInv, Compatible
<1>7. OneHeirPerKey' /\ RootsAreRows' /\ IsFiniteSet(Unrevoked)' /\ KeysWithinQuota'
  BY <1>1, <1>2 DEF KeysInv, OneHeirPerKey, RootsAreRows, KeysWithinQuota
<1>8. GrantsFollowKeys'
  BY <1>1 DEF Expires, Demoted, OrganizationTurns, KeysInv, GrantsFollowKeys
<1>9. \A q \in Queues : Slots(q)'
  <2>1. ASSUME NEW q \in Queues
        PROVE  Slots(q)'
    <3>1. Running(q)' = Running(q)
      BY <1>1, <1>3 DEF Running
    <3>2. PICK w \in Seq(Calls) : w = waiters[q] /\ w = waiters'[q]
      BY <1>1 DEF KeysInv, KeysTypes
    <3>3. \A i \in 1..Len(w) : w[i] \in Calls
      BY <3>2
    <3> QED
      BY <1>1, <1>3, <3>1, <3>2, <3>3 DEF KeysInv, Slots
  <2> QED
    BY <2>1
<1>10. ASSUME NEW d \in Calls
       PROVE  PlaceOfKind(d)' /\ KeyHeldBy(d)' /\ KeyFound(d)'
  <2>1. PlaceOfKind(d) /\ KeyHeldBy(d) /\ KeyFound(d)
    BY DEF KeysInv
  <2>2. PlaceOfKind(d)' /\ KeyHeldBy(d)'
    BY <1>1, <1>3, <2>1 DEF PlaceOfKind, KeyHeldBy
  <2>3. ASSUME txPc[d] \in {"write", "commit"}
        PROVE  org' = org /\ (asked[d].user \in admins => asked[d].user \in admins')
    <3>1. \A row \in AdministratorRows(asked[d].user) : ~Unheld(row)
      <4>1. \A row \in AdministratorRows(asked[d].user) : Share(row) \in locks[d]
        BY <2>1, <2>3 DEF KeyHeldBy
      <4> QED
        BY <4>1 DEF Unheld, Share
    <3>2. ~Unheld(Organization) /\ ~Unheld(MemberRow("org", asked[d].user))
      BY <3>1 DEF AdministratorRows
    <3> QED
      BY <3>2 DEF Expires, Demoted, OrganizationTurns
  <2>4. ASSUME txPc[d] = "grant"
        PROVE  org' = org
    <3>1. ToTake(d) = {}
      BY <2>1, <2>4 DEF KeyHeldBy, ToTake, Waiting
    <3>2. Share(Organization) \in locks[d]
      BY <2>1, <2>4, <3>1 DEF KeyHeldBy
    <3>3. ~Unheld(Organization)
      BY <3>2 DEF Unheld, Share
    <3> QED
      BY <3>3 DEF Expires, Demoted, OrganizationTurns
  <2>5. KeyFound(d)'
    BY <1>1, <1>2, <2>1, <2>3, <2>4 DEF KeyFound
  <2> QED
    BY <2>2, <2>5
<1> QED
  BY <1>5, <1>6, <1>7, <1>8, <1>9, <1>10 DEF KeysInv

\* Nothing is held or queued at first.
LEMMA KeysStart ==
  ASSUME ApiKeysAssumption, KeysInit
  PROVE  KeysInv
<1>1. KeysTypes
  BY DEF KeysInit, LocksInit, KeysTypes, KeyPlaces
<1>2. Rows = Issued /\ Unrevoked = Issued /\ \A k \in Keys : key[k].root = k
  BY DEF KeysInit, Rows, Unrevoked, ApiKeysAssumption
<1>3. OneHeirPerKey /\ RootsAreRows /\ GrantsFollowKeys /\ IsFiniteSet(Unrevoked) /\ KeysWithinQuota
  BY <1>2 DEF KeysInit, OneHeirPerKey, RootsAreRows, GrantsFollowKeys, KeysWithinQuota, ApiKeysAssumption
<1>4. Compatible
  BY DEF KeysInit, LocksInit, Compatible
<1>5. ASSUME NEW c \in Calls
      PROVE  PlaceOfKind(c) /\ KeyHeldBy(c) /\ KeyFound(c)
  BY DEF KeysInit, LocksInit, PlaceOfKind, KeyHeldBy, KeyFound, Waiting
<1>6. ASSUME NEW q \in Queues
      PROVE  Slots(q)
  <2>1. Running(q) = {}
    BY DEF KeysInit, LocksInit, Running
  <2>2. waiters[q] = <<>> /\ active[q] = 0 /\ Concurrent[q] \in Nat
    BY DEF KeysInit, ApiKeysAssumption
  <2> QED
    BY <2>1, <2>2, FS_EmptySet DEF Slots
<1> QED
  BY <1>1, <1>3, <1>4, <1>5, <1>6 DEF KeysInv

\* Nothing changes.
LEMMA KeysQuiet ==
  ASSUME KeysInv, UNCHANGED keysVars
  PROVE  KeysInv'
<1>1. UNCHANGED <<key, org, admins, keySessions, asked, active, waiters, txPc, todo, locks>>
  BY DEF keysVars, keyState, keyTables, crypto, txVars
<1>2. KeysTypes' /\ Compatible'
  BY <1>1 DEF KeysInv, KeysTypes, Compatible
<1>3. ASSUME NEW d \in Calls
      PROVE  PlaceOfKind(d)' /\ KeyHeldBy(d)' /\ KeyFound(d)'
  <2>1. PlaceOfKind(d) /\ KeyHeldBy(d) /\ KeyFound(d) /\ ToTake(d)' = ToTake(d) /\ Unrevoked' = Unrevoked
    BY <1>1 DEF KeysInv, ToTake, Unrevoked, Rows
  <2>2. PlaceOfKind(d)' /\ KeyHeldBy(d)'
    BY <1>1, <2>1 DEF PlaceOfKind, KeyHeldBy
  <2>3. KeyFound(d)'
    BY <1>1, <2>1 DEF KeyFound
  <2> QED
    BY <2>2, <2>3
<1>4. KeyTablesHold'
  BY <1>1, KeyTablesSame
<1>5. ASSUME NEW q \in Queues
      PROVE  Slots(q)'
  <2>1. Running(q)' = Running(q)
    BY <1>1 DEF Running, QueueOf
  <2> QED
    BY <1>1, <2>1 DEF KeysInv, Slots, QueueOf
<1> QED
  BY <1>2, <1>3, <1>4, <1>5 DEF KeysInv, KeyTablesHold

\* Every step keeps the invariant.
LEMMA KeysSteps ==
  ASSUME ApiKeysAssumption, KeysInv, [KeysNext]_keysVars
  PROVE  KeysInv'
<1>1. ASSUME NEW c \in Calls, KeyStep(c)
      PROVE  KeysInv'
  <2>1. CASE postKey(c) \/ postDisabled(c) \/ postRotate(c) \/ deleteKey(c)
    BY <2>1, AdministratorHolds
  <2>2. CASE findByPrefix(c) \/ authenticate(c)
    BY <2>2, PrefixHolds
  <2>3. CASE Enter(c)
    BY <2>3, EnterHolds
  <2>4. CASE RunEnds(c)
    BY <2>4, RunEndsHolds
  <2>5. CASE LockOrganization(c) \/ activeApiKey(c)
    BY <2>5, BeginsLocking
  <2>6. CASE lockApiKeyAdministrator(c)
    BY <2>6, LockAdministrator
  <2>7. CASE TakeLock(c) /\ UNCHANGED <<keyTables, asked, seen, verified, tries, crypto, turns>>
    <3>1. UNCHANGED keyTablesAndQueues
      BY <2>7 DEF keyTablesAndQueues, keyTables, crypto
    <3> QED
      BY <2>7, <3>1, KeyWaitHolds
  <2>8. CASE insert(c)
    BY <2>8, InsertHolds
  <2>9. CASE create(c)
    BY <2>9, CreateHolds
  <2>10. CASE setDisabled(c) \/ revokeKey(c)
    BY <2>10, DisableHolds
  <2>11. CASE rotateNothing(c)
    BY <2>11, EndsHold
  <2>12. CASE rotate(c)
    BY <2>12, RotateHolds
  <2>13. CASE issuerHeld(c)
    BY <2>13, IssuerHolds
  <2>14. CASE insertKeyGrant(c)
    BY <2>14, GrantInsertHolds
  <2> QED
    BY <1>1, <2>1, <2>2, <2>3, <2>4, <2>5, <2>6, <2>7, <2>8, <2>9, <2>10, <2>11, <2>12, <2>13, <2>14 DEF KeyStep
<1>2. ASSUME NEW c \in Calls, Collides(c) \/ KeyAborts(c)
      PROVE  KeysInv'
  BY <1>2, EndsHold
<1> QED
  BY <1>1, <1>2, SurroundingsHold, KeysQuiet DEF KeysNext

\* The invariant is what keys promise.
LEMMA KeysInvSafe ==
  ASSUME KeysInv
  PROVE  KeysSafe
<1>1. CryptoSlotsHeld
  BY DEF KeysInv, Slots, Running, CryptoSlotsHeld
<1> QED
  BY <1>1 DEF KeysInv, KeysSafe

\* Of the keys that descend from one by rotation at most one is valid, no session outlives
\* its key, the quota holds although creations count and insert concurrently, and a slot of
\* hasher or verifier is held by exactly those who run, for any number of requests, keys,
\* administrators, slots and waiters (auth/api-key.ts, http/auth.ts).
THEOREM KeysAreSafe ==
  ASSUME ApiKeysAssumption
  PROVE  KeysSpec => []KeysSafe
<1>1. KeysInit => KeysInv
  BY KeysStart
<1>2. KeysInv /\ [KeysNext]_keysVars => KeysInv'
  BY KeysSteps
<1>3. KeysInv => KeysSafe
  BY KeysInvSafe
<1> QED
  BY <1>1, <1>2, <1>3, PTL DEF KeysSpec

\* Whoever mints, enables, disables or revokes a key is an administrator of an enabled
\* organization in the state in which the change commits (lockApiKeyAdministrator).
THEOREM AdministratorsActAsAdministrators ==
  ASSUME ApiKeysAssumption
  PROVE  KeysSpec => [][AdministratorWhenItHappens]_keysVars
<1>1. KeysInit => KeysInv
  BY KeysStart
<1>2. KeysInv /\ [KeysNext]_keysVars => KeysInv'
  BY KeysSteps
<1>3. KeysInv => AdministratorWhenItHappens
  BY DEF KeysInv, KeyFound, AdministratorWhenItHappens
<1> QED
  BY <1>1, <1>2, <1>3, PTL DEF KeysSpec
=============================================================================
