----------------------------- MODULE CliSession -----------------------------
(***************************************************************************)
(* The bc command line's side of device login (packages/cli/src/index.ts   *)
(* and device-auth.ts) against the control plane of DeviceAuth: processes  *)
(* of one user share the operating system's credential store and           *)
(* serialise on the account's lock, taken here as the mutex that           *)
(* CredentialLock implements while no process is suspended.                *)
(*                                                                         *)
(* A request is answered, or its answer is lost: the server has then       *)
(* executed it, never will, or will later.  A process may die anywhere.    *)
(* The configured account exists and is bound to one API origin, so every  *)
(* process uses the same store entry: a first login, and the one after a   *)
(* logout, which unsets the account, draw a new entry and a new lock, so   *)
(* two of them at once do not see each other and are left out here.        *)
(***************************************************************************)
EXTENDS DeviceAuth

CONSTANTS
  Procs,     \* CLI processes
  NoProc,    \* nobody holds the lock
  NoSession, \* nothing stored
  MaxFaults  \* bound on lost answers and dead processes

CliAssumption ==
  /\ AuthAssumption
  /\ NoProc \notin Procs /\ NoSession \notin [code : Codes, gen : Generations]

VARIABLES
  pc,     \* where each process is
  held,   \* the session a process holds in memory
  stored, \* the session in the credential store: a code and a generation
  lock,   \* owner of .credential-<account>.lock
  late,   \* refresh and revoke requests the server has yet to execute
  faults

cliVars == <<pc, held, stored, lock, late, faults>>
sessionVars == <<authVars, cliVars>>

Sessions == [code : Codes, gen : Generations]
Requests == [op : {"refresh", "revoke"}, session : Sessions]

NoProcesses ==
  /\ pc = [p \in Procs |-> "idle"] /\ held = [p \in Procs |-> NoSession]
  /\ stored = NoSession /\ lock = NoProc /\ late = {} /\ faults = 0
CliInit == AuthInit /\ NoProcesses

Go(p, to) == pc' = [pc EXCEPT ![p] = to]
Finish(p) ==
  /\ Go(p, "idle")
  /\ held' = [held EXCEPT ![p] = NoSession]
  /\ lock' = IF lock = p THEN NoProc ELSE lock

Acquire(p) == lock = NoProc /\ lock' = p

Token(c, g) == [code |-> c, gen |-> g]

-----------------------------------------------------------------------------
(* bc login: the code and its token come before the lock. *)

LoginBegin(p) ==
  /\ pc[p] = "idle"
  /\ \E c \in Codes :
       /\ issue(c, {"machines:write"})
       /\ held' = [held EXCEPT ![p] = Token(c, 0)]
  /\ Go(p, "polling")
  /\ UNCHANGED <<stored, lock, late, faults>>

\* pollDeviceToken: a token, or another answer than authorization_pending and
\* slow_down ends the login.
LoginPoll(p) ==
  /\ pc[p] = "polling"
  /\ \/ /\ exchange(held[p].code) /\ Go(p, "exchanged") /\ UNCHANGED <<held, lock>>
     \/ /\ exchangeInvalidated(held[p].code) /\ Finish(p)
     \/ /\ status[held[p].code] \in {"denied", "gone"} \/ codeExpired[held[p].code]
        /\ Finish(p) /\ UNCHANGED authVars
  /\ UNCHANGED <<stored, late, faults>>

LoginLock(p) ==
  /\ pc[p] = "exchanged"
  /\ Acquire(p)
  /\ Go(p, IF stored # NoSession THEN "replacing" ELSE "saving")
  /\ UNCHANGED <<authVars, held, stored, late, faults>>

\* What the server does with a revoke, whatever the token is worth: 204.
Revoked(s) ==
  \/ revoke(s.code, s.gen)
  \/ ~(Usable(s.code) /\ KnownToken(s.code, s.gen)) /\ UNCHANGED authVars

\* The lock stays with another process for too long: the new token is revoked,
\* and the store is left alone.
LoginLockFails(p) ==
  /\ pc[p] = "exchanged" /\ lock # NoProc
  /\ Revoked(held[p])
  /\ Finish(p)
  /\ UNCHANGED <<stored, late, faults>>

\* The previous login is revoked before the new one is saved.
LoginReplace(p) ==
  /\ pc[p] = "replacing"
  /\ Revoked(stored)
  /\ Go(p, "saving")
  /\ UNCHANGED <<held, stored, lock, late, faults>>

\* store.set and writeConfig, or one of them fails after the store may have
\* kept the secret.
Save(p) ==
  /\ pc[p] = "saving"
  /\ \/ /\ stored' = held[p] /\ Finish(p)
     \/ /\ stored' \in {stored, held[p]} /\ Go(p, "undo") /\ UNCHANGED <<held, lock>>
  /\ UNCHANGED <<authVars, late, faults>>

\* The rollback: revoke the new token, and delete the entry if this login may
\* have written it.
Undo(p) ==
  /\ pc[p] \in {"undo", "abort"}
  /\ Revoked(held[p])
  /\ stored' = IF pc[p] = "undo" THEN NoSession ELSE stored
  /\ Finish(p)
  /\ UNCHANGED <<late, faults>>

-----------------------------------------------------------------------------
(* Any other command: authenticatedClientOptions. *)

\* Mutant: commands read and rotate without the lock.
UseUnlocked(p) ==
  /\ pc[p] = "idle" /\ stored # NoSession
  /\ held' = [held EXCEPT ![p] = stored]
  /\ Go(p, IF access[stored.code][stored.gen] = "live" /\ ~rested[stored.code]
            THEN "using" ELSE "refreshing")
  /\ UNCHANGED <<authVars, stored, lock, late, faults>>

\* A login past refreshExpiresAt is deleted.
UseExpired(p) ==
  /\ pc[p] = "idle" /\ stored # NoSession /\ lock = NoProc
  /\ famExpired[stored.code]
  /\ stored' = NoSession
  /\ UNCHANGED <<authVars, pc, held, lock, late, faults>>

\* A cached access token that is not about to expire is used as it is.
UseBegin(p) ==
  /\ pc[p] = "idle" /\ stored # NoSession /\ ~famExpired[stored.code]
  /\ Acquire(p)
  /\ held' = [held EXCEPT ![p] = stored]
  /\ Go(p, IF access[stored.code][stored.gen] = "live" /\ ~rested[stored.code]
            THEN "using" ELSE "refreshing")
  /\ UNCHANGED <<authVars, stored, late, faults>>

UseDone(p) ==
  /\ pc[p] = "using" /\ Finish(p)
  /\ UNCHANGED <<authVars, stored, late, faults>>

\* What the server does with a refresh that it refuses.
Refused(s) ==
  \/ refreshReuse(s.code, s.gen) \/ refreshInvalidated(s.code, s.gen)
  \/ ~Usable(s.code) /\ UNCHANGED authVars

UseRefreshed(p) ==
  LET s == held[p] IN
  /\ pc[p] = "refreshing"
  /\ refresh(s.code, s.gen)
  /\ held' = [held EXCEPT ![p].gen = s.gen + 1]
  /\ Go(p, "rotated")
  /\ UNCHANGED <<stored, lock, late, faults>>

\* invalid_grant and refresh_reuse_detected delete the entry.
UseRefused(p) ==
  /\ pc[p] = "refreshing"
  /\ Refused(held[p])
  /\ stored' = NoSession
  /\ Finish(p)
  /\ UNCHANGED <<late, faults>>

\* expired_token and slow_down leave it.
UseTurnedAway(p) ==
  LET s == held[p] IN
  /\ pc[p] = "refreshing"
  /\ \/ refreshExhausted(s.code, s.gen)
     \/ /\ Usable(s.code) /\ s.gen \notin used[s.code] /\ ~rested[s.code]
        /\ UNCHANGED authVars
  /\ Finish(p)
  /\ UNCHANGED <<stored, late, faults>>

UseSave(p) ==
  /\ pc[p] = "rotated"
  /\ \/ stored' = held[p] /\ Finish(p)
     \/ stored' \in {stored, held[p]} /\ Go(p, "abort") /\ UNCHANGED <<held, lock>>
  /\ UNCHANGED <<authVars, late, faults>>

-----------------------------------------------------------------------------
(* bc logout: revoke first, then delete. *)

LogoutBegin(p) ==
  /\ pc[p] = "idle" /\ stored # NoSession
  /\ Acquire(p)
  /\ held' = [held EXCEPT ![p] = stored]
  /\ Go(p, "leaving")
  /\ UNCHANGED <<authVars, stored, late, faults>>

LogoutRevoke(p) ==
  /\ pc[p] = "leaving"
  /\ Revoked(held[p])
  /\ Go(p, "forgetting")
  /\ UNCHANGED <<held, stored, lock, late, faults>>

LogoutDelete(p) ==
  /\ pc[p] = "forgetting"
  /\ stored' = NoSession
  /\ Go(p, "out")
  /\ UNCHANGED <<authVars, held, lock, late, faults>>

LogoutDone(p) ==
  /\ pc[p] = "out" /\ Finish(p)
  /\ UNCHANGED <<authVars, stored, late, faults>>

-----------------------------------------------------------------------------
(* Faults. *)

Pending(p) ==
  CASE pc[p] = "refreshing" -> {[op |-> "refresh", session |-> held[p]]}
    [] pc[p] = "replacing" -> {[op |-> "revoke", session |-> stored]}
    [] \/ pc[p] \in {"leaving", "undo", "abort"}
       \/ pc[p] = "exchanged" /\ lock # NoProc -> {[op |-> "revoke", session |-> held[p]]}
    [] OTHER -> {}

\* post times out, or the process dies: the request may still be executed.
\* After a failed revoke of the previous login the new one is undone.
Interrupted(p) ==
  /\ faults < MaxFaults /\ faults' = faults + 1
  /\ pc[p] # "idle"
  /\ late' \in {late, late \cup Pending(p)}
  /\ \/ pc[p] = "replacing" /\ Go(p, "abort") /\ UNCHANGED <<held, lock>>
     \/ Finish(p)
  /\ UNCHANGED <<authVars, stored>>

ExecutedLate(r) ==
  /\ r \in late
  /\ late' = late \ {r}
  /\ IF r.op = "revoke"
     THEN Revoked(r.session)
     ELSE \/ refresh(r.session.code, r.session.gen)
          \/ refreshExhausted(r.session.code, r.session.gen)
          \/ Refused(r.session)
  /\ UNCHANGED <<pc, held, stored, lock, faults>>

Environment ==
  /\ \E c \in Codes : \/ \E u \in Users : approve(c, u, {"machines:write"}) \/ deny(c, u)
                      \/ CodeExpires(c) \/ FamilyExpires(c) \/ TokenRests(c)
                      \/ \E g \in Generations : AccessExpires(c, g)
  /\ UNCHANGED cliVars

CliNext ==
  \/ \E p \in Procs :
       \/ LoginBegin(p) \/ LoginPoll(p) \/ LoginLock(p) \/ LoginLockFails(p) \/ LoginReplace(p)
       \/ Save(p) \/ Undo(p)
       \/ UseExpired(p) \/ UseBegin(p) \/ UseDone(p)
       \/ UseRefreshed(p) \/ UseRefused(p) \/ UseTurnedAway(p) \/ UseSave(p)
       \/ LogoutBegin(p) \/ LogoutRevoke(p) \/ LogoutDelete(p) \/ LogoutDone(p)
       \/ Interrupted(p)
  \/ \E r \in Requests : ExecutedLate(r)
  \/ Environment

CliSpec == CliInit /\ [][CliNext]_sessionVars

-----------------------------------------------------------------------------
(* Properties. *)

\* Parallel commands never make the server believe that a refresh token was
\* stolen: as long as no answer is lost and no process dies, reuse detection
\* does not fire, although every process reads and replaces the same token
\* (withCredentialLock around authenticatedClientOptions).
NoFalseAlarm == faults = 0 => \A c \in Codes : family[c] # "reused"

\* No login is left behind: without faults every usable family is in the
\* credential store or in the hands of a process, also after failed saves,
\* replaced logins and logouts.
NoLoginLeftBehind ==
  faults = 0 => \A c \in Codes : Usable(c) =>
    \/ stored # NoSession /\ stored.code = c
    \/ \E p \in Procs : held[p] # NoSession /\ held[p].code = c

\* "bc logout revokes the remote login before removing it locally"
\* (packages/cli/README.md:55): when the entry is deleted by a logout, the
\* login is over on the server, also if the stored token had been rotated by a
\* request whose answer was lost, and no late request brings it back.
LogoutIsFinal ==
  \A p \in Procs : pc[p] = "out" => family[held[p].code] # "live" \/ famExpired[held[p].code]

\* Everything above for a login that the command line uses: the server's side, and
\* what the processes that share the credential store make of it
\* (withCredentialLock, authenticatedClientOptions, bc login and bc logout).
LoginsSafe == AuthSafe /\ NoFalseAlarm /\ NoLoginLeftBehind /\ LogoutIsFinal
=============================================================================
