------------------------------ MODULE Volumes ------------------------------
(***************************************************************************)
(* One durable volume: VolumeService and PostgresVolumeRepository          *)
(* (domain/volumes.ts), the S3 broker that stores its revisions            *)
(* (providers/storage/s3-volumes.ts) and VolumeDeletionWorker              *)
(* (jobs/schedule-volume-deletions.ts).  A request inspects the store,     *)
(* reserves, mints and marks in separate steps; time is counted in ticks.  *)
(***************************************************************************)
EXTENDS Naturals, Functions

CONSTANTS
  Requests,      \* requests in flight
  Reservations,  \* write reservations, each the name of one revision
  DeleteWorkers, \* processes running VolumeDeletionWorker
  Limit,         \* size_limit_bytes, in units
  VolumeTtl, GrantTtl, Settlement, Retention, ClaimTtl,  \* in ticks
  VolHorizon,       \* bound: the clock stops here
  CommitLag,     \* how long the provider may take to commit an aborted upload
  Lag,           \* bound on the age of an inspection or a time stamp when it is used
  Replays,       \* whether POST /v1/volumes is retried
  Removes,       \* whether the tenant deletes the volume
  MaxVolFaults,     \* bound on crashes of requests and workers and on store failures
  Unset

VolumesAssumption ==
  /\ {Limit, VolumeTtl, GrantTtl, Settlement, Retention, ClaimTtl, VolHorizon, CommitLag, Lag,
      MaxVolFaults} \subseteq Nat
  \* Seven days against fifteen minutes and what a request or an upload takes.
  /\ Lag + GrantTtl + CommitLag <= Retention

VARIABLES
  clock,
  vol,      \* row of volumes
  res,      \* rows of volume_write_grant_reservations
  req,      \* requests in flight
  caps,     \* PUT capabilities the tenant received
  uploads,  \* PUTs the broker is streaming, by reservation
  stored,   \* size of each revision in the object store
  kept,     \* revisions whose upload was confirmed
  job,      \* row of volume_deletion_jobs
  deletion,   \* what each deletion worker is doing
  volFaults

volVars == <<clock, vol, res, req, caps, uploads, stored, kept, job, deletion, volFaults>>

Least(a, b) == IF a < b THEN a ELSE b
Most(a, b) == IF a > b THEN a ELSE b
Added(f) == FoldFunction(LAMBDA a, b : a + b, 0, f)
Size == Added(stored)

IdleReq == [pc |-> "idle", key |-> FALSE, obs |-> 0, at |-> 0, res |-> Unset, exp |-> 0]

VolInit ==
  /\ clock = 0 /\ volFaults = 0 /\ caps = {} /\ kept = {}
  /\ vol = [state |-> "none", expires |-> 0, deletedAt |-> 0]
  /\ res = [r \in Reservations |-> [state |-> "none", key |-> FALSE, obs |-> 0, max |-> 0, expires |-> 0]]
  /\ req = [q \in Requests |-> IdleReq]
  /\ uploads = [r \in Reservations |-> [size |-> 0, exp |-> 0]]
  /\ stored = [r \in Reservations |-> 0]
  /\ job = [state |-> "none", deleteAfter |-> 0, next |-> 0, claim |-> Unset, until |-> 0]
  /\ deletion = [w \in DeleteWorkers |-> "idle"]

Live(t) == vol.state = "live" /\ vol.expires > t
VolFault == volFaults < MaxVolFaults /\ volFaults' = volFaults + 1
RequestEnds(q) == req' = [req EXCEPT ![q] = IdleReq]

-----------------------------------------------------------------------------
(* POST /v1/volumes and POST /v1/volumes/:id/grants *)

\* admitCreate: the first request inserts the row, at the origin of time; a retry
\* finds it.
admitCreate(q) ==
  /\ req[q].pc = "idle"
  /\ IF vol.state = "none"
     THEN clock = 0 /\ vol' = [vol EXCEPT !.state = "live", !.expires = clock + VolumeTtl]
     ELSE Replays /\ UNCHANGED vol
  /\ req' = [req EXCEPT ![q] = [IdleReq EXCEPT !.pc = "inspect", !.key = TRUE]]
  /\ UNCHANGED <<clock, res, caps, uploads, stored, kept, job, deletion, volFaults>>

grantVolume(q) ==
  /\ req[q].pc = "idle" /\ Live(clock)
  /\ req' = [req EXCEPT ![q] = [IdleReq EXCEPT !.pc = "inspect"]]
  /\ UNCHANGED <<clock, vol, res, caps, uploads, stored, kept, job, deletion, volFaults>>

\* inspect adds up the revisions it lists; more than the limit is an error.
inspect(q) ==
  /\ req[q].pc = "inspect"
  /\ IF Size > Limit THEN RequestEnds(q)
     ELSE req' = [req EXCEPT ![q] = [@ EXCEPT !.pc = "reserve", !.obs = Size, !.at = clock]]
  /\ UNCHANGED <<clock, vol, res, caps, uploads, stored, kept, job, deletion, volFaults>>

\* What the reservation r may still add to an observed size.
MayAdd(r, obs, t) ==
  IF res[r].state = "none" \/ res[r].expires <= t THEN 0
  ELSE LET grown == IF obs > res[r].obs THEN obs - res[r].obs ELSE 0
       IN IF res[r].max > grown THEN res[r].max - grown ELSE 0

Reserved(obs) == Added([r \in Reservations |-> MayAdd(r, obs, clock)])
Replayed(q) == {r \in Reservations : req[q].key /\ res[r].state # "none" /\ res[r].key /\ res[r].expires > clock}
CapExpiry == Least(vol.expires, clock + GrantTtl)
Issuing(q, r) == req' = [req EXCEPT ![q] = [@ EXCEPT !.pc = "issue", !.res = r, !.exp = CapExpiry]]

InsertsReservation(q, r) ==
  /\ res[r].state = "none"
  /\ res' = [res EXCEPT ![r] = [state |-> "open", key |-> req[q].key, obs |-> req[q].obs,
                                max |-> Limit - req[q].obs - Reserved(req[q].obs),
                                expires |-> CapExpiry + Settlement]]
  /\ Issuing(q, r)

\* The transaction that decides how much the new capability may add.
reserveWriteGrant(q) ==
  /\ req[q].pc = "reserve" /\ clock - req[q].at <= Lag
  /\ IF ~Live(clock) THEN RequestEnds(q) /\ UNCHANGED res
     ELSE IF Replayed(q) # {} THEN (\E r \in Replayed(q) : Issuing(q, r)) /\ UNCHANGED res
     ELSE IF req[q].obs + Reserved(req[q].obs) >= Limit THEN RequestEnds(q) /\ UNCHANGED res
     ELSE \E r \in Reservations : InsertsReservation(q, r)
  /\ UNCHANGED <<clock, vol, caps, uploads, stored, kept, job, deletion, volFaults>>

\* issueGrant refuses a capability that would outlive its reservation.
issueGrant(q) ==
  /\ req[q].pc = "issue"
  /\ IF req[q].exp > res[req[q].res].expires \/ req[q].exp <= clock THEN RequestEnds(q)
     ELSE req' = [req EXCEPT ![q].pc = "mark"]
  /\ UNCHANGED <<clock, vol, res, caps, uploads, stored, kept, job, deletion, volFaults>>

\* markWriteGrantIssued, after which the capability is handed out.
markWriteGrantIssued(q) ==
  /\ req[q].pc = "mark"
  /\ caps' = IF Live(clock) /\ res[req[q].res].expires > clock
             THEN caps \cup {[res |-> req[q].res, exp |-> req[q].exp]} ELSE caps
  /\ RequestEnds(q)
  /\ UNCHANGED <<clock, vol, res, uploads, stored, kept, job, deletion, volFaults>>

\* The request's process dies, or a call fails.
Abandon(q) ==
  /\ req[q].pc # "idle" /\ VolFault /\ RequestEnds(q)
  /\ UNCHANGED <<clock, vol, res, caps, uploads, stored, kept, job, deletion>>

-----------------------------------------------------------------------------
(* The broker: #handlePut *)

Streaming(r) == uploads[r].size > 0

Authorized(c) == c \in caps /\ clock < c.exp

handlePut(c, size) ==
  /\ Authorized(c) /\ ~Streaming(c.res) /\ stored[c.res] = 0
  /\ size \in 1..res[c.res].max
  /\ uploads' = [uploads EXCEPT ![c.res] = [size |-> size, exp |-> c.exp]]
  /\ UNCHANGED <<clock, vol, res, req, caps, stored, kept, job, deletion, volFaults>>

\* The provider commits the object.  An upload that is aborted at the expiry of
\* its capability may still be committed a little later.
PutCommits(r) ==
  /\ Streaming(r) /\ stored[r] = 0 /\ clock < uploads[r].exp + CommitLag
  /\ stored' = [stored EXCEPT ![r] = uploads[r].size]
  /\ UNCHANGED <<clock, vol, res, req, caps, uploads, kept, job, deletion, volFaults>>

\* The upload is confirmed in time, aborted, or removed again.
PutEnds(r) ==
  /\ Streaming(r)
  /\ \/ stored[r] > 0 /\ clock < uploads[r].exp /\ kept' = kept \cup {r} /\ UNCHANGED stored
     \/ stored[r] > 0 /\ clock >= uploads[r].exp /\ UNCHANGED kept
        /\ stored' \in {stored, [stored EXCEPT ![r] = 0]}
     \/ stored[r] = 0 /\ clock >= uploads[r].exp + CommitLag /\ UNCHANGED <<stored, kept>>
  /\ uploads' = [uploads EXCEPT ![r].size = 0]
  /\ UNCHANGED <<clock, vol, res, req, caps, job, deletion, volFaults>>

-----------------------------------------------------------------------------
(* DELETE /v1/volumes/:id and the deletion worker *)

removeVolume(q) ==
  /\ Removes /\ req[q].pc = "idle" /\ vol.state # "none" /\ clock + Retention <= VolHorizon
  /\ req' = [req EXCEPT ![q] = [IdleReq EXCEPT !.pc = "enqueue", !.at = clock]]
  /\ UNCHANGED <<clock, vol, res, caps, uploads, stored, kept, job, deletion, volFaults>>

Queued(at) ==
  [state |-> "pending", deleteAfter |-> at + Retention, next |-> at, claim |-> Unset, until |-> 0]

enqueueDeletion(q) ==
  /\ req[q].pc = "enqueue" /\ clock - req[q].at <= Lag
  /\ vol' = IF vol.state = "live" THEN [vol EXCEPT !.state = "deleted", !.deletedAt = req[q].at] ELSE vol
  /\ job' = IF job.state = "none" THEN Queued(vol'.deletedAt) ELSE job
  /\ req' = [req EXCEPT ![q].pc = "defer"]
  /\ UNCHANGED <<clock, res, caps, uploads, stored, kept, deletion, volFaults>>

Deferred(next) == [job EXCEPT !.next = Least(Most(@, next), VolHorizon), !.claim = Unset]

\* remove puts the job off until its retention is over, whoever claims it.
deferUnclaimed(q) ==
  /\ req[q].pc = "defer"
  /\ job' = IF job.state = "pending" THEN Deferred(job.deleteAfter) ELSE job
  /\ RequestEnds(q)
  /\ UNCHANGED <<clock, vol, res, caps, uploads, stored, kept, deletion, volFaults>>

enqueueExpiredDeletions ==
  /\ vol.state = "live" /\ vol.expires <= clock
  /\ vol' = [vol EXCEPT !.state = "deleted", !.deletedAt = vol.expires]
  /\ job' = Queued(vol.expires)
  /\ UNCHANGED <<clock, res, req, caps, uploads, stored, kept, deletion, volFaults>>

\* Mutant: a claim is for ever.
claimDeletionJobsOnce(w) ==
  /\ deletion[w] = "idle" /\ job.state = "pending" /\ job.next <= clock /\ job.claim = Unset
  /\ job' = [job EXCEPT !.claim = w, !.until = Least(clock + ClaimTtl, VolHorizon)]
  /\ deletion' = [deletion EXCEPT ![w] = "deliver"]
  /\ UNCHANGED <<clock, vol, res, req, caps, uploads, stored, kept, volFaults>>

claimDeletionJobs(w) ==
  /\ deletion[w] = "idle" /\ job.state = "pending" /\ job.next <= clock
  /\ job.claim = Unset \/ job.until <= clock
  /\ job' = [job EXCEPT !.claim = w, !.until = Least(clock + ClaimTtl, VolHorizon)]
  /\ deletion' = [deletion EXCEPT ![w] = "deliver"]
  /\ UNCHANGED <<clock, vol, res, req, caps, uploads, stored, kept, volFaults>>

deferClaimed(w, next) == job' = IF job.state = "pending" /\ job.claim = w THEN Deferred(next) ELSE job

\* Mutant: a claimed job is due.
deliverAtOnce(w) ==
  /\ deletion[w] = "deliver"
  /\ deletion' = [deletion EXCEPT ![w] = "delete"]
  /\ UNCHANGED <<clock, vol, res, req, caps, uploads, stored, kept, job, volFaults>>

\* #deliver: before the boundary the job is put off.
deliver(w) ==
  /\ deletion[w] = "deliver"
  /\ IF job.deleteAfter > clock
     THEN deferClaimed(w, job.deleteAfter) /\ deletion' = [deletion EXCEPT ![w] = "idle"]
     ELSE deletion' = [deletion EXCEPT ![w] = "delete"] /\ UNCHANGED job
  /\ UNCHANGED <<clock, vol, res, req, caps, uploads, stored, kept, volFaults>>

\* scheduleDeletion removes every version; a failing call leaves some of them.
scheduleDeletion(w, gone) ==
  /\ deletion[w] = "delete"
  /\ stored' = [r \in Reservations |-> IF r \in gone THEN 0 ELSE stored[r]]
  /\ deletion' = [deletion EXCEPT ![w] = IF gone = Reservations THEN "finish" ELSE "retry"]
  /\ IF gone = Reservations THEN UNCHANGED volFaults ELSE VolFault
  /\ UNCHANGED <<clock, vol, res, req, caps, uploads, kept, job>>

markDeletionScheduled(w) ==
  /\ deletion[w] = "finish"
  /\ job' = [job EXCEPT !.state = "scheduled", !.claim = Unset]
  /\ deletion' = [deletion EXCEPT ![w] = "idle"]
  /\ UNCHANGED <<clock, vol, res, req, caps, uploads, stored, kept, volFaults>>

deferDeletion(w) ==
  /\ deletion[w] = "retry"
  /\ deferClaimed(w, clock + 1)
  /\ deletion' = [deletion EXCEPT ![w] = "idle"]
  /\ UNCHANGED <<clock, vol, res, req, caps, uploads, stored, kept, volFaults>>

WorkerDies(w) ==
  /\ deletion[w] # "idle" /\ VolFault /\ deletion' = [deletion EXCEPT ![w] = "idle"]
  /\ UNCHANGED <<clock, vol, res, req, caps, uploads, stored, kept, job>>

ClockTicks ==
  /\ clock < VolHorizon /\ clock' = clock + 1
  /\ UNCHANGED <<vol, res, req, caps, uploads, stored, kept, job, deletion, volFaults>>

-----------------------------------------------------------------------------

Works(w) ==
  \/ claimDeletionJobs(w) \/ deliver(w) \/ scheduleDeletion(w, Reservations)
  \/ markDeletionScheduled(w) \/ deferDeletion(w)

\* The routes of /v1/volumes, and what VolumeService does for them.
Requested(q) == admitCreate(q) \/ grantVolume(q) \/ removeVolume(q)
Issues(q) == inspect(q) \/ reserveWriteGrant(q) \/ issueGrant(q) \/ markWriteGrantIssued(q)
handleRequest == \E c \in caps, size \in 1..Limit : handlePut(c, size)

VolNext ==
  \/ \E q \in Requests :
       Requested(q) \/ Issues(q) \/ Abandon(q) \/ enqueueDeletion(q) \/ deferUnclaimed(q)
  \/ handleRequest
  \/ \E r \in Reservations : PutCommits(r) \/ PutEnds(r)
  \/ enqueueExpiredDeletions
  \/ \E w \in DeleteWorkers : Works(w) \/ WorkerDies(w)
  \/ \E w \in DeleteWorkers, gone \in SUBSET Reservations : gone # Reservations /\ scheduleDeletion(w, gone)
  \/ ClockTicks

VolSpec == VolInit /\ [][VolNext]_volVars

-----------------------------------------------------------------------------
(* Properties. *)

\* Whether the volume's allocation counts against the quotas (admitCreate).
Allocated ==
  /\ vol.state # "none"
  /\ \/ (IF vol.state = "deleted" THEN vol.deletedAt ELSE vol.expires) + Retention > clock
     \/ job.state # "scheduled"

\* The revisions of a volume never exceed its allocation, whatever reservations,
\* uploads and their confirmations do (reserveWriteGrant, #handlePut), as long as a
\* reservation outlives its capability by what an inspection is old when it is used and
\* what an aborted upload takes to commit.  The code bounds neither: the size it adds
\* to was observed before the transaction (volumes.ts:396).
StoredWithinLimit == Lag + CommitLag <= Settlement => Size <= Limit

\* An allocation that no longer counts has left nothing in the store, and no
\* capability or upload that is still about can bring something back.
FreedIsEmpty ==
  vol.state # "none" /\ ~Allocated =>
    /\ \A r \in Reservations :
         stored[r] = 0 /\ (Streaming(r) => uploads[r].exp + CommitLag <= clock)
    /\ \A c \in caps : c.exp <= clock

\* Nothing is swept before its time: a worker past the boundary works for a deleted
\* volume whose retention is over, and a job is done only when the store is empty.
SweptInTime ==
  /\ \A w \in DeleteWorkers : deletion[w] \in {"delete", "finish"} =>
       vol.state = "deleted" /\ clock >= vol.deletedAt + Retention
  /\ job.state = "scheduled" => \A r \in Reservations : stored[r] = 0

\* An allocation is given back only when it is empty, and emptied only when its
\* retention is over (VolumeDeletionWorker, admitCreate).
VolumesSafe == FreedIsEmpty /\ SweptInTime

\* A confirmed revision goes only after the retention of a deleted volume.
RetentionHeld ==
  \A r \in kept : stored[r] > 0 /\ stored'[r] = 0 =>
    vol.state = "deleted" /\ clock >= vol.deletedAt + Retention

\* After the deletion no revision appears later than the capabilities that were
\* out at that moment allow; Lag is for the stamp a deletion was requested with.
NoLateRevision ==
  \A r \in Reservations : stored[r] = 0 /\ stored'[r] > 0 /\ vol.state = "deleted" =>
    clock < vol.deletedAt + Lag + GrantTtl + CommitLag
=============================================================================
