----------------------------- MODULE ForkProofs -----------------------------
(***************************************************************************)
(* A fork batch is booked once and a confirmed cleanup left nothing on the *)
(* host that the daemon did not itself keep, for any number of children,   *)
(* requests and faults; a visible batch is whole until the tenant deletes  *)
(* one of its children.                                                    *)
(***************************************************************************)
EXTENDS Fork, TLAPS, FiniteSetTheorems

OpRow ==
  [state : {"none", "pending", "succeeded", "failed"}, cleanup : BOOLEAN,
   claim : Parties \cup {Nobody}, by : {"none", "cleanup", "rejected"}]
WorkRecord ==
  [pc : {"idle", "claim", "call", "calling", "answered", "finish", "reclaim", "release", "fail",
         "commit", "destroy", "complete"},
   cleanup : BOOLEAN, token : BOOLEAN,
   answer : {"none", "cleaned", "invalid", "ambiguous", "rejected", "warming", "ready"},
   seen : SUBSET Children, complete : BOOLEAN]
HostRecord ==
  [res : {"none", "booting", "succeeded", "failed"}, vms : SUBSET Children, kept : SUBSET Children,
   source : BOOLEAN, up : BOOLEAN]

Types ==
  /\ forkOp \in OpRow
  /\ kids \in [Children -> {"none", "starting", "running", "failed", "stopped", "lost"}]
  /\ hostReserved \in Nat
  /\ work \in [Parties -> WorkRecord]
  /\ daemon \in HostRecord

\* The children's rows follow the operation.
KidsFollow ==
  \A c \in Children :
    /\ forkOp.state = "none" => kids[c] = "none"
    /\ forkOp.state = "pending" => kids[c] = "starting"
    /\ forkOp.state = "succeeded" => kids[c] \in {"running", "stopped", "lost"}
    /\ forkOp.state = "failed" => kids[c] = "failed"

\* What a worker knows is still true: a cleanup it works for was requested, an answer
\* that said the batch is gone is final, and what it has not deleted of a complete
\* batch contains every virtual machine that is left.
Good(k, o, h) ==
  /\ k.cleanup \/ k.token \/ k.pc \in {"destroy", "complete"} => o.cleanup
  /\ k.pc \in {"answered", "finish", "reclaim", "destroy", "complete"} => k.answer # "none"
  /\ k.pc = "complete" => k.answer = "cleaned" \/ (k.complete /\ k.seen = {})
  /\ k.answer = "cleaned" => h.res = "failed"
  /\ k.answer \notin {"none", "cleaned"} /\ k.complete
       => h.res \in {"succeeded", "failed"} /\ h.vms \subseteq k.seen
  /\ k.pc = "commit" => k.answer = "ready"
  /\ k.answer = "ready" /\ ~o.cleanup /\ o.state \notin {"succeeded", "failed"} => h.res = "succeeded"
AllGood == \A w \in Parties : Good(work[w], forkOp, daemon)

\* Nothing but what the daemon kept is left of a batch that is not up, nor of one that
\* was cleaned.
NothingLeft ==
  /\ daemon.res # "succeeded" => daemon.vms \subseteq daemon.kept
  /\ forkOp.state = "failed" /\ forkOp.by = "cleanup"
       => daemon.vms \subseteq daemon.kept /\ daemon.res \in {"succeeded", "failed"}

\* A requested cleanup is never overtaken by success.
CleanupIsFinal == forkOp.cleanup => forkOp.state \in {"pending", "failed"}

\* A batch is whole until its cleanup is requested or one of its children is deleted.
NoneStopped == \A c \in Children : kids[c] # "stopped"
Whole ==
  NoneStopped =>
    /\ daemon.res = "succeeded" /\ ~forkOp.cleanup => daemon.vms = Children
    /\ forkOp.state = "succeeded" => daemon.res = "succeeded"

Inv ==
  /\ Types /\ KidsFollow /\ BookedOnce /\ AllGood /\ NothingLeft /\ CleanupIsFinal /\ Whole

-----------------------------------------------------------------------------

LEMMA InitInv == ForkAssumption /\ ForkInit => Inv
<1> SUFFICES ASSUME ForkAssumption, ForkInit PROVE Inv
  OBVIOUS
<1>1. Types
  BY DEF ForkAssumption, ForkInit, Types, OpRow, WorkRecord, HostRecord, NoWork
<1>2. KidsFollow /\ AllGood /\ NothingLeft /\ CleanupIsFinal /\ Whole
  BY DEF ForkInit, KidsFollow, AllGood, Good, NothingLeft, CleanupIsFinal, Whole, NoWork
<1>3. BookedOnce
  <2>1. Booked = {}
    BY DEF ForkInit, Booked
  <2>2. Cardinality(Booked) = 0
    BY <2>1, FS_EmptySet
  <2> QED
    BY <2>2 DEF ForkAssumption, ForkInit, BookedOnce
<1> QED
  BY <1>1, <1>2, <1>3 DEF Inv

LEMMA IdleGood == NoWork \in WorkRecord /\ \A o, h : Good(NoWork, o, h)
BY DEF NoWork, WorkRecord, Good

LEMMA EndsWork ==
  ASSUME Types, NEW w \in Parties, Ends(w)
  PROVE  /\ work' \in [Parties -> WorkRecord]
         /\ \A v \in Parties : work'[v] = work[v] \/ Good(work'[v], forkOp', daemon')
BY IdleGood DEF Types, Ends

\* A worker moves to the record k.
LEMMA BecomesWork ==
  ASSUME Types, NEW w \in Parties, NEW k \in WorkRecord, work' = [work EXCEPT ![w] = k],
         Good(k, forkOp', daemon')
  PROVE  /\ work' \in [Parties -> WorkRecord]
         /\ \A v \in Parties : work'[v] = work[v] \/ Good(work'[v], forkOp', daemon')
BY DEF Types

\* How the daemon's state moves outside the tenant's own deletions.
HostMoves ==
  \/ daemon'.res = daemon.res /\ daemon'.vms = daemon.vms /\ daemon'.kept = daemon.kept
  \/ daemon.res = "none" /\ daemon'.res = "booting" /\ daemon'.vms = daemon.vms /\ daemon'.kept = daemon.kept
  \/ daemon.res = "booting" /\ daemon'.res = "succeeded" /\ daemon'.vms = Children
  \/ /\ daemon'.res = "failed" /\ daemon'.vms \subseteq daemon'.kept
     /\ \/ daemon.res = "booting"
        \/ daemon.res = "failed" /\ daemon'.vms \subseteq daemon.vms
        \/ daemon.res = "succeeded" /\ daemon.vms # Children /\ daemon'.vms \subseteq daemon.vms
  \/ /\ forkOp.cleanup /\ daemon'.res = daemon.res /\ daemon'.vms \subseteq daemon.vms
     /\ daemon'.kept = daemon.kept

\* Steps that leave the children's rows, their reservation and the state of the
\* operation alone.
LEMMA QuietStep ==
  ASSUME Inv, UNCHANGED <<kids, hostReserved>>,
         forkOp' \in OpRow, forkOp'.state = forkOp.state, forkOp'.by = forkOp.by,
         forkOp.cleanup => forkOp'.cleanup, forkOp'.cleanup => forkOp.cleanup \/ forkOp.state = "pending",
         daemon' \in HostRecord, HostMoves,
         work' \in [Parties -> WorkRecord],
         \A w \in Parties : work'[w] = work[w] \/ Good(work'[w], forkOp', daemon')
  PROVE  Inv'
<1>1. Types' /\ KidsFollow' /\ BookedOnce'
  BY DEF Inv, Types, KidsFollow, BookedOnce, Booked
<1>2. NothingLeft'
  BY DEF Inv, NothingLeft, HostMoves, CleanupIsFinal, Types, HostRecord
<1>3. CleanupIsFinal'
  BY DEF Inv, CleanupIsFinal
<1>4. Whole'
  BY DEF Inv, Whole, NoneStopped, HostMoves, CleanupIsFinal
<1>5. AllGood'
  <2> SUFFICES ASSUME NEW w \in Parties, work'[w] = work[w] PROVE Good(work[w], forkOp', daemon')
    BY DEF AllGood
  <2>1. Good(work[w], forkOp, daemon) /\ work[w] \in WorkRecord /\ daemon \in HostRecord
    BY DEF Inv, AllGood, Types
  <2>2. \/ daemon'.res = daemon.res /\ daemon'.vms \subseteq daemon.vms
        \/ daemon.res \in {"none", "booting"}
        \/ /\ daemon.res \in {"failed", "succeeded"} /\ daemon'.res = "failed"
           /\ daemon'.vms \subseteq daemon.vms
    BY <2>1 DEF HostMoves, HostRecord
  <2>3. forkOp.state \notin {"succeeded", "failed"} /\ ~forkOp'.cleanup /\ daemon.res = "succeeded"
          => daemon'.res = "succeeded"
    <3> SUFFICES ASSUME forkOp.state \notin {"succeeded", "failed"}, ~forkOp'.cleanup, daemon.res = "succeeded"
                 PROVE  daemon'.res = "succeeded"
      OBVIOUS
    <3>1. NoneStopped
      BY DEF Inv, Types, OpRow, KidsFollow, NoneStopped
    <3> QED
      BY <3>1 DEF Inv, Whole, HostMoves
  <2> QED
    BY <2>1, <2>2, <2>3 DEF Good, WorkRecord, HostRecord
<1> QED
  BY <1>1, <1>2, <1>3, <1>4, <1>5 DEF Inv

\* Steps of one worker that read and do not write the tables and the daemon.
LEMMA OnlyWork ==
  ASSUME Inv, UNCHANGED <<forkOp, kids, hostReserved, daemon>>,
         work' \in [Parties -> WorkRecord],
         \A w \in Parties : work'[w] = work[w] \/ Good(work'[w], forkOp', daemon')
  PROVE  Inv'
BY QuietStep DEF Inv, Types, HostMoves

-----------------------------------------------------------------------------
(* Steps of the workers. *)

LEMMA LoadedWork ==
  ASSUME Inv, NEW w \in Parties, Loaded(w), forkOp'.cleanup = forkOp.cleanup
  PROVE  /\ work' \in [Parties -> WorkRecord]
         /\ \A v \in Parties : work'[v] = work[v] \/ Good(work'[v], forkOp', daemon')
<1> DEFINE k == [NoWork EXCEPT !.pc = IF forkOp.cleanup THEN "claim" ELSE "call", !.cleanup = forkOp.cleanup]
<1>1. k \in WorkRecord /\ Good(k, forkOp', daemon')
  BY DEF NoWork, WorkRecord, Good, Inv, Types, OpRow
<1> QED
  BY <1>1, BecomesWork DEF Loaded, Inv

LEMMA BeginInv ==
  ASSUME ForkAssumption, Inv, NEW w \in Parties, beginFork(w)
  PROVE  Inv'
<1>1. CASE forkOp.state # "none"
  BY <1>1, LoadedWork, OnlyWork DEF beginFork
<1>2. CASE forkOp.state = "none"
  <2>1. /\ forkOp' = [forkOp EXCEPT !.state = "pending"] /\ kids' = [c \in Children |-> "starting"]
        /\ hostReserved' = hostReserved + Cardinality(Children) /\ daemon' = daemon /\ Loaded(w)
    BY <1>2 DEF beginFork
  <2>2. forkOp' \in OpRow /\ forkOp'.state = "pending" /\ forkOp'.cleanup = forkOp.cleanup /\ forkOp'.by = forkOp.by
    BY <2>1 DEF Inv, Types, OpRow
  <2>3. /\ work' \in [Parties -> WorkRecord]
        /\ \A v \in Parties : work'[v] = work[v] \/ Good(work'[v], forkOp', daemon')
    BY <2>1, <2>2, LoadedWork
  <2>4. Cardinality(Children) \in Nat
    BY FS_CardinalityType DEF ForkAssumption
  <2>5. Types' /\ KidsFollow'
    BY <2>1, <2>2, <2>3, <2>4 DEF Inv, Types, KidsFollow
  <2>6. BookedOnce'
    <3>1. Booked = {} /\ Booked' = Children
      BY <1>2, <2>1 DEF Inv, KidsFollow, Booked
    <3>2. hostReserved = Others
      BY <3>1, FS_EmptySet DEF Inv, BookedOnce, ForkAssumption
    <3> QED
      BY <2>1, <3>1, <3>2 DEF BookedOnce
  <2>7. AllGood'
    BY <1>2, <2>1, <2>2, <2>3 DEF Inv, AllGood, Good
  <2>8. NothingLeft' /\ CleanupIsFinal' /\ Whole'
    BY <1>2, <2>1, <2>2 DEF Inv, KidsFollow, NothingLeft, CleanupIsFinal, Whole, NoneStopped
  <2> QED
    BY <2>5, <2>6, <2>7, <2>8 DEF Inv
<1> QED
  BY <1>1, <1>2

\* The batch is released: nothing of it is booked any more.
LEMMA ReleasedBooks ==
  ASSUME ForkAssumption, Inv, forkOp.state = "pending", Released
  PROVE  /\ \A c \in Children : kids'[c] = "failed"
         /\ kids' \in [Children -> {"none", "starting", "running", "failed", "stopped", "lost"}]
         /\ hostReserved' \in Nat /\ BookedOnce'
<1>1. \A c \in Children : kids'[c] = "failed"
  BY DEF Released, Inv, KidsFollow
<1>2. Booked = Children /\ Booked' = {}
  BY <1>1 DEF Inv, KidsFollow, Booked
<1>3. Cardinality(Children) \in Nat /\ Cardinality(Booked') = 0
  BY <1>2, FS_CardinalityType, FS_EmptySet DEF ForkAssumption
<1>4. hostReserved = Others + Cardinality(Children)
  BY <1>2 DEF Inv, BookedOnce
<1>5. hostReserved' = Others
  BY <1>3, <1>4 DEF Released, ForkAssumption
<1>6. BookedOnce' /\ hostReserved' \in Nat
  BY <1>3, <1>5 DEF BookedOnce, ForkAssumption
<1> QED
  BY <1>1, <1>6 DEF Released

\* The operation ends as failed, by a worker that found it pending.
LEMMA FailsInv ==
  ASSUME ForkAssumption, Inv, NEW w \in Parties, NEW by \in {"cleanup", "rejected"},
         forkOp.state = "pending", Released, Ends(w), daemon' = daemon,
         forkOp' = [forkOp EXCEPT !.state = "failed", !.by = by, !.claim = Nobody],
         by = "cleanup" => daemon.vms \subseteq daemon.kept /\ daemon.res \in {"succeeded", "failed"}
  PROVE  Inv'
<1>1. forkOp' \in OpRow /\ forkOp'.state = "failed" /\ forkOp'.by = by /\ forkOp'.cleanup = forkOp.cleanup
  BY DEF Inv, Types, OpRow
<1>2. /\ work' \in [Parties -> WorkRecord]
      /\ \A v \in Parties : work'[v] = work[v] \/ Good(work'[v], forkOp', daemon')
  BY EndsWork DEF Inv
<1>3. Types' /\ KidsFollow' /\ BookedOnce'
  BY <1>1, <1>2, ReleasedBooks DEF Inv, Types, KidsFollow
<1>4. AllGood'
  BY <1>1, <1>2 DEF Inv, AllGood, Good
<1>5. NothingLeft' /\ CleanupIsFinal' /\ Whole'
  BY <1>1 DEF Inv, KidsFollow, NothingLeft, CleanupIsFinal, Whole, NoneStopped
<1> QED
  BY <1>3, <1>4, <1>5 DEF Inv

LEMMA CleanupEndsInv ==
  ASSUME ForkAssumption, Inv, NEW w \in Parties, completeForkCleanup(w)
  PROVE  Inv'
<1>1. CASE ~(forkOp.state = "pending" /\ forkOp.claim = w)
  BY <1>1, EndsWork, OnlyWork DEF completeForkCleanup, Inv
<1>2. CASE forkOp.state = "pending" /\ forkOp.claim = w
  <2>1. daemon.vms \subseteq daemon.kept /\ daemon.res \in {"succeeded", "failed"}
    BY DEF completeForkCleanup, Inv, AllGood, Good, NothingLeft
  <2> QED
    BY <1>2, <2>1, FailsInv DEF completeForkCleanup
<1> QED
  BY <1>1, <1>2

LEMMA FailForkInv ==
  ASSUME ForkAssumption, Inv, NEW w \in Parties, failFork(w)
  PROVE  Inv'
<1>1. CASE ~(forkOp.state = "pending" /\ ~forkOp.cleanup)
  BY <1>1, EndsWork, OnlyWork DEF failFork, Inv
<1>2. CASE forkOp.state = "pending" /\ ~forkOp.cleanup
  BY <1>2, FailsInv DEF failFork
<1> QED
  BY <1>1, <1>2

LEMMA CommitInv ==
  ASSUME Inv, NEW w \in Parties, completeFork(w)
  PROVE  Inv'
<1>1. CASE ~(forkOp.state = "pending" /\ ~forkOp.cleanup)
  BY <1>1, EndsWork, OnlyWork DEF completeFork, Inv
<1>2. CASE forkOp.state = "pending" /\ ~forkOp.cleanup
  <2>1. /\ forkOp' = [forkOp EXCEPT !.state = "succeeded"] /\ kids' = [c \in Children |-> "running"]
        /\ UNCHANGED <<hostReserved, daemon>> /\ Ends(w)
    BY <1>2 DEF completeFork
  <2>2. forkOp' \in OpRow /\ forkOp'.state = "succeeded" /\ forkOp'.cleanup = forkOp.cleanup
    BY <2>1 DEF Inv, Types, OpRow
  <2>3. /\ work' \in [Parties -> WorkRecord]
        /\ \A v \in Parties : work'[v] = work[v] \/ Good(work'[v], forkOp', daemon')
    BY <2>1, EndsWork DEF Inv
  <2>4. Booked = Children /\ Booked' = Children
    BY <1>2, <2>1 DEF Inv, KidsFollow, Booked
  <2>5. Types' /\ KidsFollow' /\ BookedOnce'
    BY <2>1, <2>2, <2>3, <2>4 DEF Inv, Types, KidsFollow, BookedOnce
  <2>6. AllGood'
    BY <2>1, <2>2, <2>3 DEF Inv, AllGood, Good
  <2>7. daemon.res = "succeeded"
    BY <1>2 DEF completeFork, Inv, AllGood, Good
  <2>8. NothingLeft' /\ CleanupIsFinal' /\ Whole'
    BY <1>2, <2>1, <2>2, <2>7 DEF Inv, KidsFollow, NothingLeft, CleanupIsFinal, Whole, NoneStopped
  <2> QED
    BY <2>5, <2>6, <2>8 DEF Inv
<1> QED
  BY <1>1, <1>2

\* The worker keeps what it knows and goes on at pc.
LEMMA GoesWork ==
  ASSUME Inv, NEW w \in Parties, NEW pc, Goes(w, pc),
         [work[w] EXCEPT !.pc = pc] \in WorkRecord,
         Good([work[w] EXCEPT !.pc = pc], forkOp', daemon')
  PROVE  /\ work' \in [Parties -> WorkRecord]
         /\ \A v \in Parties : work'[v] = work[v] \/ Good(work'[v], forkOp', daemon')
<1>1. work' = [work EXCEPT ![w] = [work[w] EXCEPT !.pc = pc]]
  BY DEF Goes, Inv, Types
<1> QED
  BY <1>1, BecomesWork DEF Inv

\* A cleanup is requested and claimed by the first who asks.
LEMMA ClaimedOp ==
  ASSUME Inv, NEW w \in Parties, forkOp.state = "pending", CleanupClaimed(w)
  PROVE  forkOp' \in OpRow /\ forkOp'.state = forkOp.state /\ forkOp'.by = forkOp.by /\ forkOp'.cleanup
BY DEF Inv, Types, OpRow, CleanupClaimed

LEMMA ClaimFirstInv ==
  ASSUME Inv, NEW w \in Parties, ClaimFirst(w)
  PROVE  Inv'
<1>1. CASE forkOp.state # "pending"
  BY <1>1, EndsWork, OnlyWork DEF ClaimFirst, Inv
<1>2. CASE forkOp.state = "pending"
  <2>1. /\ CleanupClaimed(w) /\ UNCHANGED <<kids, hostReserved, daemon>>
        /\ \/ Ends(w)
           \/ work' = [work EXCEPT ![w] = [work[w] EXCEPT !.pc = "call", !.cleanup = TRUE,
                                                          !.token = Claims(w)]]
    BY <1>2 DEF ClaimFirst
  <2>2. forkOp' \in OpRow /\ forkOp'.state = forkOp.state /\ forkOp'.by = forkOp.by /\ forkOp'.cleanup
    BY <1>2, <2>1, ClaimedOp
  <2> DEFINE k == [work[w] EXCEPT !.pc = "call", !.cleanup = TRUE, !.token = Claims(w)]
  <2>3. k \in WorkRecord
    BY DEF Inv, Types, WorkRecord, Claims
  <2>4. Good(k, forkOp', daemon')
    BY <2>1, <2>2 DEF Inv, Types, WorkRecord, AllGood, Good
  <2>5. /\ work' \in [Parties -> WorkRecord]
        /\ \A v \in Parties : work'[v] = work[v] \/ Good(work'[v], forkOp', daemon')
    BY <2>1, <2>3, <2>4, EndsWork, BecomesWork DEF Inv
  <2> QED
    BY <1>2, <2>1, <2>2, <2>5, QuietStep DEF Inv, Types, HostMoves
<1> QED
  BY <1>1, <1>2

LEMMA FinishInv ==
  ASSUME Inv, NEW w \in Parties, finishForkCleanup(w)
  PROVE  Inv'
<1> DEFINE next == AfterClaim(work[w])
<1>0. /\ work[w] \in WorkRecord /\ work[w].pc = "finish" /\ Good(work[w], forkOp, daemon)
      /\ UNCHANGED <<kids, hostReserved, daemon>> /\ next \in {"complete", "destroy"}
      /\ next = "complete" => work[w].answer = "cleaned"
  BY DEF finishForkCleanup, AfterClaim, Inv, Types, AllGood
<1> HIDE DEF next
<1>1. CASE work[w].cleanup /\ work[w].token
  <2>1. Goes(w, next) /\ forkOp' = forkOp
    BY <1>1 DEF finishForkCleanup, next
  <2>2. [work[w] EXCEPT !.pc = next] \in WorkRecord
    BY <1>0 DEF WorkRecord
  <2>3. Good([work[w] EXCEPT !.pc = next], forkOp', daemon')
    BY <1>0, <1>1, <2>1 DEF Good, WorkRecord
  <2> QED
    BY <1>0, <2>1, <2>2, <2>3, GoesWork, OnlyWork
<1>2. CASE ~(work[w].cleanup /\ work[w].token) /\ forkOp.state # "pending"
  BY <1>0, <1>2, EndsWork, OnlyWork DEF finishForkCleanup, Inv
<1>3. CASE ~(work[w].cleanup /\ work[w].token) /\ forkOp.state = "pending"
  <2> DEFINE k == [work[w] EXCEPT !.pc = next, !.cleanup = TRUE, !.token = TRUE]
  <2>1. CleanupClaimed(w) /\ (Ends(w) \/ work' = [work EXCEPT ![w] = k])
    BY <1>3 DEF finishForkCleanup, next
  <2>2. forkOp' \in OpRow /\ forkOp'.state = forkOp.state /\ forkOp'.by = forkOp.by /\ forkOp'.cleanup
    BY <1>3, <2>1, ClaimedOp
  <2>3. k \in WorkRecord
    BY <1>0 DEF WorkRecord
  <2>4. Good(k, forkOp', daemon')
    BY <1>0, <2>2 DEF WorkRecord, Good
  <2>5. /\ work' \in [Parties -> WorkRecord]
        /\ \A v \in Parties : work'[v] = work[v] \/ Good(work'[v], forkOp', daemon')
    BY <2>1, <2>3, <2>4, EndsWork, BecomesWork DEF Inv
  <2> QED
    BY <1>0, <1>3, <2>2, <2>5, QuietStep DEF Inv, Types, HostMoves
<1> QED
  BY <1>1, <1>2, <1>3

LEMMA ReleaseClaimInv ==
  ASSUME Inv, NEW w \in Parties, releaseForkCleanupClaim(w)
  PROVE  Inv'
<1>1. forkOp' \in OpRow /\ forkOp'.state = forkOp.state /\ forkOp'.by = forkOp.by /\ forkOp'.cleanup = forkOp.cleanup
  BY DEF releaseForkCleanupClaim, Inv, Types, OpRow
<1> DEFINE k == [work[w] EXCEPT !.pc = "finish", !.token = FALSE]
<1>2. work[w].pc = "reclaim" => k \in WorkRecord /\ Good(k, forkOp', daemon')
  <2>1. work[w] \in WorkRecord /\ Good(work[w], forkOp, daemon) /\ daemon' = daemon
    BY DEF releaseForkCleanupClaim, Inv, Types, AllGood
  <2>2. k \in WorkRecord
    BY <2>1 DEF WorkRecord
  <2>3. work[w].pc = "reclaim" => Good(k, forkOp', daemon')
    BY <1>1, <2>1 DEF WorkRecord, Good
  <2> QED
    BY <2>2, <2>3
<1>3. Ends(w) \/ (work[w].pc = "reclaim" /\ work' = [work EXCEPT ![w] = k])
  BY DEF releaseForkCleanupClaim
<1> HIDE DEF k
<1>4. /\ work' \in [Parties -> WorkRecord]
      /\ \A v \in Parties : work'[v] = work[v] \/ Good(work'[v], forkOp', daemon')
  BY <1>2, <1>3, EndsWork, BecomesWork DEF Inv
<1> QED
  BY <1>1, <1>4, QuietStep DEF releaseForkCleanupClaim, Inv, Types, HostMoves

LEMMA ExpireClaimInv ==
  ASSUME Inv, CleanupClaimExpires
  PROVE  Inv'
<1>1. forkOp' \in OpRow /\ forkOp'.state = forkOp.state /\ forkOp'.by = forkOp.by /\ forkOp'.cleanup = forkOp.cleanup
  BY DEF CleanupClaimExpires, Inv, Types, OpRow
<1> QED
  BY <1>1, QuietStep DEF CleanupClaimExpires, Inv, Types, HostMoves

\* An answer reaches the worker that still waits for it.
LEMMA AnsweredWork ==
  ASSUME Inv, NEW w \in Parties, NEW seen \in SUBSET Children, forkOp' = forkOp,
         NEW answer \in {"cleaned", "invalid", "ambiguous", "rejected", "warming", "ready"},
         Answered(w, answer, seen), answer = "cleaned" => daemon'.res = "failed",
         answer # "cleaned" /\ seen = Children =>
           daemon'.res \in {"succeeded", "failed"} /\ daemon'.vms \subseteq Children,
         answer = "ready" => daemon'.res = "succeeded"
  PROVE  /\ work' \in [Parties -> WorkRecord]
         /\ \A v \in Parties : work'[v] = work[v] \/ Good(work'[v], forkOp', daemon')
<1>1. CASE work[w].pc # "calling"
  BY <1>1 DEF Answered, Inv, Types
<1>2. CASE work[w].pc = "calling"
  <2> DEFINE k == [work[w] EXCEPT !.pc = "answered", !.answer = answer, !.seen = seen,
                                  !.complete = (seen = Children)]
  <2>0. work[w] \in WorkRecord /\ Good(work[w], forkOp, daemon)
    BY DEF Inv, Types, AllGood
  <2>1. k \in WorkRecord
    BY <2>0 DEF WorkRecord
  <2>2. /\ k.pc = "answered" /\ k.answer = answer /\ k.seen = seen
        /\ k.complete = (seen = Children) /\ k.cleanup = work[w].cleanup /\ k.token = work[w].token
    BY <2>0 DEF WorkRecord
  <2>3. work' = [work EXCEPT ![w] = k]
    BY <1>2 DEF Answered
  <2> HIDE DEF k
  <2>4. Good(k, forkOp', daemon')
    BY <1>2, <2>0, <2>2 DEF Good
  <2> QED
    BY <2>1, <2>3, <2>4, BecomesWork DEF Inv
<1> QED
  BY <1>1, <1>2

LEMMA WorkerStepInv ==
  ASSUME ForkAssumption, Inv, NEW w \in Parties,
         WorkerStep(w) \/ TimesOut(w) \/ Crash(w)
  PROVE  Inv'
<1>0. work[w] \in WorkRecord /\ Good(work[w], forkOp, daemon)
  BY DEF Inv, Types, AllGood
<1>1. CASE Call(w)
  <2>1. [work[w] EXCEPT !.pc = "calling"] \in WorkRecord
    BY <1>0 DEF WorkRecord
  <2>2. Good([work[w] EXCEPT !.pc = "calling"], forkOp', daemon')
    BY <1>0, <1>1 DEF WorkRecord, Good, Call
  <2> QED
    BY <1>1, <2>1, <2>2, GoesWork, OnlyWork DEF Call
<1>2. CASE TimesOut(w)
  BY <1>2, AnsweredWork, OnlyWork DEF TimesOut, ForkAssumption
<1>3. CASE Decide(w)
  <2> DEFINE next == AfterAnswer(work[w])
  <2>1. /\ next \in {"finish", "reclaim", "fail", "release", "idle", "commit"}
        /\ next = "commit" => work[w].answer = "ready"
    BY <1>0, <1>3 DEF Decide, AfterAnswer, WorkRecord, Good
  <2>2. UNCHANGED <<forkOp, kids, hostReserved, daemon>> /\ (Ends(w) \/ Goes(w, next))
    BY <1>3 DEF Decide
  <2> HIDE DEF next
  <2>3. [work[w] EXCEPT !.pc = next] \in WorkRecord
    BY <1>0, <2>1 DEF WorkRecord
  <2>4. Good([work[w] EXCEPT !.pc = next], forkOp', daemon')
    BY <1>0, <1>3, <2>1, <2>2 DEF WorkRecord, Good, Decide
  <2> QED
    BY <2>2, <2>3, <2>4, EndsWork, GoesWork, OnlyWork DEF Inv
<1>4. CASE CleanupDone(w)
  <2> DEFINE next == IF work[w].complete THEN "complete" ELSE "release"
  <2>1. [work[w] EXCEPT !.pc = next] \in WorkRecord
    BY <1>0 DEF WorkRecord
  <2>2. Good([work[w] EXCEPT !.pc = next], forkOp', daemon')
    BY <1>0, <1>4 DEF WorkRecord, Good, CleanupDone
  <2> QED
    BY <1>4, <2>1, <2>2, GoesWork, OnlyWork DEF CleanupDone
<1>5. CASE Crash(w)
  BY <1>5, EndsWork, OnlyWork DEF Crash, Inv
<1> QED
  BY <1>1, <1>2, <1>3, <1>4, <1>5, ClaimFirstInv, FinishInv, CommitInv, FailForkInv,
     CleanupEndsInv, ReleaseClaimInv DEF WorkerStep

-----------------------------------------------------------------------------
(* Steps of the daemon, and of the tenant. *)

LEMMA DestroyObservedInv ==
  ASSUME Inv, NEW w \in Parties, NEW c \in Children, NEW ok \in BOOLEAN,
         cleanupForkObservations(w, c, ok)
  PROVE  Inv'
<1> DEFINE left == IF ok THEN daemon.vms \ {c} ELSE daemon.vms
           k == [work[w] EXCEPT !.seen = work[w].seen \ {c}, !.complete = work[w].complete /\ ok]
<1>0. work[w] \in WorkRecord /\ Good(work[w], forkOp, daemon) /\ daemon \in HostRecord
  BY DEF Inv, Types, AllGood
<1>1. /\ daemon' = [daemon EXCEPT !.vms = left] /\ work' = [work EXCEPT ![w] = k]
      /\ UNCHANGED <<forkOp, kids, hostReserved>> /\ work[w].pc = "destroy"
  <2>1. daemon' = [daemon EXCEPT !.vms = left]
    BY DEF cleanupForkObservations
  <2>2. work' = [work EXCEPT ![w] = k]
    BY DEF cleanupForkObservations
  <2> QED
    BY <2>1, <2>2 DEF cleanupForkObservations
<1>2. left \in SUBSET Children /\ left \subseteq daemon.vms
  BY <1>0 DEF HostRecord
<1>3. daemon' \in HostRecord /\ daemon'.res = daemon.res /\ daemon'.vms = left
  BY <1>0, <1>1, <1>2 DEF HostRecord
<1>4. k \in WorkRecord
  BY <1>0 DEF WorkRecord
<1>5. /\ k.pc = "destroy" /\ k.answer = work[w].answer /\ k.seen = work[w].seen \ {c}
      /\ k.complete = (work[w].complete /\ ok)
      /\ k.cleanup = work[w].cleanup /\ k.token = work[w].token
  BY <1>0, <1>1 DEF WorkRecord
<1>6. k.complete => left \subseteq k.seen \/ ~(daemon.vms \subseteq work[w].seen)
  BY <1>0, <1>5 DEF WorkRecord
<1> HIDE DEF k
<1>7. Good(k, forkOp', daemon')
  BY <1>0, <1>1, <1>3, <1>5, <1>6 DEF Good, WorkRecord
<1>8. forkOp.cleanup /\ HostMoves
  BY <1>0, <1>1, <1>2, <1>3 DEF HostMoves, Good
<1>9. /\ work' \in [Parties -> WorkRecord]
      /\ \A v \in Parties : work'[v] = work[v] \/ Good(work'[v], forkOp', daemon')
  BY <1>1, <1>4, <1>7, BecomesWork DEF Inv
<1> QED
  BY <1>1, <1>3, <1>8, <1>9, QuietStep DEF Inv, Types

\* The batch failed, and left is what could not be removed.
LEMMA CleanedHost ==
  ASSUME daemon \in HostRecord, NEW left \in SUBSET Children, daemon' = CleanedBut(left)
  PROVE  daemon' \in HostRecord /\ daemon'.res = "failed" /\ daemon'.vms = left /\ daemon'.kept = left
BY DEF CleanedBut, HostRecord

LEMMA RemainsChildren ==
  ASSUME daemon \in HostRecord
  PROVE  Remains \subseteq SUBSET Children
BY DEF Remains, HostRecord

LEMMA HostAnswersInv ==
  ASSUME ForkAssumption, Inv, NEW w \in Parties,
         HostReplays(w) \/ HostRejects(w) \/ HostAnswersInvalid(w) \/ HostAnswersWarming(w)
  PROVE  Inv'
<1>0. UNCHANGED <<forkOp, kids, hostReserved>> /\ daemon \in HostRecord
  BY DEF HostReplays, HostRejects, HostAnswersInvalid, HostAnswersWarming, Inv, Types
<1>1. CASE HostReplays(w) /\ ~(daemon.res = "succeeded" /\ daemon.vms = Children)
  <2>1. Answered(w, "cleaned", {}) /\ daemon.res \in {"succeeded", "failed"}
    BY <1>1 DEF HostReplays
  <2>2. daemon' \in HostRecord /\ daemon'.res = "failed" /\ HostMoves
    <3>1. CASE daemon.res = "failed"
      BY <1>0, <1>1, <3>1 DEF HostReplays, HostMoves
    <3>2. CASE daemon.res = "succeeded"
      <4>1. PICK left \in Remains : daemon' = CleanedBut(left)
        BY <1>1, <3>2 DEF HostReplays
      <4>2. left \subseteq daemon.vms
        BY <3>2 DEF Remains
      <4> QED
        BY <1>0, <1>1, <3>2, <4>1, <4>2, CleanedHost, RemainsChildren DEF HostMoves
    <3> QED
      BY <2>1, <3>1, <3>2
  <2> QED
    BY <1>0, <2>1, <2>2, AnsweredWork, QuietStep DEF Inv, Types
<1>2. CASE HostReplays(w) /\ daemon.res = "succeeded" /\ daemon.vms = Children
  BY <1>0, <1>2, AnsweredWork, OnlyWork DEF HostReplays
<1>3. CASE HostRejects(w)
  BY <1>0, <1>3, AnsweredWork, OnlyWork DEF HostRejects, ForkAssumption
<1>4. CASE HostAnswersInvalid(w)
  <2>1. PICK seen \in SUBSET daemon.vms : Answered(w, "invalid", seen)
    BY <1>4 DEF HostAnswersInvalid
  <2>2. seen \in SUBSET Children /\ daemon' = daemon /\ daemon.res = "succeeded"
        /\ daemon.vms \subseteq Children
    BY <1>0, <1>4, <2>1 DEF HostAnswersInvalid, HostRecord
  <2> QED
    BY <1>0, <2>1, <2>2, AnsweredWork, OnlyWork
<1>5. CASE HostAnswersWarming(w)
  BY <1>0, <1>5, AnsweredWork, OnlyWork DEF HostAnswersWarming
<1> QED
  BY <1>1, <1>2, <1>3, <1>4, <1>5

LEMMA HostAloneInv ==
  ASSUME Inv,
         \/ \E w \in Parties : HostAccepts(w)
         \/ HostBoots(TRUE) \/ HostBoots(FALSE) \/ HostRestarts
         \/ SourceEnds \/ HostDown \/ HostUp
         \/ \E c \in Children : Reaped(c)
  PROVE  Inv'
<1>0. UNCHANGED <<forkOp, kids, hostReserved, work>> /\ daemon \in HostRecord /\ NothingLeft
  BY DEF HostAccepts, HostBoots, HostRestarts, SourceEnds, HostDown, HostUp, Reaped, Inv, Types
<1>1. daemon' \in HostRecord /\ HostMoves
  <2>1. CASE \E w \in Parties : HostAccepts(w)
    BY <1>0, <2>1 DEF HostAccepts, HostRecord, HostMoves
  <2>2. CASE HostBoots(TRUE)
    BY <1>0, <2>2 DEF HostBoots, HostRecord, HostMoves
  <2>3. CASE HostBoots(FALSE)
    <3>1. PICK left \in Remains : daemon' = CleanedBut(left)
      BY <2>3 DEF HostBoots
    <3> QED
      BY <1>0, <2>3, <3>1, CleanedHost, RemainsChildren DEF HostBoots, HostMoves
  <2>4. CASE HostRestarts
    <3>1. CASE daemon.res = "succeeded" /\ daemon.vms = Children
      BY <1>0, <2>4, <3>1 DEF HostRestarts, HostMoves
    <3>2. CASE ~(daemon.res = "succeeded" /\ daemon.vms = Children)
      <4>1. PICK left \in Remains : daemon' = CleanedBut(left)
        BY <2>4, <3>2 DEF HostRestarts
      <4>2. daemon.res # "booting" => left \subseteq daemon.vms
        BY DEF Remains
      <4>3. daemon.res \in {"booting", "succeeded", "failed"}
        BY <1>0, <2>4 DEF HostRestarts, HostRecord
      <4> QED
        BY <1>0, <3>2, <4>1, <4>2, <4>3, CleanedHost, RemainsChildren DEF HostMoves
    <3> QED
      BY <3>1, <3>2
  <2>5. CASE SourceEnds \/ HostDown \/ HostUp
    BY <1>0, <2>5 DEF SourceEnds, HostDown, HostUp, HostRecord, HostMoves
  <2>6. CASE \E c \in Children : Reaped(c)
    <3>1. PICK c \in Children : Reaped(c)
      BY <2>6
    <3>2. /\ daemon.res = "failed" /\ daemon' \in HostRecord /\ daemon'.res = "failed"
          /\ daemon'.vms = daemon.vms \ {c} /\ daemon'.kept = daemon.kept \ {c}
      BY <1>0, <3>1 DEF Reaped, HostRecord
    <3>3. daemon.vms \subseteq daemon.kept
      BY <1>0, <3>2 DEF NothingLeft
    <3> QED
      BY <3>2, <3>3 DEF HostMoves
  <2> QED
    BY <2>1, <2>2, <2>3, <2>4, <2>5, <2>6
<1> QED
  BY <1>0, <1>1, QuietStep DEF Inv, Types

\* A visible child ends, and its reservation with it.
LEMMA ChildEndsInv ==
  ASSUME ForkAssumption, Inv, NEW c \in Children, destroy(c) \/ Lost(c)
  PROVE  Inv'
<1>1. PICK state \in {"stopped", "lost"} : ReleasedChild(c, state)
  BY DEF destroy, Lost
<1>2. UNCHANGED <<forkOp, work>> /\ forkOp.state = "succeeded" /\ kids[c] = "running"
  BY DEF destroy, Lost
<1>3. /\ daemon' \in HostRecord /\ daemon'.res = daemon.res /\ daemon'.vms \subseteq daemon.vms
      /\ daemon'.kept = daemon.kept
  <2>1. daemon \in HostRecord
    BY DEF Inv, Types
  <2>2. CASE destroy(c)
    BY <2>1, <2>2 DEF destroy, HostRecord
  <2>3. CASE Lost(c)
    BY <2>1, <2>3 DEF Lost, HostRecord
  <2> QED
    BY <2>2, <2>3
<1>4. Booked' = Booked \ {c} /\ c \in Booked /\ IsFiniteSet(Booked)
  <2>1. Booked \subseteq Children
    BY DEF Booked
  <2>2. IsFiniteSet(Booked)
    BY <2>1, FS_Subset DEF ForkAssumption
  <2> QED
    BY <1>1, <1>2, <2>2 DEF Booked, ReleasedChild, Inv, Types
<1>5. /\ Cardinality(Booked) \in Nat /\ Cardinality(Booked') = Cardinality(Booked) - 1
      /\ Cardinality(Booked') \in Nat
  <2>1. IsFiniteSet(Booked')
    BY <1>4, FS_RemoveElement
  <2>2. Cardinality(Booked') = Cardinality(Booked) - 1
    BY <1>4, FS_RemoveElement
  <2> QED
    BY <1>4, <2>1, <2>2, FS_CardinalityType
<1>6. BookedOnce' /\ hostReserved' \in Nat
  BY <1>1, <1>5 DEF ReleasedChild, Inv, BookedOnce, ForkAssumption
<1>7. Types'
  BY <1>1, <1>2, <1>3, <1>6 DEF Inv, Types, ReleasedChild
<1>8. KidsFollow'
  BY <1>1, <1>2 DEF Inv, Types, KidsFollow, ReleasedChild
<1>9. AllGood'
  BY <1>2, <1>3 DEF Inv, AllGood, Good
<1>10. NothingLeft' /\ CleanupIsFinal'
  BY <1>2, <1>3 DEF Inv, NothingLeft, CleanupIsFinal, Types, HostRecord
<1>11. ~NoneStopped'
  <2>1. CASE destroy(c)
    BY <2>1 DEF destroy, ReleasedChild, NoneStopped, Inv, Types
  <2>2. CASE Lost(c)
    <3>1. daemon.vms # Children /\ ~forkOp.cleanup
      BY <1>2, <2>2 DEF Lost, Inv, CleanupIsFinal
    <3>2. ~NoneStopped
      BY <1>2, <3>1 DEF Inv, Whole
    <3> QED
      BY <2>2, <3>2 DEF Lost, ReleasedChild, NoneStopped, Inv, Types
  <2> QED
    BY <2>1, <2>2
<1> QED
  BY <1>6, <1>7, <1>8, <1>9, <1>10, <1>11 DEF Inv, Whole

LEMMA NextInv == ForkAssumption /\ Inv /\ [ForkNext]_forkVars => Inv'
<1> SUFFICES ASSUME ForkAssumption, Inv, [ForkNext]_forkVars PROVE Inv'
  OBVIOUS
<1>1. CASE UNCHANGED forkVars
  BY <1>1, OnlyWork DEF forkVars, Inv, Types
<1>2. CASE claimPendingForks
  BY <1>2, LoadedWork, OnlyWork DEF claimPendingForks, Parties
<1>3. CASE ForkNext
  BY <1>2, <1>3, BeginInv, WorkerStepInv, DestroyObservedInv, HostAnswersInv, HostAloneInv,
     ExpireClaimInv, ChildEndsInv DEF ForkNext, Destroys, HostStep
<1> QED
  BY <1>1, <1>3

\* Every invariant above holds in every reachable state.
THEOREM ForkInvariant == ForkAssumption /\ ForkSpec => []Inv
<1> SUFFICES ASSUME ForkAssumption PROVE ForkSpec => []Inv
  OBVIOUS
<1>1. ForkInit => Inv
  BY InitInv
<1>2. Inv /\ [ForkNext]_forkVars => Inv'
  BY NextInv
<1> QED
  BY <1>1, <1>2, PTL DEF ForkSpec

\* The host carries one reservation for every child that is starting or running, and a
\* batch whose cleanup was confirmed left nothing on the host but what the daemon itself
\* kept when it answered that the batch was cleaned, however requests, the reconciler,
\* expired claims, crashes, failed saves and late answers interleave (beginFork,
\* failFork, completeFork, completeForkCleanup, forkReservationResult).
THEOREM ForkIsSafe == ForkAssumption /\ ForkSpec => []ForkSafe
<1>1. Inv => ForkSafe
  BY DEF Inv, ForkSafe, CleanedIsClean, NothingLeft
<1> QED
  BY <1>1, ForkInvariant, PTL

\* Whatever children the tenant may delete: until one of them is deleted, no worker,
\* late request or restart takes a virtual machine from a batch that became visible
\* (cleanupForkObservations, forkReservationResult, Reconcile), because a requested
\* cleanup keeps completeFork from committing and a complete batch is not cleaned up.
THEOREM VisibleBatchIsKept == ForkAssumption /\ ForkSpec => [][VisibleIsKept]_forkVars
<1> SUFFICES ASSUME ForkAssumption PROVE ForkSpec => [][VisibleIsKept]_forkVars
  OBVIOUS
<1>1. Inv /\ Inv' /\ [ForkNext]_forkVars => [VisibleIsKept]_forkVars
  <2> SUFFICES ASSUME Inv, Inv', ForkNext, forkOp.state = "succeeded",
                      \A c \in Children : kids'[c] # "stopped"
               PROVE  daemon.vms \subseteq daemon'.vms
    BY DEF VisibleIsKept
  <2>1. forkOp'.state = "succeeded"
    <3>1. forkOp \in OpRow
      BY DEF Inv, Types
    <3>2. CASE \E w \in Parties : releaseForkCleanupClaim(w)
      BY <3>1, <3>2 DEF releaseForkCleanupClaim, OpRow
    <3>3. CASE ~\E w \in Parties : releaseForkCleanupClaim(w)
      BY <3>3 DEF ForkNext, beginFork, WorkerStep, TimesOut, Crash, Destroys,
         cleanupForkObservations, HostStep, HostAccepts, HostReplays, HostRejects,
         HostAnswersInvalid, HostAnswersWarming, claimPendingForks, CleanupClaimExpires, HostBoots,
         HostRestarts, SourceEnds, HostDown, HostUp, Reaped, destroy, Lost, ClaimFirst, Call,
         Decide, finishForkCleanup, completeFork, failFork, completeForkCleanup, CleanupDone
    <3> QED
      BY <3>2, <3>3
  <2>2. daemon'.vms = Children
    BY <2>1 DEF Inv, CleanupIsFinal, Whole, NoneStopped
  <2> QED
    BY <2>2 DEF Inv, Types, HostRecord
<1>2. []Inv /\ [][ForkNext]_forkVars => [][VisibleIsKept]_forkVars
  BY <1>1, PTL
<1> QED
  BY <1>2, ForkInvariant, PTL DEF ForkSpec
=============================================================================
