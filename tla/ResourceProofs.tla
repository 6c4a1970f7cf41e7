--------------------------- MODULE ResourceProofs ----------------------------
(***************************************************************************)
(* The safety of what machines are made of: the hosts that carry them, the *)
(* templates they start from and the volumes they write, for any number of *)
(* requests, workers and rows.  One inductive invariant for each component. *)
(***************************************************************************)
EXTENDS HostFleet, Templates, Volumes, TLAPS, FiniteSetTheorems

-----------------------------------------------------------------------------
(* The host fleet: enrollment, heartbeats and the operator. *)

HostRow ==
  [id : HostIds \cup {Nothing}, desired : {"active", "draining", "quarantined", "revoked"},
   state : {"ready", "draining", "unhealthy", "stale"}, cred : {"active", "revoked"},
   gen : Nat, enrolled : BOOLEAN, heard : {"never", "recent", "due", "old"},
   reported : BOOLEAN]
GrantRow ==
  [status : {"none", "live", "expired", "consumed", "revoked"}, id : HostIds \cup {Nothing}]
CallRecord ==
  [pc : {"idle", "issue", "register", "heartbeat", "rotate"}, grant : Grants \cup {Nothing},
   gen : Nat, epoch : Nat, saw : BOOLEAN, live : SUBSET Grants]

FleetTypes ==
  /\ hostRow \in HostRow
  /\ grant \in [Grants -> GrantRow]
  /\ call \in [Callers -> CallRecord]
  /\ epoch \in Nat
  /\ bought \in [Grants -> Nat]

\* What a request in flight remembers was true once and has not been undone.
Remembered ==
  \A c \in Callers :
    /\ call[c].pc = "issue" /\ call[c].saw => Exists
    /\ call[c].pc = "register" => call[c].grant \in Grants
    /\ call[c].pc = "heartbeat" => Exists /\ call[c].gen <= hostRow.gen

\* A heartbeat that authenticated before a quarantine holds a generation that is
\* over, or one whose credential is revoked and will be over before it is active.
CrossingIsOutdated ==
  \A c \in Callers :
    call[c].pc = "heartbeat" /\ call[c].epoch # epoch /\ call[c].gen = hostRow.gen
      => hostRow.cred = "revoked"

\* A grant that was issued names a host; one that bought a credential is consumed.
GrantsSpent ==
  \A g \in Grants :
    /\ grant[g].status # "none" => grant[g].id \in HostIds
    /\ bought[g] = 0 \/ (bought[g] = 1 /\ grant[g].status = "consumed")

AtMostOneOpen == \A g, h \in Grants : Open(g) /\ Open(h) => g = h

\* What quarantine and revocation leave behind.
RetiredIsStale ==
  /\ hostRow.desired = "revoked" => hostRow.cred = "revoked"
  /\ hostRow.desired = "quarantined" => hostRow.state = "stale"
  /\ hostRow.desired # "active" => Exists

FleetInv ==
  /\ FleetTypes /\ Remembered /\ CrossingIsOutdated /\ GrantsSpent /\ AtMostOneOpen
  /\ RetiredIsStale /\ ReadyIsPlaceable /\ NothingCrossesQuarantine

-----------------------------------------------------------------------------

LEMMA FleetInitInv == FleetAssumption /\ FleetInit => FleetInv
<1> SUFFICES ASSUME FleetAssumption, FleetInit PROVE FleetInv
  OBVIOUS
<1>1. FleetTypes
  BY DEF FleetInit, FleetTypes, HostRow, GrantRow, CallRecord, NoRow, NoCall
<1>2. Remembered /\ CrossingIsOutdated
  BY DEF FleetInit, Remembered, CrossingIsOutdated, NoCall
<1>3. GrantsSpent /\ AtMostOneOpen
  BY DEF FleetInit, GrantsSpent, AtMostOneOpen, Open
<1>4. RetiredIsStale /\ ReadyIsPlaceable /\ NothingCrossesQuarantine
  BY DEF FleetInit, NoRow, RetiredIsStale, ReadyIsPlaceable, NothingCrossesQuarantine, Exists
<1> QED
  BY <1>1, <1>2, <1>3, <1>4 DEF FleetInv

LEMMA IdleIsCall == NoCall \in CallRecord /\ NoCall.pc = "idle"
BY DEF NoCall, CallRecord

\* A request that ends, or begins, is of no further consequence for the others.
LEMMA CallEnds ==
  ASSUME FleetInv, NEW c \in Callers, Done(c)
  PROVE  /\ call' \in [Callers -> CallRecord] /\ call'[c].pc = "idle"
         /\ \A o \in Callers : o # c => call'[o] = call[o]
BY IdleIsCall DEF FleetInv, FleetTypes, Done

\* Steps that leave the host's row and the grants alone.
LEMMA OnlyCalls ==
  ASSUME FleetInv, UNCHANGED <<hostRow, grant, epoch, bought, crossed>>,
         call' \in [Callers -> CallRecord],
         \A o \in Callers :
           \/ call'[o] = call[o] \/ call'[o].pc \in {"idle", "rotate"}
           \/ call'[o].pc = "issue" /\ (call'[o].saw => Exists)
           \/ call'[o].pc = "register" /\ call'[o].grant \in Grants
           \/ /\ call'[o].pc = "heartbeat" /\ Exists
              /\ call'[o].gen = hostRow.gen /\ call'[o].epoch = epoch
  PROVE  FleetInv'
<1>1. FleetTypes'
  BY DEF FleetInv, FleetTypes
<1>2. Remembered'
  BY DEF FleetInv, FleetTypes, HostRow, Remembered, Exists
<1>3. CrossingIsOutdated'
  BY DEF FleetInv, CrossingIsOutdated
<1>4. /\ GrantsSpent' /\ AtMostOneOpen' /\ RetiredIsStale' /\ ReadyIsPlaceable'
      /\ NothingCrossesQuarantine'
  BY DEF FleetInv, GrantsSpent, AtMostOneOpen, Open, RetiredIsStale, Exists, ReadyIsPlaceable,
         NothingCrossesQuarantine
<1> QED
  BY <1>1, <1>2, <1>3, <1>4 DEF FleetInv

\* Steps that leave the grants alone and change the host's row: it may not lose its
\* id, go back to an older generation or make a revoked credential active again
\* without a new one.
LEMMA OnlyHost ==
  ASSUME FleetInv, UNCHANGED <<grant, bought>>, hostRow' \in HostRow,
         call' \in [Callers -> CallRecord], epoch' \in Nat,
         \A o \in Callers : call'[o] = call[o] \/ call'[o].pc = "idle",
         Exists, Exists', hostRow'.gen >= hostRow.gen,
         hostRow'.gen = hostRow.gen /\ (hostRow.cred = "revoked" \/ epoch' # epoch)
           => hostRow'.cred = "revoked",
         RetiredIsStale', ReadyIsPlaceable', NothingCrossesQuarantine'
  PROVE  FleetInv'
<1>1. FleetTypes'
  BY DEF FleetInv, FleetTypes
<1>2. Remembered'
  BY DEF FleetInv, FleetTypes, HostRow, CallRecord, Remembered
<1>3. CrossingIsOutdated'
  <2> SUFFICES ASSUME NEW c \in Callers, call'[c].pc = "heartbeat", call'[c].epoch # epoch',
                      call'[c].gen = hostRow'.gen
               PROVE  hostRow'.cred = "revoked"
    BY DEF CrossingIsOutdated
  <2>1. call'[c] = call[c] /\ call[c].gen <= hostRow.gen
    BY DEF FleetInv, Remembered
  <2>2. hostRow'.gen = hostRow.gen
    BY <2>1 DEF FleetInv, FleetTypes, HostRow, CallRecord
  <2> QED
    BY <2>1, <2>2 DEF FleetInv, CrossingIsOutdated
<1>4. GrantsSpent' /\ AtMostOneOpen'
  BY DEF FleetInv, GrantsSpent, AtMostOneOpen, Open
<1> QED
  BY <1>1, <1>2, <1>3, <1>4 DEF FleetInv

-----------------------------------------------------------------------------
(* Enrollment. *)

LEMMA BeginInv ==
  ASSUME FleetInv, NEW c \in Callers,
         \/ IssueBegin(c) \/ RotateBegin(c) \/ authenticateHost(c) \/ RequestFails(c)
         \/ \E g \in Grants : RegisterBegin(c, g)
  PROVE  FleetInv'
<1>1. CASE IssueBegin(c)
  <2>1. [NoCall EXCEPT !.pc = "issue", !.saw = Exists, !.live = {g \in Grants : Open(g)}]
           \in CallRecord
    BY DEF NoCall, CallRecord, Exists
  <2>2. /\ call' \in [Callers -> CallRecord] /\ call'[c].pc = "issue" /\ call'[c].saw = Exists
        /\ \A o \in Callers : o # c => call'[o] = call[o]
    BY <1>1, <2>1 DEF IssueBegin, FleetInv, FleetTypes, NoCall
  <2> QED
    BY <1>1, <2>2, OnlyCalls DEF IssueBegin
<1>2. CASE RotateBegin(c)
  <2>1. [NoCall EXCEPT !.pc = "rotate"] \in CallRecord
    BY DEF NoCall, CallRecord
  <2>2. /\ call' \in [Callers -> CallRecord] /\ call'[c].pc = "rotate"
        /\ \A o \in Callers : o # c => call'[o] = call[o]
    BY <1>2, <2>1 DEF RotateBegin, FleetInv, FleetTypes, NoCall
  <2> QED
    BY <1>2, <2>2, OnlyCalls DEF RotateBegin
<1>3. CASE authenticateHost(c)
  <2>1. [NoCall EXCEPT !.pc = "heartbeat", !.gen = hostRow.gen, !.epoch = epoch] \in CallRecord
    BY DEF NoCall, CallRecord, FleetInv, FleetTypes, HostRow
  <2>2. /\ call' \in [Callers -> CallRecord] /\ call'[c].pc = "heartbeat"
        /\ call'[c].gen = hostRow.gen /\ call'[c].epoch = epoch
        /\ \A o \in Callers : o # c => call'[o] = call[o]
    BY <1>3, <2>1 DEF authenticateHost, FleetInv, FleetTypes, NoCall
  <2> QED
    BY <1>3, <2>2, OnlyCalls DEF authenticateHost, Serving
<1>4. CASE RequestFails(c)
  BY <1>4, CallEnds, OnlyCalls DEF RequestFails
<1>5. ASSUME NEW g \in Grants, RegisterBegin(c, g) PROVE FleetInv'
  <2>1. [NoCall EXCEPT !.pc = "register", !.grant = g] \in CallRecord
    BY DEF NoCall, CallRecord
  <2>2. /\ call' \in [Callers -> CallRecord] /\ call'[c].pc = "register"
        /\ call'[c].grant = g
        /\ \A o \in Callers : o # c => call'[o] = call[o]
    BY <1>5, <2>1 DEF RegisterBegin, FleetInv, FleetTypes, NoCall
  <2> QED
    BY <1>5, <2>2, OnlyCalls DEF RegisterBegin
<1> QED
  BY <1>1, <1>2, <1>3, <1>4, <1>5

\* Steps that change grants: what was spent stays spent, what is issued names a host.
LEMMA OnlyGrants ==
  ASSUME FleetInv, UNCHANGED <<hostRow, epoch, bought, crossed>>,
         call' \in [Callers -> CallRecord],
         \A o \in Callers : call'[o] = call[o] \/ call'[o].pc = "idle",
         grant' \in [Grants -> GrantRow], AtMostOneOpen',
         \A g \in Grants :
           /\ grant[g].status = "consumed" => grant'[g].status = "consumed"
           /\ grant'[g].status # "none" => grant'[g].id \in HostIds
  PROVE  FleetInv'
<1>1. FleetTypes'
  BY DEF FleetInv, FleetTypes
<1>2. Remembered' /\ CrossingIsOutdated'
  BY DEF FleetInv, Remembered, CrossingIsOutdated, Exists
<1>3. GrantsSpent'
  BY DEF FleetInv, GrantsSpent
<1>4. RetiredIsStale' /\ ReadyIsPlaceable' /\ NothingCrossesQuarantine'
  BY DEF FleetInv, RetiredIsStale, ReadyIsPlaceable, NothingCrossesQuarantine, Exists
<1> QED
  BY <1>1, <1>2, <1>3, <1>4 DEF FleetInv

LEMMA IssueInv ==
  ASSUME FleetAssumption, FleetInv, NEW c \in Callers, NEW g \in Grants, NEW fresh \in HostIds,
         issueEnrollment(c, g, fresh)
  PROVE  FleetInv'
<1> DEFINE revoked == {o \in call[c].live : Open(o)}
           seen == call[c].saw
           eligible == seen => ~hostRow.enrolled /\ hostRow.desired = "active" /\ hostRow.cred = "active"
           id == IF seen THEN hostRow.id ELSE fresh
<1>1. /\ call' \in [Callers -> CallRecord]
      /\ \A o \in Callers : call'[o] = call[o] \/ call'[o].pc = "idle"
  BY CallEnds DEF issueEnrollment
<1>2. id \in HostIds /\ revoked \subseteq Grants
  BY DEF issueEnrollment, FleetInv, FleetTypes, Remembered, Exists, HostRow, CallRecord, FleetAssumption
<1>3. CASE ~(eligible /\ UniqueOpen(revoked))
  <2>1. grant' = grant
    BY <1>3 DEF issueEnrollment
  <2> QED
    BY <1>1, <2>1, OnlyCalls DEF issueEnrollment
<1>4. CASE eligible /\ UniqueOpen(revoked)
  <2>1. grant' = [o \in Grants |->
                    IF o = g THEN [status |-> "live", id |-> id]
                    ELSE IF o \in revoked THEN [grant[o] EXCEPT !.status = "revoked"]
                    ELSE grant[o]]
    BY <1>4 DEF issueEnrollment
  <2>2. \A o \in Grants : o # g => ~(grant'[o].status \in {"live", "expired"})
    BY <1>4, <2>1 DEF UniqueOpen, Open, FleetInv, FleetTypes, GrantRow
  <2>3. AtMostOneOpen'
    BY <2>2 DEF AtMostOneOpen, Open
  <2>4. grant' \in [Grants -> GrantRow]
    BY <1>2, <2>1 DEF FleetInv, FleetTypes, GrantRow
  <2>5. \A o \in Grants :
           /\ grant[o].status = "consumed" => grant'[o].status = "consumed"
           /\ grant'[o].status # "none" => grant'[o].id \in HostIds
    BY <1>2, <2>1 DEF issueEnrollment, FleetInv, FleetTypes, GrantRow, GrantsSpent, Open
  <2> QED
    BY <1>1, <2>3, <2>4, <2>5, OnlyGrants DEF issueEnrollment
<1> QED
  BY <1>3, <1>4

LEMMA GrantEndsInv ==
  ASSUME FleetInv, NEW g \in Grants, revokeEnrollment(g) \/ GrantExpires(g)
  PROVE  FleetInv'
<1> DEFINE status == grant'[g].status
<1>1. /\ grant' = [grant EXCEPT ![g].status = status] /\ status \in {"revoked", "expired"}
      /\ Open(g) /\ UNCHANGED <<hostRow, call, epoch, bought, crossed>>
  BY DEF revokeEnrollment, GrantExpires, Open, FleetInv, FleetTypes, GrantRow
<1>2. grant' \in [Grants -> GrantRow]
  BY <1>1 DEF FleetInv, FleetTypes, GrantRow
<1>3. AtMostOneOpen'
  BY <1>1 DEF FleetInv, FleetTypes, GrantRow, AtMostOneOpen, Open
<1>4. \A o \in Grants :
        /\ grant[o].status = "consumed" => grant'[o].status = "consumed"
        /\ grant'[o].status # "none" => grant'[o].id \in HostIds
  BY <1>1 DEF FleetInv, FleetTypes, GrantRow, GrantsSpent, Open
<1>5. call' \in [Callers -> CallRecord]
  BY <1>1 DEF FleetInv, FleetTypes
<1> QED
  BY <1>1, <1>2, <1>3, <1>4, <1>5, OnlyGrants

LEMMA NextGeneration ==
  ASSUME hostRow \in HostRow PROVE [hostRow EXCEPT !.gen = hostRow.gen + 1] \in HostRow
<1>1. hostRow.gen + 1 \in Nat
  BY DEF HostRow
<1> QED
  BY <1>1 DEF HostRow

LEMMA RegisterInv ==
  ASSUME FleetAssumption, FleetInv, NEW c \in Callers, register(c)
  PROVE  FleetInv'
<1> DEFINE g == call[c].grant
           wins == grant[g].status = "live" /\ (~Exists \/ MayReenroll(g))
<1>1. g \in Grants /\ UNCHANGED <<epoch, crossed>>
  BY DEF register, FleetInv, Remembered
<1>2. /\ call' \in [Callers -> CallRecord]
      /\ \A o \in Callers : call'[o] = call[o] \/ call'[o].pc = "idle"
  BY CallEnds DEF register
<1>3. CASE grant[g].status # "live"
  BY <1>1, <1>2, <1>3, OnlyCalls DEF register
<1>4. CASE grant[g].status = "live"
  <2>1. grant' = [grant EXCEPT ![g].status = "consumed"]
    BY <1>4 DEF register
  <2>2. grant' \in [Grants -> GrantRow]
    BY <1>1, <2>1 DEF FleetInv, FleetTypes, GrantRow
  <2>3. AtMostOneOpen'
    BY <1>1, <2>1 DEF FleetInv, FleetTypes, GrantRow, AtMostOneOpen, Open
  <2>4. /\ grant'[g].status = "consumed" /\ grant'[g].id = grant[g].id
        /\ grant[g].id \in HostIds /\ bought[g] = 0
        /\ \A o \in Grants : o # g => grant'[o] = grant[o]
    BY <1>1, <1>4, <2>1 DEF FleetInv, FleetTypes, GrantRow, GrantsSpent
  <2>5. CASE ~wins
    <3>1. hostRow' = hostRow /\ bought' = bought
      BY <2>5 DEF register
    <3> QED
      BY <1>1, <1>2, <2>2, <2>3, <2>4, <3>1, OnlyGrants DEF FleetInv, GrantsSpent
  <2>6. CASE wins
    <3>1. /\ hostRow' = IF Exists THEN Reenrolled ELSE Enrolled(grant[g].id)
          /\ bought' = [bought EXCEPT ![g] = @ + 1]
      BY <2>6 DEF register
    <3>2. GrantsSpent' /\ bought' \in [Grants -> Nat]
      BY <1>1, <2>4, <3>1 DEF FleetInv, FleetTypes, GrantsSpent
    <3>3. /\ hostRow' \in HostRow /\ Exists' /\ hostRow'.state = "unhealthy"
          /\ hostRow'.desired = "active" /\ (Exists => hostRow'.gen = hostRow.gen + 1)
      <4>1. CASE Exists
        <5>1. hostRow' = Reenrolled /\ hostRow \in HostRow /\ hostRow.desired = "active"
          BY <2>6, <3>1, <4>1 DEF MayReenroll, FleetInv, FleetTypes
        <5>2. hostRow' \in HostRow
          <6> DEFINE row == [hostRow EXCEPT !.gen = hostRow.gen + 1]
          <6>1. row \in HostRow
            BY <5>1, NextGeneration
          <6>2. hostRow' = [row EXCEPT !.state = "unhealthy", !.cred = "active"]
            BY <5>1 DEF Reenrolled, HostRow
          <6> HIDE DEF row
          <6> QED
            BY <6>1, <6>2 DEF HostRow
        <5>3. hostRow'.id = hostRow.id /\ hostRow'.state = "unhealthy"
          BY <5>1 DEF Reenrolled, HostRow
        <5>4. hostRow'.desired = "active" /\ hostRow'.gen = hostRow.gen + 1
          BY <5>1 DEF Reenrolled, HostRow
        <5> QED
          BY <4>1, <5>2, <5>3, <5>4 DEF Exists
      <4>2. CASE ~Exists
        <5>1. hostRow' = Enrolled(grant[g].id)
          BY <3>1, <4>2
        <5> QED
          BY <2>4, <4>2, <5>1 DEF Enrolled, NoRow, HostRow, Exists, FleetAssumption
      <4> QED
        BY <4>1, <4>2
    <3>4. FleetTypes'
      BY <1>1, <1>2, <2>2, <3>2, <3>3 DEF FleetInv, FleetTypes
    <3>5. Remembered'
      BY <1>2, <3>3 DEF FleetInv, FleetTypes, HostRow, CallRecord, Remembered
    <3>6. CrossingIsOutdated'
      BY <1>1, <1>2, <3>3 DEF FleetInv, FleetTypes, HostRow, CallRecord, Remembered, CrossingIsOutdated
    <3>7. RetiredIsStale' /\ ReadyIsPlaceable' /\ NothingCrossesQuarantine'
      BY <1>1, <3>3 DEF FleetInv, RetiredIsStale, ReadyIsPlaceable, NothingCrossesQuarantine
    <3> QED
      BY <2>3, <3>2, <3>4, <3>5, <3>6, <3>7 DEF FleetInv
  <2> QED
    BY <2>5, <2>6
<1> QED
  BY <1>3, <1>4

-----------------------------------------------------------------------------
(* Heartbeats and the operator. *)

LEMMA HeartbeatInv ==
  ASSUME FleetInv, NEW c \in Callers, NEW state \in {"ready", "draining", "unhealthy"},
         heartbeat(c, state)
  PROVE  FleetInv'
<1>1. /\ call' \in [Callers -> CallRecord]
      /\ \A o \in Callers : call'[o] = call[o] \/ call'[o].pc = "idle"
  BY CallEnds DEF heartbeat
<1>2. CASE ~(Serving /\ hostRow.gen = call[c].gen /\ hostRow.heard # "recent")
  BY <1>1, <1>2, OnlyCalls DEF heartbeat
<1>3. CASE Serving /\ hostRow.gen = call[c].gen /\ hostRow.heard # "recent"
  <2>1. call[c].epoch = epoch
    BY <1>3 DEF heartbeat, FleetInv, CrossingIsOutdated, Serving
  <2>2. NothingCrossesQuarantine'
    BY <1>3, <2>1 DEF heartbeat, Accepted, FleetInv, NothingCrossesQuarantine
  <2>3. /\ Reported(state) \in {"ready", "draining", "unhealthy"}
        /\ Reported(state) = "ready" => hostRow.desired = "active"
    BY <1>3 DEF Reported, Serving
  <2>4. /\ hostRow' = [hostRow EXCEPT !.state = Reported(state), !.heard = "recent",
                                !.enrolled = TRUE, !.reported = TRUE]
        /\ UNCHANGED <<grant, epoch, bought>>
    BY <1>3 DEF heartbeat, Accepted
  <2>5. hostRow' \in HostRow
    BY <2>3, <2>4 DEF FleetInv, FleetTypes, HostRow
  <2>6. RetiredIsStale' /\ ReadyIsPlaceable'
    <3>1. hostRow \in HostRow /\ RetiredIsStale
      BY DEF FleetInv, FleetTypes
    <3>2. hostRow'.desired = hostRow.desired /\ hostRow'.cred = hostRow.cred /\ hostRow'.id = hostRow.id
      BY <2>4, <3>1 DEF HostRow
    <3>3. hostRow'.state = Reported(state) /\ hostRow'.reported /\ hostRow'.heard = "recent"
      BY <2>4, <3>1 DEF HostRow
    <3> QED
      BY <1>3, <2>3, <3>1, <3>2, <3>3 DEF RetiredIsStale, ReadyIsPlaceable, Serving, Exists
  <2>7. Exists /\ Exists' /\ hostRow'.gen = hostRow.gen /\ hostRow'.cred = hostRow.cred /\ hostRow.gen \in Nat
    BY <1>3, <2>4 DEF FleetInv, FleetTypes, HostRow, Exists, Serving
  <2> QED
    BY <1>1, <2>2, <2>4, <2>5, <2>6, <2>7, OnlyHost DEF FleetInv, FleetTypes
<1> QED
  BY <1>2, <1>3

LEMMA HostStepInv ==
  ASSUME FleetAssumption, FleetInv,
         HeartbeatAges \/ markStale \/ drain \/ activate \/ quarantine \/ revoke
  PROVE  FleetInv'
<1>1. /\ hostRow \in HostRow /\ UNCHANGED <<grant, bought, crossed, call>>
      /\ call' \in [Callers -> CallRecord] /\ epoch \in Nat /\ NothingCrossesQuarantine'
  BY DEF FleetInv, FleetTypes, HeartbeatAges, markStale, drain, activate, quarantine, revoke, Becomes,
         NothingCrossesQuarantine
<1>2. CASE HeartbeatAges
  <2>1. /\ hostRow' = [hostRow EXCEPT !.heard = hostRow'.heard] /\ hostRow'.heard \in {"due", "old"}
        /\ epoch' = epoch /\ hostRow.heard # "never"
    BY <1>1, <1>2 DEF HeartbeatAges, HostRow
  <2>2. hostRow' \in HostRow /\ hostRow'.gen = hostRow.gen /\ hostRow'.cred = hostRow.cred /\ hostRow'.id = hostRow.id
    BY <1>1, <2>1 DEF HostRow
  <2>3. Remembered' /\ CrossingIsOutdated' /\ RetiredIsStale' /\ ReadyIsPlaceable'
    BY <1>1, <2>1, <2>2 DEF FleetInv, Remembered, CrossingIsOutdated, RetiredIsStale,
       ReadyIsPlaceable, Exists, HostRow
  <2>4. FleetTypes' /\ GrantsSpent' /\ AtMostOneOpen'
    BY <1>1, <2>1, <2>2 DEF FleetInv, FleetTypes, GrantsSpent, AtMostOneOpen, Open
  <2> QED
    BY <1>1, <2>3, <2>4 DEF FleetInv
<1>3. CASE markStale
  <2>1. /\ hostRow' \in HostRow /\ hostRow'.gen = hostRow.gen /\ hostRow'.cred = hostRow.cred
        /\ hostRow'.state = "stale" /\ hostRow'.desired = hostRow.desired /\ Exists /\ Exists'
        /\ epoch' = epoch
    BY <1>1, <1>3 DEF markStale, Serving, Exists, HostRow
  <2> QED
    BY <1>1, <2>1, OnlyHost DEF FleetInv, RetiredIsStale, ReadyIsPlaceable, HostRow
<1>4. CASE drain
  <2>1. /\ hostRow' \in HostRow /\ hostRow'.gen = hostRow.gen /\ hostRow'.cred = hostRow.cred
        /\ hostRow'.state # "ready" /\ hostRow'.desired = "draining" /\ Exists /\ Exists'
        /\ epoch' = epoch
    BY <1>1, <1>4 DEF drain, Becomes, Exists, HostRow
  <2> QED
    BY <1>1, <2>1, OnlyHost DEF FleetInv, RetiredIsStale, ReadyIsPlaceable, HostRow
<1>5. CASE activate
  <2>1. /\ hostRow' \in HostRow /\ hostRow'.gen = hostRow.gen /\ hostRow'.cred = hostRow.cred
        /\ hostRow'.state = "unhealthy" /\ hostRow'.desired = "active" /\ Exists /\ Exists'
        /\ epoch' = epoch
    BY <1>1, <1>5 DEF activate, Becomes, Exists, HostRow
  <2> QED
    BY <1>1, <2>1, OnlyHost DEF FleetInv, RetiredIsStale, ReadyIsPlaceable, HostRow
<1>6. CASE quarantine \/ revoke
  <2>1. /\ hostRow' \in HostRow /\ hostRow'.gen = hostRow.gen /\ hostRow'.cred = "revoked"
        /\ hostRow'.state = "stale" /\ Exists /\ Exists' /\ epoch' \in Nat
    <3>1. PICK desired \in {"quarantined", "revoked"} :
            hostRow' = Retired(desired) /\ Exists /\ epoch' = epoch + 1
      BY <1>6 DEF quarantine, revoke, Becomes
    <3>2. hostRow' \in HostRow
      BY <1>1, <3>1 DEF Retired, HostRow
    <3>3. hostRow'.gen = hostRow.gen /\ hostRow'.id = hostRow.id
      BY <1>1, <3>1 DEF Retired, HostRow
    <3>4. hostRow'.cred = "revoked" /\ hostRow'.state = "stale"
      BY <1>1, <3>1 DEF Retired, HostRow
    <3> QED
      BY <1>1, <3>1, <3>2, <3>3, <3>4 DEF Exists
  <2> QED
    BY <1>1, <2>1, OnlyHost DEF FleetInv, RetiredIsStale, ReadyIsPlaceable, HostRow
<1> QED
  BY <1>2, <1>3, <1>4, <1>5, <1>6

LEMMA RotateInv ==
  ASSUME FleetInv, NEW c \in Callers, rotateCredentials(c)
  PROVE  FleetInv'
<1>1. /\ call' \in [Callers -> CallRecord]
      /\ \A o \in Callers : call'[o] = call[o] \/ call'[o].pc = "idle"
  BY CallEnds DEF rotateCredentials
<1>2. /\ hostRow' \in HostRow /\ hostRow'.gen = hostRow.gen + 1 /\ hostRow'.cred = "active"
      /\ hostRow'.state # "ready" /\ (hostRow'.desired = "quarantined" => hostRow'.state = "stale")
      /\ hostRow'.desired # "revoked" /\ Exists /\ Exists'
  <2> DEFINE desired == IF hostRow.desired = "quarantined" THEN hostRow.desired ELSE "draining"
             state == IF hostRow.desired = "quarantined" THEN "stale" ELSE "unhealthy"
  <2>1. /\ hostRow' = [hostRow EXCEPT !.desired = desired, !.state = state, !.gen = hostRow.gen + 1,
                                !.cred = "active", !.reported = FALSE]
        /\ Exists /\ hostRow \in HostRow
    BY DEF rotateCredentials, Becomes, FleetInv, FleetTypes, HostRow
  <2>2. desired \in {"quarantined", "draining"} /\ state \in {"stale", "unhealthy"}
        /\ (desired = "quarantined" => state = "stale")
    OBVIOUS
  <2> HIDE DEF desired, state
  <2>3. hostRow' \in HostRow
    <3> DEFINE row == [hostRow EXCEPT !.gen = hostRow.gen + 1]
    <3>1. row \in HostRow
      BY <2>1, NextGeneration
    <3>2. hostRow' = [row EXCEPT !.desired = desired, !.state = state, !.cred = "active",
                              !.reported = FALSE]
      BY <2>1 DEF HostRow
    <3> HIDE DEF row
    <3> QED
      BY <2>2, <3>1, <3>2 DEF HostRow
  <2>4. hostRow'.gen = hostRow.gen + 1 /\ hostRow'.cred = "active"
    BY <2>1 DEF HostRow
  <2>5. hostRow'.id = hostRow.id /\ hostRow'.desired = desired /\ hostRow'.state = state
    BY <2>1 DEF HostRow
  <2> QED
    BY <2>1, <2>2, <2>3, <2>4, <2>5 DEF Exists
<1>3. /\ UNCHANGED <<grant, bought>> /\ epoch' = epoch /\ epoch \in Nat /\ hostRow.gen \in Nat
      /\ NothingCrossesQuarantine'
  BY DEF rotateCredentials, Becomes, FleetInv, FleetTypes, HostRow, NothingCrossesQuarantine
<1> QED
  BY <1>1, <1>2, <1>3, OnlyHost DEF RetiredIsStale, ReadyIsPlaceable

LEMMA FleetNextInv == FleetAssumption /\ FleetInv /\ [FleetNext]_fleetVars => FleetInv'
<1> SUFFICES ASSUME FleetAssumption, FleetInv, [FleetNext]_fleetVars PROVE FleetInv'
  OBVIOUS
<1>1. CASE UNCHANGED fleetVars
  BY <1>1, OnlyCalls DEF fleetVars, FleetInv, FleetTypes
<1>2. CASE FleetNext
  BY <1>2, BeginInv, IssueInv, GrantEndsInv, RegisterInv, HeartbeatInv, HostStepInv, RotateInv
     DEF FleetNext
<1> QED
  BY <1>1, <1>2

\* Every invariant above holds in every reachable state.
THEOREM FleetInvariant == FleetAssumption /\ FleetSpec => []FleetInv
<1> SUFFICES ASSUME FleetAssumption PROVE FleetSpec => []FleetInv
  OBVIOUS
<1>1. FleetInit => FleetInv
  BY FleetInitInv
<1>2. FleetInv /\ [FleetNext]_fleetVars => FleetInv'
  BY FleetNextInv
<1> QED
  BY <1>1, <1>2, PTL DEF FleetSpec

-----------------------------------------------------------------------------

LEMMA OpenCountsOne == AtMostOneOpen => OneOpenGrant
<1> SUFFICES ASSUME AtMostOneOpen PROVE Cardinality({g \in Grants : Open(g)}) <= 1
  BY DEF OneOpenGrant
<1>1. CASE {g \in Grants : Open(g)} = {}
  BY <1>1, FS_EmptySet
<1>2. CASE {g \in Grants : Open(g)} # {}
  <2>1. PICK g \in Grants : Open(g)
    BY <1>2
  <2>2. {h \in Grants : Open(h)} = {g}
    BY <2>1 DEF AtMostOneOpen
  <2> QED
    <3>1. Cardinality({g}) = 1
      BY FS_Singleton
    <3> QED
      BY <2>2, <3>1
<1> QED
  BY <1>1, <1>2

\* A schedulable host is wanted and heard from, no heartbeat crosses a quarantine, a
\* grant buys one credential and a provider has one open grant, however registrations,
\* heartbeats, rotations and the operator interleave (domain/hosts.ts).
THEOREM FleetIsSafe == FleetAssumption /\ FleetSpec => []FleetSafe
<1> SUFFICES ASSUME FleetAssumption PROVE FleetSpec => []FleetSafe
  OBVIOUS
<1>1. FleetInv => FleetSafe
  <2> SUFFICES ASSUME FleetInv PROVE FleetSafe
    OBVIOUS
  <2>1. OneCredentialPerGrant
    BY DEF FleetInv, GrantsSpent, OneCredentialPerGrant
  <2> QED
    BY <2>1, OpenCountsOne DEF FleetInv, FleetSafe
<1> QED
  BY <1>1, FleetInvariant, PTL

\* A stale host is unhealthy before it is anything else, a revoked host is gone for
\* good, and a quarantined one stays stale until its credential was rotated
\* (heartbeat, register, activate, rotateCredentials).
THEOREM RetiredStaysAway ==
  FleetAssumption /\ FleetSpec => [][StaleIsNotRevived /\ NoReturnUnrotated]_fleetVars
<1> SUFFICES ASSUME FleetAssumption
             PROVE  FleetSpec => [][StaleIsNotRevived /\ NoReturnUnrotated]_fleetVars
  OBVIOUS
<1>1. FleetInv /\ FleetInv' /\ [FleetNext]_fleetVars => [StaleIsNotRevived /\ NoReturnUnrotated]_fleetVars
  <2> SUFFICES ASSUME FleetInv, FleetInv', FleetNext PROVE StaleIsNotRevived /\ NoReturnUnrotated
    OBVIOUS
  <2> USE DEF StaleIsNotRevived, NoReturnUnrotated
  <2>0. hostRow \in HostRow /\ RetiredIsStale /\ RetiredIsStale'
    BY DEF FleetInv, FleetTypes
  <2>1. CASE hostRow' = hostRow
    BY <2>0, <2>1 DEF RetiredIsStale
  <2>2. ASSUME NEW c \in Callers, register(c) PROVE StaleIsNotRevived /\ NoReturnUnrotated
    <3>1. CASE Exists
      <4>1. hostRow' = hostRow \/ (hostRow' = Reenrolled /\ hostRow.desired = "active")
        BY <2>2, <3>1 DEF register, MayReenroll
      <4> QED
        BY <2>0, <2>1, <4>1 DEF Reenrolled, HostRow
    <3>2. CASE ~Exists
      <4>1. hostRow.desired = "active" /\ (hostRow' = hostRow \/ hostRow'.state = "unhealthy")
        BY <2>0, <2>2, <3>2 DEF register, Enrolled, NoRow, RetiredIsStale
      <4> QED
        BY <4>1
    <3> QED
      BY <3>1, <3>2
  <2>3. ASSUME NEW c \in Callers, NEW state \in {"ready", "draining", "unhealthy"},
               heartbeat(c, state)
        PROVE  StaleIsNotRevived /\ NoReturnUnrotated
    BY <2>0, <2>1, <2>3 DEF heartbeat, Accepted, Serving, HostRow
  <2>4. ASSUME NEW c \in Callers, rotateCredentials(c)
        PROVE  StaleIsNotRevived /\ NoReturnUnrotated
    BY <2>0, <2>4 DEF rotateCredentials, Becomes, HostRow, RetiredIsStale
  <2>5. CASE HeartbeatAges \/ markStale
    BY <2>0, <2>5 DEF HeartbeatAges, markStale, HostRow, RetiredIsStale, Serving
  <2>6. CASE drain \/ activate
    BY <2>0, <2>6 DEF drain, activate, Becomes, HostRow, RetiredIsStale
  <2>7. CASE quarantine \/ revoke
    BY <2>0, <2>7 DEF quarantine, revoke, Becomes, Retired, HostRow, RetiredIsStale
  <2> QED
    BY <2>1, <2>2, <2>3, <2>4, <2>5, <2>6, <2>7 DEF FleetNext, IssueBegin, issueEnrollment,
       RegisterBegin, authenticateHost, RotateBegin, RequestFails, revokeEnrollment, GrantExpires
<1> QED
  BY <1>1, FleetInvariant, PTL DEF FleetSpec

-----------------------------------------------------------------------------
(* Templates: what is published, replicated and in use. *)

Pairs == Templates \X ArchHosts

PublishStages ==
  {"idle", "find", "export", "grant", "upload", "uploading", "stat", "insert", "discard",
   "published", "cleanup", "conflict", "failed", "crashed"}

RunStages == {"idle", "enqueue", "claim", "verify", "activate", "ready", "fail"}

TemplateTypes ==
  /\ tpl \in [Templates -> {"none", "live", "deleted"}]
  /\ version \in [Templates -> Versions \cup {None}]
  /\ pub \in [Templates -> [pc : PublishStages, exported : BOOLEAN]]
  /\ puts \subseteq [method : {"PUT"}, key : Templates]
  /\ objects \subseteq Templates
  /\ replica \in [Pairs -> {"none", "requested", "pulling", "ready", "failed"}]
  /\ installed \subseteq Pairs
  /\ repl \in [Replicators -> [pc : RunStages, t : Templates \cup {None}, h : ArchHosts \cup {None},
                               pairs : SUBSET Pairs]]
  /\ remover \in [Removers -> [pc : {"idle", "locked", "unused", "done"}, t : Templates \cup {None}]]
  /\ mach \in [Instances -> [state : {"none", "sharing", "requested", "starting", "running", "forking", "stopped"},
                             t : Templates \cup {None}, h : ArchHosts \cup {None},
                             src : Instances \cup {None}]]

\* A run that claimed a replica works on a pair, and once the host answered it is installed.
RunsInstall ==
  \A w \in Replicators :
    /\ repl[w].pc \in {"verify", "activate", "ready", "fail"} => Pair(w) \in Pairs
    /\ repl[w].pc = "ready" => Pair(w) \in installed

\* Before its insert a publish request has no row.
NoRowBefore ==
  \A t \in Templates :
    pub[t].pc \in {"idle", "find", "export", "grant", "upload", "uploading", "stat", "insert"} => tpl[t] = "none"

\* What a publish request has left in the store and the database, stage by stage, when no
\* answer is lost.
StageLeaves ==
  ~Outages =>
    \A t \in Templates :
      /\ pub[t].pc \notin {"uploading", "crashed"} => Grant("PUT", t) \notin puts
      /\ pub[t].pc \in {"stat", "insert", "discard", "published"} => t \in objects
      /\ pub[t].pc \in {"idle", "find", "export", "grant", "upload", "conflict", "failed"} => t \notin objects
      /\ pub[t].pc \in {"discard", "published"} => tpl[t] # "none"
      /\ pub[t].pc \in {"cleanup", "conflict", "failed"} => tpl[t] = "none"

\* A machine that is being created or alive names a template that is not deleted, which is
\* installed where the machine is; a child that is being forked has a running source.
MachinesKeep ==
  \A m \in Instances :
    /\ mach[m].state \in {"sharing", "requested", "starting", "running", "forking"} =>
         /\ mach[m].t \in Templates /\ tpl[mach[m].t] = "live"
         /\ mach[m].h # None => <<mach[m].t, mach[m].h>> \in installed
    /\ mach[m].state = "forking" =>
         /\ mach[m].src \in Instances /\ mach[mach[m].src].state = "running"
         /\ mach[mach[m].src].t = mach[m].t

\* A removal that holds the row has a template that was published and that no transaction
\* shares; once it found no machine, there is none.
RemovalsAlone ==
  \A r \in Removers :
    /\ remover[r].pc \in {"locked", "unused"} =>
         /\ remover[r].t \in Templates /\ tpl[remover[r].t] # "none"
         /\ \A m \in Instances : mach[m].t = remover[r].t => mach[m].state # "sharing"
    /\ remover[r].pc = "unused" =>
         \A m \in Instances : mach[m].t = remover[r].t =>
           mach[m].state \notin {"requested", "starting", "running", "forking"}

TemplatesInv ==
  /\ TemplateTypes /\ RunsInstall /\ NoRowBefore /\ StageLeaves /\ MachinesKeep /\ RemovalsAlone
  /\ ReadyIsInstalled /\ OneRowPerVersion

-----------------------------------------------------------------------------
(* What a step that leaves the relevant tables alone keeps. *)

LEMMA KeepsRuns ==
  ASSUME RunsInstall, repl' = repl, installed \subseteq installed'
  PROVE  RunsInstall'
BY DEF RunsInstall, Pair

LEMMA KeepsMachines ==
  ASSUME MachinesKeep, mach' = mach, installed \subseteq installed',
         \A t \in Templates : tpl[t] = "live" => tpl'[t] = "live"
  PROVE  MachinesKeep'
BY DEF MachinesKeep

LEMMA KeepsRemovals ==
  ASSUME RemovalsAlone, remover' = remover, mach' = mach,
         \A t \in Templates : tpl[t] # "none" => tpl'[t] # "none"
  PROVE  RemovalsAlone'
BY DEF RemovalsAlone

LEMMA KeepsReady ==
  ASSUME ReadyIsInstalled, installed \subseteq installed',
         \A t \in Templates : tpl[t] = "live" => tpl'[t] = "live",
         \A p \in Pairs : replica'[p] = "ready" => replica[p] = "ready"
  PROVE  ReadyIsInstalled'
BY DEF ReadyIsInstalled, Pairs

LEMMA KeepsStages ==
  ASSUME NoRowBefore, StageLeaves, UNCHANGED <<pub, tpl, puts, objects>>
  PROVE  NoRowBefore' /\ StageLeaves'
BY DEF NoRowBefore, StageLeaves

LEMMA KeepsVersions ==
  ASSUME OneRowPerVersion, UNCHANGED <<tpl, version>>
  PROVE  OneRowPerVersion'
BY DEF OneRowPerVersion, Taken

\* The request of template t is at stage x after the step, and no other moved.
StageIs(t, x) ==
  /\ pub' \in [Templates -> [pc : PublishStages, exported : BOOLEAN]] /\ pub'[t].pc = x
  /\ \A u \in Templates : u # t => pub'[u] = pub[u]

LEMMA MovesTo ==
  ASSUME TemplateTypes, NEW t \in Templates, NEW x \in PublishStages, Moves(t, x)
  PROVE  StageIs(t, x)
BY DEF TemplateTypes, Moves, StageIs

\* A step of a publish request that only moves on.
LEMMA PublisherMoves ==
  ASSUME TemplatesInv, NEW t \in Templates, NEW x \in PublishStages, StageIs(t, x), x # "idle",
         UNCHANGED <<tpl, version, objects, replica, installed, repl, remover, mach>>,
         puts' \subseteq [method : {"PUT"}, key : Templates],
         \A u \in Templates : Grant("PUT", u) \in puts' =>
           Grant("PUT", u) \in puts \/ (u = t /\ x = "uploading"),
         x \in {"find", "export", "grant", "upload", "uploading", "stat", "insert"} => tpl[t] = "none",
         ~Outages =>
           /\ x \notin {"uploading", "crashed"} => Grant("PUT", t) \notin puts
           /\ x \in {"stat", "insert", "discard", "published"} => t \in objects
           /\ x \in {"find", "export", "grant", "upload", "conflict", "failed"} => t \notin objects
           /\ x \in {"discard", "published"} => tpl[t] # "none"
           /\ x \in {"cleanup", "conflict", "failed"} => tpl[t] = "none"
  PROVE  TemplatesInv'
<1> USE DEF TemplatesInv, StageIs
<1>1. TemplateTypes'
  BY DEF TemplateTypes
<1>2. NoRowBefore'
  BY DEF NoRowBefore
<1>3. StageLeaves'
  BY DEF StageLeaves
<1> QED
  BY <1>1, <1>2, <1>3, KeepsRuns, KeepsMachines, KeepsRemovals, KeepsReady, KeepsVersions

-----------------------------------------------------------------------------
(* POST /v1/templates *)

\* The steps of a publish request between its calls to host and store.
LEMMA RequestSteps ==
  ASSUME TemplatesInv, NEW t \in Templates,
         \/ findVersion(t) \/ export(t) \/ exportUnanswered(t) \/ createUploadGrant(t) \/ upload(t)
         \/ uploadAnswered(t) \/ uploadUnanswered(t) \/ stat(t) \/ discard(t) \/ CrashPublisher(t)
  PROVE  TemplatesInv'
<1> USE DEF At, Fails
<1>0. TemplateTypes /\ NoRowBefore /\ StageLeaves
  BY DEF TemplatesInv
<1>a. pub[t].pc \in PublishStages /\ pub[t].exported \in BOOLEAN
  BY <1>0 DEF TemplateTypes
<1>b. puts \subseteq [method : {"PUT"}, key : Templates]
  BY <1>0 DEF TemplateTypes
<1>c. {"find", "export", "grant", "upload", "uploading", "stat", "insert", "discard",
       "published", "cleanup", "conflict", "failed", "crashed"} \subseteq PublishStages
  BY DEF PublishStages
<1>d. /\ pub[t].pc \in {"idle", "find", "export", "grant", "upload", "uploading", "stat", "insert"}
           => tpl[t] = "none"
      /\ ~Outages =>
           /\ pub[t].pc \notin {"uploading", "crashed"} => Grant("PUT", t) \notin puts
           /\ pub[t].pc \in {"stat", "insert", "discard", "published"} => t \in objects
           /\ pub[t].pc \in {"idle", "find", "export", "grant", "upload", "conflict", "failed"} => t \notin objects
           /\ pub[t].pc \in {"discard", "published"} => tpl[t] # "none"
           /\ pub[t].pc \in {"cleanup", "conflict", "failed"} => tpl[t] = "none"
  BY <1>0 DEF NoRowBefore, StageLeaves
<1>1. CASE findVersion(t)
  <2>1. \E x \in {"export", "failed"} : Moves(t, x)
    BY <1>1 DEF findVersion
  <2>2. PICK x \in {"export", "failed"} : Moves(t, x)
    BY <2>1
  <2>3. x \in PublishStages /\ StageIs(t, x)
    BY <1>0, <1>c, <2>2, MovesTo
  <2> QED
    BY <1>1, <1>b, <1>d, <2>2, <2>3, PublisherMoves DEF findVersion, replVars
<1>2. CASE export(t) \/ exportUnanswered(t)
  <2>1. \E x \in {"grant", "cleanup"} : StageIs(t, x)
    <3>1. CASE pub' = [pub EXCEPT ![t] = [pc |-> "grant", exported |-> TRUE]]
      BY <1>0, <1>c, <3>1 DEF StageIs, TemplateTypes
    <3>2. CASE Moves(t, "cleanup")
      BY <1>0, <1>c, <3>2, MovesTo
    <3> QED
      BY <1>2, <3>1, <3>2 DEF export, exportUnanswered
  <2>2. PICK x \in {"grant", "cleanup"} : StageIs(t, x)
    BY <2>1
  <2> QED
    BY <1>2, <1>b, <1>c, <1>d, <2>2, PublisherMoves DEF export, exportUnanswered, replVars
<1>3. CASE createUploadGrant(t)
  <2>1. \E x \in {"upload", "cleanup"} : Moves(t, x)
    BY <1>3 DEF createUploadGrant
  <2>2. PICK x \in {"upload", "cleanup"} : Moves(t, x)
    BY <2>1
  <2>3. x \in PublishStages /\ StageIs(t, x)
    BY <1>0, <1>c, <2>2, MovesTo
  <2> QED
    BY <1>3, <1>b, <1>d, <2>2, <2>3, PublisherMoves DEF createUploadGrant, replVars
<1>4. CASE upload(t)
  <2>1. CASE Fails(t) /\ UNCHANGED puts
    <3>1. StageIs(t, "cleanup")
      BY <1>0, <1>c, <2>1, MovesTo
    <3> QED
      BY <1>4, <1>b, <1>c, <1>d, <2>1, <3>1, PublisherMoves DEF upload, replVars
  <2>2. CASE StartsPut(Grant("PUT", t), t) /\ Moves(t, "uploading")
    <3>1. StageIs(t, "uploading")
      BY <1>0, <1>c, <2>2, MovesTo
    <3>2. /\ puts' \subseteq [method : {"PUT"}, key : Templates]
          /\ \A u \in Templates : Grant("PUT", u) \in puts' => Grant("PUT", u) \in puts \/ u = t
      BY <1>b, <2>2 DEF StartsPut, Grant
    <3> QED
      BY <1>4, <1>c, <1>d, <3>1, <3>2, PublisherMoves DEF upload, replVars
  <2> QED
    BY <1>4, <2>1, <2>2 DEF upload
<1>5. CASE uploadAnswered(t)
  <2>1. CASE t \in objects
    <3>1. StageIs(t, "stat")
      BY <1>0, <1>5, <1>c, <2>1, MovesTo DEF uploadAnswered
    <3> QED
      BY <1>5, <1>b, <1>c, <1>d, <2>1, <3>1, PublisherMoves DEF uploadAnswered, replVars
  <2>2. CASE t \notin objects
    <3>1. StageIs(t, "cleanup")
      BY <1>0, <1>5, <1>c, <2>2, MovesTo DEF uploadAnswered
    <3> QED
      BY <1>5, <1>b, <1>c, <1>d, <2>2, <3>1, PublisherMoves DEF uploadAnswered, replVars
  <2> QED
    BY <2>1, <2>2
<1>6. CASE uploadUnanswered(t)
  <2>1. StageIs(t, "cleanup")
    BY <1>0, <1>6, <1>c, MovesTo DEF uploadUnanswered
  <2> QED
    BY <1>6, <1>b, <1>c, <1>d, <2>1, PublisherMoves DEF uploadUnanswered, replVars
<1>7. CASE stat(t)
  <2>1. \E x \in {"insert", "cleanup"} : Moves(t, x)
    BY <1>7 DEF stat
  <2>2. PICK x \in {"insert", "cleanup"} : Moves(t, x)
    BY <2>1
  <2>3. x \in PublishStages /\ StageIs(t, x)
    BY <1>0, <1>c, <2>2, MovesTo
  <2> QED
    BY <1>7, <1>b, <1>d, <2>2, <2>3, PublisherMoves DEF stat, replVars
<1>8. CASE discard(t)
  <2>1. CASE pub[t].pc = "discard"
    <3>1. StageIs(t, "published")
      BY <1>0, <1>8, <1>c, <2>1, MovesTo DEF discard
    <3> QED
      BY <1>8, <1>b, <1>c, <1>d, <2>1, <3>1, PublisherMoves DEF discard, replVars
  <2>2. CASE pub[t].pc = "conflict"
    <3>1. StageIs(t, "failed")
      BY <1>0, <1>8, <1>c, <2>2, MovesTo DEF discard
    <3> QED
      BY <1>8, <1>b, <1>c, <1>d, <2>2, <3>1, PublisherMoves DEF discard, replVars
  <2> QED
    BY <1>8, <2>1, <2>2 DEF discard
<1>9. CASE CrashPublisher(t)
  <2>1. StageIs(t, "crashed")
    BY <1>0, <1>9, <1>c, MovesTo DEF CrashPublisher
  <2> QED
    BY <1>9, <1>b, <1>c, <1>d, <2>1, PublisherMoves DEF CrashPublisher, replVars
<1> QED
  BY <1>1, <1>2, <1>3, <1>4, <1>5, <1>6, <1>7, <1>8, <1>9

LEMMA PostStep ==
  ASSUME TemplatesInv, NEW t \in Templates, postTemplate(t)
  PROVE  TemplatesInv'
<1> USE DEF TemplatesInv, At
<1>1. StageIs(t, "find")
  BY MovesTo DEF postTemplate, PublishStages
<1>2. /\ version' \in [Templates -> Versions \cup {None}]
      /\ \A u \in Templates : u # t => version'[u] = version[u]
  BY DEF TemplateTypes, postTemplate
<1>3. tpl[t] = "none"
  BY DEF NoRowBefore, postTemplate
<1>4. TemplateTypes'
  BY <1>1, <1>2 DEF TemplateTypes, postTemplate, StageIs, replVars
<1>5. NoRowBefore'
  BY <1>1, <1>3 DEF NoRowBefore, postTemplate, StageIs
<1>6. StageLeaves'
  BY <1>1 DEF StageLeaves, postTemplate, StageIs
<1>7. OneRowPerVersion'
  BY <1>2, <1>3 DEF OneRowPerVersion, Taken, postTemplate
<1> QED
  BY <1>4, <1>5, <1>6, <1>7, KeepsRuns, KeepsMachines, KeepsRemovals, KeepsReady DEF postTemplate, replVars

\* The row appears, with a replica for every host, and the request goes on to x.
LEMMA RowInserted ==
  ASSUME TemplatesInv, NEW t \in Templates, NEW x \in {"discard", "cleanup"}, StageIs(t, x),
         pub[t].pc = "insert", ~Taken(t), Inserts(t), Outages \/ x = "discard",
         UNCHANGED <<version, puts, objects, installed, repl, remover, mach>>
  PROVE  TemplatesInv'
<1> USE DEF TemplatesInv
<1>1. tpl[t] = "none"
  BY DEF NoRowBefore
<1>2. /\ tpl' \in [Templates -> {"none", "live", "deleted"}] /\ tpl'[t] = "live"
      /\ \A u \in Templates : u # t => tpl'[u] = tpl[u]
  BY DEF TemplateTypes, Inserts
<1>3. /\ replica' \in [Pairs -> {"none", "requested", "pulling", "ready", "failed"}]
      /\ \A p \in Pairs : replica'[p] = "ready" => replica[p] = "ready"
  BY DEF TemplateTypes, Inserts, Pairs
<1>4. TemplateTypes'
  BY <1>2, <1>3 DEF TemplateTypes, StageIs
<1>5. NoRowBefore'
  BY <1>2 DEF NoRowBefore, StageIs
<1>6. StageLeaves'
  BY <1>2 DEF StageLeaves, StageIs
<1>7. OneRowPerVersion'
  BY <1>2 DEF OneRowPerVersion, Taken
<1>8. MachinesKeep' /\ RemovalsAlone' /\ ReadyIsInstalled'
  BY <1>2, <1>3, KeepsMachines, KeepsRemovals, KeepsReady
<1> QED
  BY <1>4, <1>5, <1>6, <1>7, <1>8, KeepsRuns

LEMMA InsertSteps ==
  ASSUME TemplatesInv, NEW t \in Templates, insert(t) \/ insertUnanswered(t)
  PROVE  TemplatesInv'
<1> USE DEF At, Fails
<1>0. TemplateTypes
  BY DEF TemplatesInv
<1>1. CASE insert(t) /\ Moves(t, "discard") /\ ~Taken(t) /\ Inserts(t)
  <2>1. StageIs(t, "discard")
    BY <1>0, <1>1, MovesTo DEF PublishStages
  <2> QED
    BY <1>1, <2>1, RowInserted DEF insert, replVars
<1>2. CASE insert(t) /\ Moves(t, "cleanup") /\ UNCHANGED <<tpl, replica>>
  <2>1. StageIs(t, "cleanup")
    BY <1>0, <1>2, MovesTo DEF PublishStages
  <2>2. tpl[t] = "none" /\ (~Outages => Grant("PUT", t) \notin puts)
    BY <1>2 DEF insert, TemplatesInv, NoRowBefore, StageLeaves
  <2>3. puts \subseteq [method : {"PUT"}, key : Templates]
    BY <1>0 DEF TemplateTypes
  <2> QED
    BY <1>2, <2>1, <2>2, <2>3, PublisherMoves DEF insert, replVars, PublishStages
<1>3. CASE insertUnanswered(t)
  <2>1. StageIs(t, "cleanup")
    BY <1>0, <1>3, MovesTo DEF PublishStages, insertUnanswered
  <2> QED
    BY <1>3, <2>1, RowInserted DEF insertUnanswered, replVars
<1> QED
  BY <1>1, <1>2, <1>3 DEF insert

LEMMA DeleteObjectStep ==
  ASSUME TemplatesInv, NEW t \in Templates, deleteObject(t)
  PROVE  TemplatesInv'
<1> USE DEF TemplatesInv, At
<1>1. PICK x \in {"conflict", "failed"} : Moves(t, x)
  BY DEF deleteObject
<1>2. StageIs(t, x)
  BY <1>1, MovesTo DEF PublishStages
<1>3. /\ objects' \subseteq objects /\ \A u \in objects : u # t => u \in objects'
      /\ ~Outages => t \notin objects'
  BY DEF deleteObject, Deletes
<1>4. TemplateTypes'
  BY <1>2, <1>3 DEF TemplateTypes, deleteObject, StageIs, replVars
<1>5. NoRowBefore'
  BY <1>2 DEF NoRowBefore, StageIs, deleteObject
<1>6. StageLeaves'
  BY <1>2, <1>3 DEF StageLeaves, StageIs, deleteObject
<1> QED
  BY <1>4, <1>5, <1>6, KeepsRuns, KeepsMachines, KeepsRemovals, KeepsReady, KeepsVersions DEF deleteObject, replVars

LEMMA CleanupStep ==
  ASSUME TemplatesInv, NEW t \in Templates, cleanupTemplateExports(t)
  PROVE  TemplatesInv'
<1>1. TemplateTypes'
  BY DEF TemplatesInv, TemplateTypes, cleanupTemplateExports, replVars
<1> QED
  BY <1>1, KeepsRuns, KeepsMachines, KeepsRemovals, KeepsReady, KeepsVersions, KeepsStages
     DEF TemplatesInv, cleanupTemplateExports, replVars

\* A capability that lands or fails belongs to a request that uploads or died.
LEMMA PutSteps ==
  ASSUME TemplatesInv, NEW g \in puts, Put(g)
  PROVE  TemplatesInv'
<1> USE DEF TemplatesInv
<1>1. g.key \in Templates /\ g = Grant("PUT", g.key)
  BY DEF TemplateTypes, Grant
<1>2. ~Outages => pub[g.key].pc \in {"uploading", "crashed"}
  BY <1>1 DEF StageLeaves
<1>3. puts' \subseteq puts /\ objects \subseteq objects' /\ objects' \subseteq objects \cup {g.key}
  BY DEF Put, putLands, putFails
<1>4. TemplateTypes'
  BY <1>1, <1>3 DEF TemplateTypes, Put, putLands, putFails, replVars
<1>5. NoRowBefore'
  BY DEF NoRowBefore, Put, putLands, putFails
<1>6. UNCHANGED <<pub, tpl>>
  BY DEF Put, putLands, putFails
<1>7. StageLeaves'
  BY <1>1, <1>2, <1>3, <1>6 DEF StageLeaves
<1> QED
  BY <1>4, <1>5, <1>7, KeepsRuns, KeepsMachines, KeepsRemovals, KeepsReady, KeepsVersions
     DEF Put, putLands, putFails, replVars

LEMMA PublishSteps ==
  ASSUME TemplatesInv, NEW t \in Templates, Publish(t)
  PROVE  TemplatesInv'
BY RequestSteps, PostStep, InsertSteps, DeleteObjectStep, CleanupStep DEF Publish

-----------------------------------------------------------------------------
(* DELETE /v1/templates/:id *)

LEMMA LockSteps ==
  ASSUME TemplatesInv, NEW r \in Removers,
         activeMachines(r) \/ \E t \in Templates : lockTemplate(r, t)
  PROVE  TemplatesInv'
<1> USE DEF TemplatesInv
<1>1. UNCHANGED <<tpl, version, pub, puts, objects, replica, installed, repl, mach>>
  BY DEF activeMachines, lockTemplate, pubVars, replVars
<1>2. CASE activeMachines(r)
  <2>1. /\ remover' \in [Removers -> [pc : {"idle", "locked", "unused", "done"}, t : Templates \cup {None}]]
        /\ \A s \in Removers : s # r => remover'[s] = remover[s]
        /\ remover'[r].t = remover[r].t /\ remover'[r].pc \in {"done", "unused"}
    BY <1>2 DEF TemplateTypes, activeMachines
  <2>2. remover'[r].pc = "unused" => \A m \in Instances : ~Uses(m, remover[r].t)
    BY <1>2 DEF TemplateTypes, activeMachines
  <2>3. TemplateTypes'
    BY <1>1, <2>1 DEF TemplateTypes
  <2>4. remover'[r].pc = "unused" =>
          \A m \in Instances : mach[m].t = remover[r].t =>
            mach[m].state \notin {"requested", "starting", "running", "forking"}
    <3>1. SUFFICES ASSUME remover'[r].pc = "unused", NEW m \in Instances, mach[m].t = remover[r].t
                   PROVE  mach[m].state \notin {"requested", "starting", "running", "forking"}
      OBVIOUS
    <3>2. ~Uses(m, remover[r].t) /\ (~Uses(mach[m].src, remover[r].t) \/ mach[m].src \notin Instances)
      BY <2>2, <3>1
    <3> QED
      BY <2>2, <3>1, <3>2 DEF MachinesKeep, Uses
  <2>5. RemovalsAlone'
    BY <1>1, <1>2, <2>1, <2>4 DEF RemovalsAlone, activeMachines
  <2> QED
    BY <1>1, <2>3, <2>5, KeepsRuns, KeepsMachines, KeepsReady, KeepsVersions, KeepsStages
<1>3. CASE \E t \in Templates : lockTemplate(r, t)
  <2>1. PICK t \in Templates : lockTemplate(r, t)
    BY <1>3
  <2>2. /\ remover' \in [Removers -> [pc : {"idle", "locked", "unused", "done"}, t : Templates \cup {None}]]
        /\ \A s \in Removers : s # r => remover'[s] = remover[s]
        /\ remover'[r].t = t /\ remover'[r].pc = "locked"
    BY <2>1 DEF TemplateTypes, lockTemplate
  <2>3. TemplateTypes'
    BY <1>1, <2>2 DEF TemplateTypes
  <2>4. RemovalsAlone'
    BY <1>1, <2>1, <2>2 DEF RemovalsAlone, lockTemplate, Shared
  <2> QED
    BY <1>1, <2>3, <2>4, KeepsRuns, KeepsMachines, KeepsReady, KeepsVersions, KeepsStages
<1> QED
  BY <1>2, <1>3

\* The template goes with its replicas, and no machine has it.
LEMMA RemoveStep ==
  ASSUME TemplatesInv, NEW r \in Removers, remove(r)
  PROVE  TemplatesInv'
<1> USE DEF TemplatesInv
<1> DEFINE t == remover[r].t
<1>1. t \in Templates /\ tpl[t] # "none"
  BY DEF RemovalsAlone, remove
<1>2. /\ tpl' \in [Templates -> {"none", "live", "deleted"}] /\ tpl'[t] = "deleted"
      /\ \A u \in Templates : u # t => tpl'[u] = tpl[u]
  BY <1>1 DEF TemplateTypes, remove, SoftDelete
<1>3. /\ replica' \in [Pairs -> {"none", "requested", "pulling", "ready", "failed"}]
      /\ \A p \in Pairs : replica'[p] = "ready" => replica[p] = "ready" /\ p[1] # t
  BY DEF TemplateTypes, remove, Pairs
<1>4. /\ remover' \in [Removers -> [pc : {"idle", "locked", "unused", "done"}, t : Templates \cup {None}]]
      /\ \A s \in Removers : s # r => remover'[s] = remover[s]
      /\ remover'[r].pc = "done"
  BY DEF TemplateTypes, remove
<1>5. UNCHANGED <<version, pub, puts, objects, installed, repl, mach>>
  BY DEF remove, pubVars, replVars
<1>6. \A m \in Instances : mach[m].t = t =>
        mach[m].state \notin {"sharing", "requested", "starting", "running", "forking"}
  BY DEF RemovalsAlone, remove
<1> HIDE DEF t
<1>7. TemplateTypes'
  BY <1>2, <1>3, <1>4, <1>5 DEF TemplateTypes
<1>8. NoRowBefore'
  BY <1>1, <1>2, <1>5 DEF NoRowBefore
<1>9. StageLeaves'
  BY <1>1, <1>2, <1>5 DEF StageLeaves
<1>10. MachinesKeep'
  BY <1>2, <1>5, <1>6 DEF MachinesKeep
<1>11. RemovalsAlone'
  BY <1>1, <1>2, <1>4, <1>5 DEF RemovalsAlone
<1>12. ReadyIsInstalled'
  BY <1>2, <1>3, <1>5 DEF ReadyIsInstalled, Pairs
<1>13. OneRowPerVersion'
  BY <1>1, <1>2, <1>5 DEF OneRowPerVersion, Taken
<1> QED
  BY <1>5, <1>7, <1>8, <1>9, <1>10, <1>11, <1>12, <1>13, KeepsRuns

-----------------------------------------------------------------------------
(* Machines of a template *)

MachineRow ==
  [state : {"none", "sharing", "requested", "starting", "running", "forking", "stopped"},
   t : Templates \cup {None}, h : ArchHosts \cup {None}, src : Instances \cup {None}]

\* The step changes the row of machine m only.
OnlyRow(m) ==
  mach' \in [Instances -> MachineRow] /\ \A c \in Instances : c # m => mach'[c] = mach[c]

\* A step on the row of one machine.
LEMMA MachineMoves ==
  ASSUME TemplatesInv, NEW m \in Instances, OnlyRow(m),
         UNCHANGED <<tpl, pubVars, objects, replica, replVars, remover>>,
         mach'[m].state \in {"sharing", "requested", "starting", "running", "forking"} =>
           /\ mach'[m].t \in Templates /\ tpl[mach'[m].t] = "live"
           /\ mach'[m].h # None => <<mach'[m].t, mach'[m].h>> \in installed,
         mach'[m].state = "forking" =>
           /\ mach'[m].src \in Instances /\ mach'[m].src # m
           /\ mach[mach'[m].src].state = "running" /\ mach[mach'[m].src].t = mach'[m].t,
         mach[m].state = "running" =>
           \A c \in Instances : c # m /\ mach[c].state = "forking" => mach[c].src # m,
         \A r \in Removers : remover[r].t = mach'[m].t =>
           /\ remover[r].pc \in {"locked", "unused"} => mach'[m].state # "sharing"
           /\ remover[r].pc = "unused" =>
                mach'[m].state \notin {"requested", "starting", "running", "forking"}
  PROVE  TemplatesInv'
<1> USE DEF TemplatesInv, OnlyRow
<1>1. TemplateTypes'
  BY DEF TemplateTypes, MachineRow, pubVars, replVars
<1>2. MachinesKeep'
  BY DEF MachinesKeep, replVars
<1>3. RemovalsAlone'
  BY DEF RemovalsAlone
<1> QED
  BY <1>1, <1>2, <1>3, KeepsRuns, KeepsReady, KeepsVersions, KeepsStages DEF pubVars, replVars

LEMMA MachineSteps ==
  ASSUME TemplatesInv, NEW m \in Instances, Machine(m)
  PROVE  TemplatesInv'
<1>0. mach \in [Instances -> MachineRow] /\ MachinesKeep /\ RemovalsAlone /\ ReadyIsInstalled
  BY DEF TemplatesInv, TemplateTypes, MachineRow
<1>a. \A c \in Instances : mach[c].state = "forking" =>
        /\ mach[c].src \in Instances /\ mach[mach[c].src].state = "running"
        /\ mach[mach[c].src].t = mach[c].t
  BY <1>0 DEF MachinesKeep
<1>b. \A c \in Instances : mach[c].state \in {"sharing", "requested", "starting", "running", "forking"} =>
        /\ mach[c].t \in Templates /\ tpl[mach[c].t] = "live"
        /\ mach[c].h # None => <<mach[c].t, mach[c].h>> \in installed
  BY <1>0 DEF MachinesKeep
<1>c. \A r \in Removers, c \in Instances : remover[r].t = mach[c].t =>
        /\ remover[r].pc \in {"locked", "unused"} => mach[c].state # "sharing"
        /\ remover[r].pc = "unused" => mach[c].state \notin {"requested", "starting", "running", "forking"}
  BY <1>0 DEF RemovalsAlone
<1>1. CASE \E t \in Templates : shareTemplate(m, t)
  <2>1. PICK t \in Templates : shareTemplate(m, t)
    BY <1>1
  <2>2. OnlyRow(m) /\ mach'[m].state = "sharing" /\ mach'[m].t = t /\ mach'[m].h = None
    BY <1>0, <2>1 DEF shareTemplate, OnlyRow, MachineRow, NoMachine
  <2>3. \A r \in Removers : remover[r].t = t => remover[r].pc \notin {"locked", "unused"}
    BY <2>1 DEF shareTemplate, Locked
  <2> QED
    BY <2>1, <2>2, <2>3, MachineMoves DEF shareTemplate
<1>2. CASE insertRequested(m)
  <2>1. OnlyRow(m) /\ mach'[m].state = "requested" /\ mach'[m].t = mach[m].t /\ mach'[m].h = mach[m].h
    BY <1>0, <1>2 DEF insertRequested, OnlyRow, MachineRow
  <2>2. mach[m].state = "sharing"
    BY <1>2 DEF insertRequested
  <2> QED
    BY <1>2, <1>b, <1>c, <2>1, <2>2, MachineMoves DEF insertRequested
<1>3. CASE \E h \in ArchHosts : reserve(m, h)
  <2>1. PICK h \in ArchHosts : reserve(m, h)
    BY <1>3
  <2>2. OnlyRow(m) /\ mach'[m].state = "starting" /\ mach'[m].t = mach[m].t /\ mach'[m].h = h
    BY <1>0, <2>1 DEF reserve, OnlyRow, MachineRow
  <2>3. mach[m].t \in Templates /\ tpl[mach[m].t] = "live" /\ mach[m].state = "requested"
    BY <1>b, <2>1 DEF reserve
  <2>4. <<mach[m].t, h>> \in installed
    BY <1>0, <2>1, <2>3 DEF reserve, ReadyIsInstalled
  <2> QED
    BY <1>c, <2>1, <2>2, <2>3, <2>4, MachineMoves DEF reserve
<1>4. CASE run(m)
  <2>1. OnlyRow(m) /\ mach'[m].state = "running" /\ mach'[m].t = mach[m].t /\ mach'[m].h = mach[m].h
    BY <1>0, <1>4 DEF run, OnlyRow, MachineRow
  <2>2. mach[m].state = "starting"
    BY <1>4 DEF run
  <2> QED
    BY <1>4, <1>b, <1>c, <2>1, <2>2, MachineMoves DEF run
<1>5. CASE \E c \in Instances : lockSource(m, c)
  <2>1. PICK c \in Instances : lockSource(m, c)
    BY <1>5
  <2>2. /\ OnlyRow(c) /\ mach'[c].state = "forking" /\ mach'[c].src = m
        /\ mach'[c].t = mach[m].t /\ mach'[c].h = mach[m].h
    BY <1>0, <2>1 DEF lockSource, OnlyRow, MachineRow
  <2>3. mach[c].state = "none" /\ mach[m].state = "running" /\ c # m
    BY <2>1 DEF lockSource
  <2> QED
    BY <1>b, <1>c, <2>1, <2>2, <2>3, MachineMoves DEF lockSource
<1>6. CASE insertChild(m)
  <2>1. OnlyRow(m) /\ mach'[m].state = "starting" /\ mach'[m].t = mach[m].t /\ mach'[m].h = mach[m].h
    BY <1>0, <1>6 DEF insertChild, OnlyRow, MachineRow
  <2>2. mach[m].state = "forking"
    BY <1>6 DEF insertChild
  <2> QED
    BY <1>6, <1>b, <1>c, <2>1, <2>2, MachineMoves DEF insertChild
<1>7. CASE stop(m)
  <2>1. OnlyRow(m) /\ mach'[m].state = "stopped"
    BY <1>0, <1>7 DEF stop, OnlyRow, MachineRow
  <2>2. \A c \in Instances : mach[c].state = "forking" => mach[c].src # m
    BY <1>7 DEF stop
  <2> QED
    BY <1>7, <2>1, <2>2, MachineMoves DEF stop
<1> QED
  BY <1>1, <1>2, <1>3, <1>4, <1>5, <1>6, <1>7 DEF Machine

-----------------------------------------------------------------------------
(* TemplateReplicationJob *)

RunRow == [pc : RunStages, t : Templates \cup {None}, h : ArchHosts \cup {None}, pairs : SUBSET Pairs]

\* The step changes what run w remembers only.
OnlyRun(w) ==
  repl' \in [Replicators -> RunRow] /\ \A v \in Replicators : v # w => repl'[v] = repl[v]

\* A step of a run, which makes a replica ready only when its template is live and the
\* host has it.
LEMMA RunMoves ==
  ASSUME TemplatesInv, NEW w \in Replicators, OnlyRun(w),
         repl'[w].pc \in {"verify", "activate", "ready", "fail"} => <<repl'[w].t, repl'[w].h>> \in Pairs,
         repl'[w].pc = "ready" => <<repl'[w].t, repl'[w].h>> \in installed',
         UNCHANGED <<tpl, pubVars, objects, remover, mach>>,
         installed \subseteq installed', installed' \subseteq Pairs,
         replica' \in [Pairs -> {"none", "requested", "pulling", "ready", "failed"}],
         \A p \in Pairs : replica'[p] = "ready" =>
           replica[p] = "ready" \/ (tpl[p[1]] = "live" /\ p \in installed)
  PROVE  TemplatesInv'
<1> USE DEF TemplatesInv, OnlyRun
<1>1. TemplateTypes'
  BY DEF TemplateTypes, RunRow, pubVars
<1>2. RunsInstall'
  BY DEF RunsInstall, Pair
<1>3. ReadyIsInstalled'
  BY DEF ReadyIsInstalled, Pairs
<1> QED
  BY <1>1, <1>2, <1>3, KeepsMachines, KeepsRemovals, KeepsVersions, KeepsStages DEF pubVars

LEMMA RunSteps ==
  ASSUME TemplatesInv, NEW w \in Replicators, runOnce(w) \/ CrashWorker(w)
  PROVE  TemplatesInv'
<1>0. /\ repl \in [Replicators -> RunRow] /\ installed \subseteq Pairs
      /\ replica \in [Pairs -> {"none", "requested", "pulling", "ready", "failed"}]
  BY DEF TemplatesInv, TemplateTypes, RunRow
<1>a. /\ repl[w].pc \in {"verify", "activate", "ready", "fail"} => Pair(w) \in Pairs
      /\ repl[w].pc = "ready" => Pair(w) \in installed
  BY DEF TemplatesInv, RunsInstall
<1>b. NoRun \in RunRow /\ NoRun.pc = "idle"
  BY DEF NoRun, RunRow, RunStages
<1>1. CASE enqueueMissing(w)
  <2>1. OnlyRun(w) /\ repl'[w].pc = "enqueue"
    BY <1>0, <1>1 DEF enqueueMissing, OnlyRun, RunRow, RunStages, NoRun, Pairs
  <2> QED
    BY <1>0, <1>1, <2>1, RunMoves DEF enqueueMissing
<1>2. CASE enqueueCommits(w)
  <2>1. OnlyRun(w) /\ repl'[w].pc = "claim"
    BY <1>0, <1>2 DEF enqueueCommits, OnlyRun, RunRow, RunStages, NoRun
  <2>2. /\ replica' \in [Pairs -> {"none", "requested", "pulling", "ready", "failed"}]
        /\ \A p \in Pairs : replica'[p] = "ready" => replica[p] = "ready"
    BY <1>0, <1>2 DEF enqueueCommits, Pairs
  <2> QED
    BY <1>0, <1>2, <2>1, <2>2, RunMoves DEF enqueueCommits
<1>3. CASE claim(w)
  <2>1. CASE repl' = [repl EXCEPT ![w] = NoRun] /\ UNCHANGED <<replica, aged>>
    <3>1. OnlyRun(w) /\ repl'[w].pc = "idle"
      BY <1>0, <1>b, <2>1 DEF OnlyRun
    <3> QED
      BY <1>0, <1>3, <2>1, <3>1, RunMoves DEF claim
  <2>2. CASE \E p \in Claimable : ClaimsPair(w, p)
    <3>1. PICK p \in Pairs : ClaimsPair(w, p)
      BY <2>2 DEF Claimable, Pairs
    <3>2. p[1] \in Templates /\ p[2] \in ArchHosts /\ <<p[1], p[2]>> \in Pairs
      BY DEF Pairs
    <3>3. OnlyRun(w) /\ repl'[w].pc = "verify" /\ repl'[w].t = p[1] /\ repl'[w].h = p[2]
      BY <1>0, <3>1, <3>2 DEF ClaimsPair, OnlyRun, RunRow, RunStages
    <3>4. /\ replica' \in [Pairs -> {"none", "requested", "pulling", "ready", "failed"}]
          /\ \A q \in Pairs : replica'[q] = "ready" => replica[q] = "ready"
      BY <1>0, <3>1 DEF ClaimsPair
    <3> QED
      BY <1>0, <1>3, <3>2, <3>3, <3>4, RunMoves DEF claim
  <2> QED
    BY <1>3, <2>1, <2>2 DEF claim
<1>4. CASE verifyStored(w)
  <2>1. /\ OnlyRun(w) /\ repl'[w].pc \in {"activate", "fail"}
        /\ repl'[w].t = repl[w].t /\ repl'[w].h = repl[w].h
    BY <1>0, <1>4 DEF verifyStored, RunGoes, OnlyRun, RunRow, RunStages
  <2>2. <<repl[w].t, repl[w].h>> \in Pairs
    BY <1>4, <1>a DEF verifyStored, Pair
  <2> QED
    BY <1>0, <1>4, <2>1, <2>2, RunMoves DEF verifyStored
<1>5. CASE activateReplica(w) \/ activateFails(w)
  <2>1. /\ OnlyRun(w) /\ repl'[w].pc \in {"ready", "fail"}
        /\ repl'[w].t = repl[w].t /\ repl'[w].h = repl[w].h
    BY <1>0, <1>5 DEF activateReplica, activateFails, RunGoes, OnlyRun, RunRow, RunStages
  <2>2. <<repl[w].t, repl[w].h>> \in Pairs
    BY <1>5, <1>a DEF activateReplica, activateFails, Pair
  <2>3. /\ installed \subseteq installed' /\ installed' \subseteq Pairs
        /\ repl'[w].pc = "ready" => <<repl[w].t, repl[w].h>> \in installed'
    BY <1>0, <1>5, <2>2 DEF activateReplica, activateFails, Installs, RunGoes, RunRow
  <2> QED
    BY <1>0, <1>5, <2>1, <2>2, <2>3, RunMoves DEF activateReplica, activateFails
<1>6. CASE markReady(w)
  <2>1. CASE replica[Pair(w)] = "pulling" /\ tpl[repl[w].t] = "live"
    <3>1. OnlyRun(w) /\ repl'[w].pc = "idle"
      BY <1>0, <1>6, <1>b, <2>1 DEF markReady, OnlyRun
    <3>2. Pair(w) \in installed /\ Pair(w) \in Pairs /\ Pair(w)[1] = repl[w].t
      BY <1>6, <1>a DEF markReady, Pair
    <3>3. /\ replica' \in [Pairs -> {"none", "requested", "pulling", "ready", "failed"}]
          /\ \A p \in Pairs : replica'[p] = "ready" => replica[p] = "ready" \/ p = Pair(w)
      BY <1>0, <1>6, <2>1 DEF markReady
    <3> QED
      BY <1>0, <1>6, <2>1, <3>1, <3>2, <3>3, RunMoves DEF markReady
  <2>2. CASE ~(replica[Pair(w)] = "pulling" /\ tpl[repl[w].t] = "live")
    <3>1. /\ OnlyRun(w) /\ repl'[w].pc = "fail"
          /\ repl'[w].t = repl[w].t /\ repl'[w].h = repl[w].h
      BY <1>0, <1>6, <2>2 DEF markReady, RunGoes, OnlyRun, RunRow, RunStages
    <3>2. <<repl[w].t, repl[w].h>> \in Pairs
      BY <1>6, <1>a DEF markReady, Pair
    <3> QED
      BY <1>0, <1>6, <2>2, <3>1, <3>2, RunMoves DEF markReady
  <2> QED
    BY <2>1, <2>2
<1>7. CASE markFailed(w)
  <2>1. OnlyRun(w) /\ repl'[w].pc = "idle"
    BY <1>0, <1>7, <1>b DEF markFailed, OnlyRun
  <2>2. /\ replica' \in [Pairs -> {"none", "requested", "pulling", "ready", "failed"}]
        /\ \A p \in Pairs : replica'[p] = "ready" => replica[p] = "ready"
    BY <1>0, <1>7 DEF markFailed
  <2> QED
    BY <1>0, <1>7, <2>1, <2>2, RunMoves DEF markFailed
<1>8. CASE CrashWorker(w)
  <2>1. OnlyRun(w) /\ repl'[w].pc = "idle"
    BY <1>0, <1>8, <1>b DEF CrashWorker, OnlyRun
  <2> QED
    BY <1>0, <1>8, <2>1, RunMoves DEF CrashWorker
<1> QED
  BY <1>1, <1>2, <1>3, <1>4, <1>5, <1>6, <1>7, <1>8 DEF runOnce

-----------------------------------------------------------------------------

LEMMA TemplatesInitInv == ASSUME TemplatesInit PROVE TemplatesInv
<1> USE DEF TemplatesInit
<1>1. TemplateTypes
  BY DEF TemplateTypes, PublishStages, RunStages, Pairs, NoRun, NoMachine
<1>2. RunsInstall /\ NoRowBefore /\ StageLeaves
  BY DEF RunsInstall, NoRowBefore, StageLeaves, NoRun, Grant
<1>3. MachinesKeep /\ RemovalsAlone
  BY DEF MachinesKeep, RemovalsAlone, NoMachine
<1>4. ReadyIsInstalled /\ OneRowPerVersion
  BY DEF ReadyIsInstalled, OneRowPerVersion
<1> QED
  BY <1>1, <1>2, <1>3, <1>4 DEF TemplatesInv

\* Time and the fleet change nothing the invariant is about.
LEMMA QuietSteps ==
  ASSUME TemplatesInv,
         \/ \E p \in Templates \X ArchHosts : Age(p)
         \/ \E h \in ArchHosts : HostJoins(h) \/ HostLeaves(h)
         \/ UNCHANGED templatesVars
  PROVE  TemplatesInv'
<1>1. UNCHANGED <<tpl, pubVars, objects, replica, replVars, remover, mach>>
  BY DEF Age, HostJoins, HostLeaves, templatesVars
<1>2. TemplateTypes'
  BY <1>1 DEF TemplatesInv, TemplateTypes, pubVars, replVars
<1> QED
  BY <1>1, <1>2, KeepsRuns, KeepsMachines, KeepsRemovals, KeepsReady, KeepsVersions, KeepsStages
     DEF TemplatesInv, pubVars, replVars

LEMMA TemplatesSteps ==
  ASSUME TemplatesInv, [TemplatesNext]_templatesVars
  PROVE  TemplatesInv'
BY PublishSteps, PutSteps, LockSteps, RemoveStep, MachineSteps, RunSteps, QuietSteps
   DEF TemplatesNext, Remove

\* A replica the scheduler may choose is installed, a machine keeps its template, a publish
\* request leaves a row with its object or neither, and a version is published once, for any
\* number of publishers, removals, replication runs, hosts and machines
\* (domain/templates.ts, jobs/replicate-template.ts).
THEOREM TemplatesAreSafe == TemplatesSpec => []TemplatesSafe
<1>1. TemplatesInit => TemplatesInv
  BY TemplatesInitInv
<1>2. TemplatesInv /\ [TemplatesNext]_templatesVars => TemplatesInv'
  BY TemplatesSteps
<1>3. TemplatesInv => TemplatesSafe
  BY DEF TemplatesInv, TemplatesSafe, ActiveKeepsTemplate, ActiveMachine, MachinesKeep,
         PublishedOrNothing, StageLeaves, At
<1> QED
  BY <1>1, <1>2, <1>3, PTL DEF TemplatesSpec

\* The steps that write replicas: an insert and enqueueMissing add some, a run claims one
\* that is not ready and marks one it claimed, and a removal takes those of its template.
LEMMA ReadyStaysStep ==
  ASSUME TemplatesInv, [TemplatesNext]_templatesVars
  PROVE  ReadyStays
<1>0. TemplateTypes /\ RunsInstall /\ RemovalsAlone
  BY DEF TemplatesInv
<1>1. SUFFICES ASSUME NEW p \in Templates \X ArchHosts, replica[p] = "ready"
               PROVE  replica'[p] = "ready" \/ tpl'[p[1]] = "deleted"
  BY DEF ReadyStays
<1>2. p \in Pairs /\ p[1] \in Templates
  BY DEF Pairs
<1>3. CASE UNCHANGED replica
  BY <1>1, <1>3
<1>4. CASE \E t \in Templates : Inserts(t)
  BY <1>0, <1>1, <1>2, <1>4 DEF Inserts
<1>5. CASE \E r \in Removers : remove(r)
  <2>1. PICK r \in Removers : remove(r)
    BY <1>5
  <2>2. remover[r].t \in Templates
    BY <1>0, <2>1 DEF RemovalsAlone, remove
  <2> QED
    BY <1>0, <1>1, <1>2, <2>1, <2>2 DEF remove, SoftDelete, TemplateTypes
<1>6. CASE \E w \in Replicators : enqueueCommits(w)
  BY <1>1, <1>6 DEF enqueueCommits
<1>7. CASE \E w \in Replicators : claim(w)
  <2>1. CASE UNCHANGED replica
    BY <1>1, <2>1
  <2>2. CASE \E w \in Replicators, q \in Claimable : ClaimsPair(w, q)
    <3>1. PICK w \in Replicators, q \in Claimable : ClaimsPair(w, q)
      BY <2>2
    <3>2. replica[q] # "ready"
      BY DEF Claimable
    <3> QED
      BY <1>0, <1>1, <1>2, <3>1, <3>2 DEF ClaimsPair, TemplateTypes
  <2> QED
    BY <1>7, <2>1, <2>2 DEF claim
<1>8. CASE \E w \in Replicators : markReady(w) \/ markFailed(w)
  <2>1. PICK w \in Replicators : markReady(w) \/ markFailed(w)
    BY <1>8
  <2>2. Pair(w) \in Pairs
    BY <1>0, <2>1 DEF RunsInstall, markReady, markFailed
  <2> QED
    BY <1>0, <1>1, <1>2, <2>1, <2>2 DEF markReady, markFailed, TemplateTypes
<1>9. \/ UNCHANGED replica \/ \E t \in Templates : Inserts(t)
      \/ \E r \in Removers : remove(r)
      \/ \E w \in Replicators : enqueueCommits(w) \/ claim(w) \/ markReady(w) \/ markFailed(w)
  <2>1. CASE \E t \in Templates : Publish(t)
    BY <2>1 DEF Publish, postTemplate, findVersion, export, exportUnanswered, createUploadGrant, upload,
                uploadAnswered, uploadUnanswered, stat, insert, insertUnanswered, deleteObject, discard,
                cleanupTemplateExports, CrashPublisher
  <2>2. CASE \E g \in puts : Put(g)
    BY <2>2 DEF Put, putLands, putFails
  <2>3. CASE \E r \in Removers : Remove(r)
    BY <2>3 DEF Remove, activeMachines, lockTemplate
  <2>4. CASE \E m \in Instances : Machine(m)
    BY <2>4 DEF Machine, insertRequested, run, insertChild, stop, shareTemplate, reserve, lockSource
  <2>5. CASE \E w \in Replicators : runOnce(w) \/ CrashWorker(w)
    BY <2>5 DEF runOnce, CrashWorker, enqueueMissing, verifyStored, activateReplica, activateFails
  <2>6. CASE \/ \E q \in Templates \X ArchHosts : Age(q)
             \/ \E h \in ArchHosts : HostJoins(h) \/ HostLeaves(h)
             \/ UNCHANGED templatesVars
    BY <2>6 DEF Age, HostJoins, HostLeaves, templatesVars
  <2> QED
    BY <2>1, <2>2, <2>3, <2>4, <2>5, <2>6 DEF TemplatesNext
<1> QED
  BY <1>3, <1>4, <1>5, <1>6, <1>7, <1>8, <1>9

\* A ready replica stays ready until its template is removed, although claims have no owner
\* and slow runs overlap (claim, markReady, markFailed).
THEOREM ReadyReplicasStay == TemplatesSpec => [][ReadyStays]_templatesVars
<1>1. TemplatesInit => TemplatesInv
  BY TemplatesInitInv
<1>2. TemplatesInv /\ [TemplatesNext]_templatesVars => TemplatesInv'
  BY TemplatesSteps
<1>3. TemplatesInv /\ [TemplatesNext]_templatesVars => [ReadyStays]_templatesVars
  BY ReadyStaysStep
<1> QED
  BY <1>1, <1>2, <1>3, PTL DEF TemplatesSpec

-----------------------------------------------------------------------------
(* Volumes: what is granted, kept and swept. *)

Stages == {"idle", "inspect", "reserve", "issue", "mark", "enqueue", "defer"}
RequestOf(S) ==
  [pc : Stages, key : BOOLEAN, obs : S, at : Nat, res : Reservations \cup {Unset}, exp : Nat]

\* What a request observed is a sum the proof need not know.
RequestTypes == \E S : req \in [Requests -> RequestOf(S)]

VolTypes ==
  /\ clock \in Nat
  /\ vol \in [state : {"none", "live", "deleted"}, expires : Nat, deletedAt : Nat]
  /\ caps \subseteq [res : Reservations, exp : Nat]
  /\ uploads \in [Reservations -> [size : Nat, exp : Nat]]
  /\ stored \in [Reservations -> Nat]
  /\ kept \subseteq Reservations
  /\ job \in [state : {"none", "pending", "scheduled"}, deleteAfter : Nat, next : Nat,
              claim : DeleteWorkers \cup {Unset}, until : Nat]
  /\ deletion \in [DeleteWorkers -> {"idle", "deliver", "delete", "finish", "retry"}]

\* No capability outlives the volume, or a deletion by more than it could be late.
Granted(e) ==
  /\ vol.state # "none"
  /\ vol.state = "live" => e <= vol.expires /\ e <= clock + GrantTtl
  /\ vol.state = "deleted" => e <= vol.deletedAt + Lag + GrantTtl

CapsGranted ==
  /\ \A c \in caps : Granted(c.exp)
  /\ \A r \in Reservations : Streaming(r) => Granted(uploads[r].exp)

RequestsGranted ==
  \A q \in Requests :
    /\ req[q].pc \in {"issue", "mark"} => req[q].res \in Reservations /\ Granted(req[q].exp)
    /\ req[q].pc = "enqueue" => req[q].at <= clock /\ vol.state # "none"

\* The job is there once the volume is deleted, and works after the boundary only.
JobOfVolume ==
  /\ (vol.state = "deleted") <=> (job.state # "none")
  /\ job.state # "none" => job.deleteAfter = vol.deletedAt + Retention
  /\ job.state = "scheduled" => job.deleteAfter <= clock /\ \A r \in Reservations : stored[r] = 0
  /\ \A w \in DeleteWorkers :
       /\ deletion[w] # "idle" => job.state # "none"
       /\ deletion[w] \in {"delete", "finish", "retry"} => job.deleteAfter <= clock
       /\ deletion[w] = "finish" => \A r \in Reservations : stored[r] = 0

KeptStays ==
  \A r \in kept :
    \/ stored[r] > 0 /\ ~Streaming(r)
    \/ vol.state = "deleted" /\ vol.deletedAt + Retention <= clock

VolumesInv == VolTypes /\ RequestTypes /\ CapsGranted /\ RequestsGranted /\ JobOfVolume /\ KeptStays

LEMMA NoRequestTyped == ASSUME NEW S PROVE IdleReq \in RequestOf(S \cup {0})
BY DEF IdleReq, RequestOf, Stages

\* Request q is over, or goes on with what it has.
LEMMA RequestIsOver ==
  ASSUME RequestTypes, NEW q \in Requests, RequestEnds(q)
  PROVE  /\ RequestTypes' /\ req'[q].pc = "idle"
         /\ \A p \in Requests : p # q => req'[p] = req[p]
<1>1. PICK S : req \in [Requests -> RequestOf(S)]
  BY DEF RequestTypes
<1>2. req \in [Requests -> RequestOf(S \cup {0})]
  BY <1>1 DEF RequestOf
<1>3. req' \in [Requests -> RequestOf(S \cup {0})]
  BY <1>2, NoRequestTyped DEF RequestEnds
<1> QED
  BY <1>1, <1>3 DEF RequestTypes, RequestEnds, IdleReq

\* What a step of request q leaves alone; what it grants is granted.
OnlyRequest(q) ==
  /\ RequestTypes'
  /\ \A p \in Requests : p # q => req'[p] = req[p]
  /\ req'[q].pc \in {"issue", "mark"} => req'[q].res \in Reservations /\ Granted(req'[q].exp)
  /\ req'[q].pc = "enqueue" => req'[q].at <= clock /\ vol.state # "none"
  /\ UNCHANGED <<clock, vol, uploads, stored, kept, job, deletion>>

LEMMA OnlyRequestKeeps ==
  ASSUME VolumesInv, NEW q \in Requests, OnlyRequest(q), UNCHANGED caps
  PROVE  VolumesInv'
<1>1. VolTypes' /\ CapsGranted' /\ JobOfVolume' /\ KeptStays'
  BY DEF VolumesInv, OnlyRequest, VolTypes, CapsGranted, Granted, Streaming, JobOfVolume, KeptStays
<1>2. RequestsGranted'
  BY DEF VolumesInv, OnlyRequest, RequestsGranted, Granted
<1> QED
  BY <1>1, <1>2 DEF VolumesInv, OnlyRequest

LEMMA EndsKeep ==
  ASSUME VolumesInv, NEW q \in Requests, RequestEnds(q),
         UNCHANGED <<clock, vol, uploads, stored, kept, job, deletion, caps>>
  PROVE  VolumesInv'
<1>1. OnlyRequest(q)
  BY RequestIsOver DEF OnlyRequest, VolumesInv
<1> QED
  BY <1>1, OnlyRequestKeeps

-----------------------------------------------------------------------------
(* The steps of requests. *)

LEMMA StartSteps ==
  ASSUME VolumesInv, NEW q \in Requests, grantVolume(q) \/ removeVolume(q)
  PROVE  VolumesInv'
<1>1. PICK S : req \in [Requests -> RequestOf(S)]
  BY DEF RequestTypes, VolumesInv
<1>2. req \in [Requests -> RequestOf(S \cup {0})]
  BY <1>1 DEF RequestOf
<1>0. clock \in Nat
  BY DEF VolumesInv, VolTypes
<1> DEFINE starts == [IdleReq EXCEPT !.pc = "inspect"]
           stops == [IdleReq EXCEPT !.pc = "enqueue", !.at = clock]
<1>2a. /\ starts \in RequestOf(S \cup {0}) /\ starts.pc = "inspect"
       /\ stops \in RequestOf(S \cup {0}) /\ stops.pc = "enqueue" /\ stops.at = clock
  BY <1>0 DEF IdleReq, RequestOf, Stages
<1>2b. req' = [req EXCEPT ![q] = starts] \/ (req' = [req EXCEPT ![q] = stops] /\ vol.state # "none")
  BY DEF grantVolume, removeVolume
<1> HIDE DEF starts, stops
<1>3. req' \in [Requests -> RequestOf(S \cup {0})]
  BY <1>2, <1>2a, <1>2b
<1>4. \A p \in Requests : p # q => req'[p] = req[p]
  BY <1>1 DEF grantVolume, removeVolume
<1>5. /\ req'[q].pc \notin {"issue", "mark"}
      /\ req'[q].pc = "enqueue" => req'[q].at <= clock /\ vol.state # "none"
  BY <1>0, <1>1, <1>2a, <1>2b
<1>6. OnlyRequest(q) /\ UNCHANGED caps
  BY <1>3, <1>4, <1>5 DEF OnlyRequest, RequestTypes, grantVolume, removeVolume
<1> QED
  BY <1>6, OnlyRequestKeeps

LEMMA InspectStep ==
  ASSUME VolumesInv, NEW q \in Requests, inspect(q)
  PROVE  VolumesInv'
<1>1. CASE RequestEnds(q)
  BY <1>1, EndsKeep DEF inspect
<1>2. CASE req' = [req EXCEPT ![q] = [@ EXCEPT !.pc = "reserve", !.obs = Size, !.at = clock]]
  <2>1. PICK S : req \in [Requests -> RequestOf(S)]
    BY DEF RequestTypes, VolumesInv
  <2>2. req \in [Requests -> RequestOf(S \cup {Size})]
    BY <2>1 DEF RequestOf
  <2>2a. clock \in Nat
    BY DEF VolumesInv, VolTypes
  <2> DEFINE x == [req[q] EXCEPT !.pc = "reserve", !.obs = Size, !.at = clock]
  <2>2b. x \in RequestOf(S \cup {Size})
    BY <2>2, <2>2a DEF RequestOf, Stages
  <2>3. req' \in [Requests -> RequestOf(S \cup {Size})]
    <3> HIDE DEF x
    <3>1. req' = [req EXCEPT ![q] = x]
      BY <1>2 DEF x
    <3> QED
      BY <2>2, <2>2b, <3>1
  <2>4. req'[q].pc = "reserve" /\ \A p \in Requests : p # q => req'[p] = req[p]
    BY <1>2, <2>2 DEF RequestOf
  <2>5. OnlyRequest(q) /\ UNCHANGED caps
    BY <2>3, <2>4 DEF OnlyRequest, RequestTypes, inspect
  <2> QED
    BY <2>5, OnlyRequestKeeps
<1> QED
  BY <1>1, <1>2 DEF inspect

\* A capability ends with the volume and GrantTtl from now at the latest.
LEMMA IssuingGrants ==
  ASSUME VolumesAssumption, VolumesInv, NEW q \in Requests, NEW r \in Reservations,
         Live(clock), Issuing(q, r),
         UNCHANGED <<clock, vol, uploads, stored, kept, job, deletion, caps>>
  PROVE  VolumesInv'
<1>1. PICK S : req \in [Requests -> RequestOf(S)]
  BY DEF RequestTypes, VolumesInv
<1>2. CapExpiry \in Nat /\ Granted(CapExpiry)
  BY DEF CapExpiry, Least, Granted, Live, VolumesAssumption, VolumesInv, VolTypes
<1>3. req' \in [Requests -> RequestOf(S)]
  BY <1>1, <1>2 DEF Issuing, RequestOf, Stages
<1>4. /\ req'[q].res = r /\ req'[q].exp = CapExpiry /\ req'[q].pc = "issue"
      /\ \A p \in Requests : p # q => req'[p] = req[p]
  BY <1>1 DEF Issuing, RequestOf
<1>5. OnlyRequest(q)
  BY <1>2, <1>3, <1>4 DEF OnlyRequest, RequestTypes
<1> QED
  BY <1>5, OnlyRequestKeeps

LEMMA ReserveStep ==
  ASSUME VolumesAssumption, VolumesInv, NEW q \in Requests, reserveWriteGrant(q)
  PROVE  VolumesInv'
<1>1. UNCHANGED <<clock, vol, uploads, stored, kept, job, deletion, caps>>
  BY DEF reserveWriteGrant
<1>2. CASE RequestEnds(q)
  BY <1>1, <1>2, EndsKeep
<1>3. CASE Live(clock) /\ \E r \in Reservations : Issuing(q, r)
  BY <1>1, <1>3, IssuingGrants
<1> QED
  BY <1>2, <1>3 DEF reserveWriteGrant, Replayed, InsertsReservation

LEMMA IssueStep ==
  ASSUME VolumesInv, NEW q \in Requests, issueGrant(q)
  PROVE  VolumesInv'
<1>1. CASE RequestEnds(q)
  BY <1>1, EndsKeep DEF issueGrant
<1>2. CASE req' = [req EXCEPT ![q].pc = "mark"]
  <2>1. PICK S : req \in [Requests -> RequestOf(S)]
    BY DEF RequestTypes, VolumesInv
  <2>2. req' \in [Requests -> RequestOf(S)]
    BY <1>2, <2>1 DEF RequestOf, Stages
  <2>3. /\ req'[q].res = req[q].res /\ req'[q].exp = req[q].exp /\ req'[q].pc = "mark"
        /\ \A p \in Requests : p # q => req'[p] = req[p]
    BY <1>2, <2>1 DEF RequestOf
  <2>4. req[q].res \in Reservations /\ Granted(req[q].exp)
    BY DEF issueGrant, VolumesInv, RequestsGranted
  <2>5. OnlyRequest(q) /\ UNCHANGED caps
    BY <2>2, <2>3, <2>4 DEF OnlyRequest, RequestTypes, issueGrant
  <2> QED
    BY <2>5, OnlyRequestKeeps
<1> QED
  BY <1>1, <1>2 DEF issueGrant

LEMMA MarkStep ==
  ASSUME VolumesInv, NEW q \in Requests, markWriteGrantIssued(q)
  PROVE  VolumesInv'
<1>1. OnlyRequest(q)
  BY RequestIsOver DEF OnlyRequest, VolumesInv, markWriteGrantIssued
<1>2. req[q].res \in Reservations /\ Granted(req[q].exp) /\ req[q].exp \in Nat
  BY DEF markWriteGrantIssued, VolumesInv, RequestsGranted, RequestTypes, RequestOf
<1>3. VolTypes' /\ JobOfVolume' /\ KeptStays'
  BY <1>1, <1>2 DEF VolumesInv, markWriteGrantIssued, VolTypes, Streaming, JobOfVolume, KeptStays
<1>4. CapsGranted'
  BY <1>2 DEF VolumesInv, markWriteGrantIssued, CapsGranted, Granted, Streaming
<1>5. RequestsGranted'
  BY <1>1 DEF VolumesInv, OnlyRequest, RequestsGranted, Granted
<1> QED
  BY <1>1, <1>3, <1>4, <1>5 DEF VolumesInv, OnlyRequest

LEMMA AbandonStep ==
  ASSUME VolumesInv, NEW q \in Requests, Abandon(q)
  PROVE  VolumesInv'
BY EndsKeep DEF Abandon

\* The row is inserted: nothing was granted before.
LEMMA CreateStep ==
  ASSUME VolumesAssumption, VolumesInv, NEW q \in Requests, admitCreate(q)
  PROVE  VolumesInv'
<1>1. PICK S : req \in [Requests -> RequestOf(S)]
  BY DEF RequestTypes, VolumesInv
<1>2. req \in [Requests -> RequestOf(S \cup {0})]
  BY <1>1 DEF RequestOf
<1>3. req' \in [Requests -> RequestOf(S \cup {0})]
  BY <1>2 DEF admitCreate, IdleReq, RequestOf, Stages
<1>4. req'[q].pc = "inspect" /\ \A p \in Requests : p # q => req'[p] = req[p]
  BY <1>1 DEF admitCreate, IdleReq
<1>5. CASE UNCHANGED vol
  <2>1. OnlyRequest(q) /\ UNCHANGED caps
    BY <1>3, <1>4, <1>5 DEF OnlyRequest, RequestTypes, admitCreate
  <2> QED
    BY <2>1, OnlyRequestKeeps
<1>6. CASE vol.state = "none"
  <2>1. vol' \in [state : {"none", "live", "deleted"}, expires : Nat, deletedAt : Nat] /\ vol'.state = "live"
    <3>1. clock \in Nat /\ VolumeTtl \in Nat /\ vol \in [state : {"none", "live", "deleted"}, expires : Nat, deletedAt : Nat]
      BY DEF VolumesInv, VolTypes, VolumesAssumption
    <3>2. vol' = [vol EXCEPT !.state = "live", !.expires = clock + VolumeTtl]
      BY <1>6 DEF admitCreate
    <3> DEFINE e == clock + VolumeTtl
    <3>3. e \in Nat /\ vol' = [vol EXCEPT !.state = "live", !.expires = e]
      BY <3>1, <3>2
    <3> HIDE DEF e
    <3> QED
      BY <3>1, <3>3
  <2>2. caps = {} /\ \A r \in Reservations : ~Streaming(r)
    BY <1>6 DEF VolumesInv, CapsGranted, Granted
  <2>3. UNCHANGED <<clock, res, caps, uploads, stored, kept, job, deletion, volFaults>>
    BY DEF admitCreate
  <2>4. VolTypes' /\ CapsGranted'
    BY <2>1, <2>2, <2>3 DEF VolumesInv, VolTypes, CapsGranted, Streaming
  <2>5. JobOfVolume' /\ KeptStays'
    BY <1>6, <2>1, <2>3 DEF VolumesInv, JobOfVolume, KeptStays, Streaming
  <2>6. RequestsGranted'
    BY <1>4, <1>6, <2>1, <2>3 DEF VolumesInv, RequestsGranted, Granted
  <2> QED
    BY <1>3, <2>4, <2>5, <2>6 DEF VolumesInv, RequestTypes
<1> QED
  BY <1>5, <1>6 DEF admitCreate

-----------------------------------------------------------------------------
(* The broker. *)

LEMMA PutStep ==
  ASSUME VolumesAssumption, VolumesInv, NEW c \in caps, NEW size \in 1..Limit, handlePut(c, size)
  PROVE  VolumesInv'
<1>1. /\ c.res \in Reservations /\ c.exp \in Nat /\ Granted(c.exp) /\ size \in Nat
      /\ stored[c.res] = 0 /\ UNCHANGED <<clock, vol, res, req, caps, stored, kept, job, deletion>>
  BY DEF handlePut, VolumesInv, VolTypes, CapsGranted, VolumesAssumption
<1>2. /\ uploads' \in [Reservations -> [size : Nat, exp : Nat]] /\ uploads'[c.res].exp = c.exp
      /\ \A r \in Reservations : r # c.res => uploads'[r] = uploads[r]
  BY <1>1 DEF handlePut, VolumesInv, VolTypes
<1>3. VolTypes' /\ RequestTypes' /\ RequestsGranted' /\ JobOfVolume'
  BY <1>1, <1>2 DEF VolumesInv, VolTypes, RequestTypes, RequestsGranted, Granted, JobOfVolume
<1>4. CapsGranted'
  BY <1>1, <1>2 DEF VolumesInv, CapsGranted, Granted, Streaming
<1>5. KeptStays'
  BY <1>1, <1>2 DEF VolumesInv, VolTypes, KeptStays, Streaming
<1> QED
  BY <1>3, <1>4, <1>5 DEF VolumesInv

\* No upload commits once the retention is over.
LEMMA CommitsInTime ==
  ASSUME VolumesAssumption, VolumesInv, NEW r \in Reservations, PutCommits(r), vol.state = "deleted"
  PROVE  /\ clock < vol.deletedAt + Lag + GrantTtl + CommitLag
         /\ clock < vol.deletedAt + Retention
BY DEF VolumesAssumption, VolumesInv, VolTypes, CapsGranted, Granted, PutCommits

LEMMA CommitStep ==
  ASSUME VolumesAssumption, VolumesInv, NEW r \in Reservations, PutCommits(r)
  PROVE  VolumesInv'
<1>1. /\ UNCHANGED <<clock, vol, res, req, caps, uploads, kept, job, deletion>>
      /\ stored' \in [Reservations -> Nat] /\ stored[r] = 0 /\ stored'[r] > 0
      /\ \A t \in Reservations : t # r => stored'[t] = stored[t]
  BY DEF PutCommits, Streaming, VolumesInv, VolTypes
<1>2. VolTypes' /\ RequestTypes' /\ RequestsGranted' /\ CapsGranted' /\ KeptStays'
  BY <1>1 DEF VolumesInv, VolTypes, RequestTypes, RequestsGranted, CapsGranted, Granted, KeptStays, Streaming
<1>3. /\ job.state # "scheduled"
      /\ \A w \in DeleteWorkers : deletion[w] \notin {"delete", "finish", "retry"}
  <2>1. CASE vol.state = "deleted"
    BY <2>1, CommitsInTime DEF VolumesInv, VolTypes, JobOfVolume, VolumesAssumption
  <2>2. CASE vol.state # "deleted"
    BY <2>2 DEF VolumesInv, JobOfVolume
  <2> QED
    BY <2>1, <2>2
<1>4. JobOfVolume'
  BY <1>1, <1>3 DEF VolumesInv, JobOfVolume
<1> QED
  BY <1>2, <1>4 DEF VolumesInv

LEMMA PutEndsStep ==
  ASSUME VolumesAssumption, VolumesInv, NEW r \in Reservations, PutEnds(r)
  PROVE  VolumesInv'
<1>1. /\ UNCHANGED <<clock, vol, res, req, caps, job, deletion>> /\ Streaming(r)
      /\ uploads' \in [Reservations -> [size : Nat, exp : Nat]] /\ uploads'[r].size = 0
      /\ \A t \in Reservations : t # r => uploads'[t] = uploads[t]
  BY DEF PutEnds, VolumesInv, VolTypes
<1>2. /\ stored' \in [Reservations -> Nat] /\ \A t \in Reservations : t # r => stored'[t] = stored[t]
      /\ \A t \in Reservations : stored[t] = 0 => stored'[t] = 0
      /\ kept' \subseteq Reservations /\ (kept' = kept \/ (kept' = kept \cup {r} /\ stored'[r] > 0))
  BY DEF PutEnds, VolumesInv, VolTypes
<1>3. VolTypes' /\ RequestTypes' /\ RequestsGranted'
  BY <1>1, <1>2 DEF VolumesInv, VolTypes, RequestTypes, RequestsGranted, Granted
<1>4. CapsGranted'
  BY <1>1 DEF VolumesInv, CapsGranted, Granted, Streaming
<1>5. JobOfVolume'
  BY <1>1, <1>2 DEF VolumesInv, JobOfVolume
<1>6. KeptStays'
  BY <1>1, <1>2 DEF VolumesInv, KeptStays, Streaming
<1> QED
  BY <1>3, <1>4, <1>5, <1>6 DEF VolumesInv

-----------------------------------------------------------------------------
(* The deletion. *)

\* The volume is deleted at a moment that everything granted is bounded by.
DeletedAt(at) ==
  /\ vol.state = "live" /\ at \in Nat
  /\ vol' = [vol EXCEPT !.state = "deleted", !.deletedAt = at] /\ job' = Queued(at)
  /\ vol.expires <= at \/ clock <= at + Lag
  /\ UNCHANGED <<clock, caps, uploads, stored, kept, deletion>>

LEMMA DeletesKeeps ==
  ASSUME VolumesAssumption, VolumesInv, NEW at, DeletedAt(at), RequestTypes',
         \A q \in Requests : req'[q].pc \in {"issue", "mark"} =>
           req'[q] = req[q],
         \A q \in Requests : req'[q].pc = "enqueue" => req'[q].at <= clock
  PROVE  VolumesInv'
<1>1. /\ vol'.state = "deleted" /\ vol'.deletedAt = at
      /\ vol' \in [state : {"none", "live", "deleted"}, expires : Nat, deletedAt : Nat]
  BY DEF DeletedAt, VolumesInv, VolTypes
<1>2. /\ job'.state = "pending" /\ job'.deleteAfter = at + Retention
      /\ job' \in [state : {"none", "pending", "scheduled"}, deleteAfter : Nat, next : Nat,
                   claim : DeleteWorkers \cup {Unset}, until : Nat]
  BY DEF DeletedAt, Queued, VolumesAssumption
<1>3. \A e \in Nat : Granted(e) => Granted(e)'
  BY <1>1 DEF DeletedAt, Granted, VolumesAssumption, VolumesInv, VolTypes
<1>4. VolTypes'
  BY <1>1, <1>2 DEF DeletedAt, VolumesInv, VolTypes
<1>5. CapsGranted'
  <2>1. \A c \in caps : c.exp \in Nat
    BY DEF VolumesInv, VolTypes
  <2>2. \A r \in Reservations : uploads[r].exp \in Nat
    BY DEF VolumesInv, VolTypes
  <2> QED
    BY <1>3, <2>1, <2>2 DEF DeletedAt, VolumesInv, CapsGranted, Streaming
<1>6. RequestsGranted'
  <2>1. \A q \in Requests : req[q].exp \in Nat
    BY DEF VolumesInv, RequestTypes, RequestOf
  <2> QED
    BY <1>1, <1>3, <2>1 DEF VolumesInv, RequestsGranted, DeletedAt
<1>7. \A w \in DeleteWorkers : deletion[w] = "idle"
  BY DEF DeletedAt, VolumesInv, JobOfVolume
<1>8. JobOfVolume'
  BY <1>1, <1>2, <1>7 DEF DeletedAt, JobOfVolume
<1>9. KeptStays'
  BY DEF DeletedAt, VolumesInv, KeptStays, Streaming
<1> QED
  BY <1>4, <1>5, <1>6, <1>8, <1>9 DEF VolumesInv

LEMMA EnqueueStep ==
  ASSUME VolumesAssumption, VolumesInv, NEW q \in Requests, enqueueDeletion(q)
  PROVE  VolumesInv'
<1>1. PICK S : req \in [Requests -> RequestOf(S)]
  BY DEF RequestTypes, VolumesInv
<1>2. req' \in [Requests -> RequestOf(S)]
  BY <1>1 DEF enqueueDeletion, RequestOf, Stages
<1>3. req'[q].pc = "defer" /\ \A p \in Requests : p # q => req'[p] = req[p]
  BY <1>1 DEF enqueueDeletion, RequestOf
<1>4. /\ req[q].at \in Nat /\ req[q].at <= clock /\ vol.state # "none" /\ clock <= req[q].at + Lag
      /\ UNCHANGED <<clock, res, caps, uploads, stored, kept, deletion>>
  BY <1>1 DEF enqueueDeletion, VolumesInv, RequestsGranted, VolTypes, VolumesAssumption, RequestOf
<1>5. CASE vol.state = "live"
  <2>1. DeletedAt(req[q].at)
    BY <1>4, <1>5 DEF enqueueDeletion, DeletedAt, VolumesInv, JobOfVolume, VolTypes
  <2>2. \A p \in Requests : /\ req'[p].pc \in {"issue", "mark"} => req'[p] = req[p]
                            /\ req'[p].pc = "enqueue" => req'[p].at <= clock
    BY <1>3 DEF VolumesInv, RequestsGranted
  <2> DEFINE at == req[q].at
  <2>3. DeletedAt(at)
    BY <2>1
  <2> HIDE DEF at
  <2> QED
    BY <1>2, <2>2, <2>3, DeletesKeeps DEF RequestTypes
<1>6. CASE vol.state # "live"
  <2>1. UNCHANGED <<vol, job>>
    BY <1>4, <1>6 DEF enqueueDeletion, VolumesInv, JobOfVolume, VolTypes
  <2>2. OnlyRequest(q) /\ UNCHANGED caps
    BY <1>2, <1>3, <1>4, <2>1 DEF OnlyRequest, RequestTypes
  <2> QED
    BY <2>2, OnlyRequestKeeps
<1> QED
  BY <1>5, <1>6

LEMMA EnqueueExpiredStep ==
  ASSUME VolumesAssumption, VolumesInv, enqueueExpiredDeletions
  PROVE  VolumesInv'
<1> DEFINE at == vol.expires
<1>1. DeletedAt(at) /\ UNCHANGED req
  BY DEF enqueueExpiredDeletions, DeletedAt, VolumesInv, VolTypes
<1>2. RequestTypes' /\ \A p \in Requests : req[p].pc = "enqueue" => req[p].at <= clock
  BY <1>1 DEF VolumesInv, RequestTypes, RequestsGranted
<1> HIDE DEF at
<1> QED
  BY <1>1, <1>2, DeletesKeeps

\* The job is claimed or put off.
JobMoves ==
  /\ job' \in [state : {"none", "pending", "scheduled"}, deleteAfter : Nat, next : Nat,
               claim : DeleteWorkers \cup {Unset}, until : Nat]
  /\ job'.state = job.state /\ job'.deleteAfter = job.deleteAfter
  /\ UNCHANGED <<clock, vol, caps, uploads, kept>>

LEMMA JobMovesKeeps ==
  ASSUME VolumesInv, JobMoves, UNCHANGED stored,
         deletion' \in [DeleteWorkers -> {"idle", "deliver", "delete", "finish", "retry"}],
         \A w \in DeleteWorkers :
           \/ deletion'[w] \in {deletion[w], "idle"}
           \/ deletion'[w] = "deliver" /\ job.state # "none"
           \/ deletion[w] # "idle" /\ deletion'[w] = "delete" /\ job.deleteAfter <= clock
  PROVE  VolTypes' /\ CapsGranted' /\ JobOfVolume' /\ KeptStays'
<1>1. VolTypes' /\ CapsGranted' /\ KeptStays'
  BY DEF VolumesInv, JobMoves, VolTypes, CapsGranted, Granted, KeptStays, Streaming
<1>2. JobOfVolume'
  BY DEF VolumesInv, JobMoves, JobOfVolume
<1> QED
  BY <1>1, <1>2

LEMMA SameRequests ==
  ASSUME VolumesInv, UNCHANGED <<req, clock, vol>>
  PROVE  RequestTypes' /\ RequestsGranted'
BY DEF VolumesInv, RequestTypes, RequestsGranted, Granted

LEMMA DeferredJob ==
  ASSUME VolumesAssumption, VolumesInv, NEW next \in Nat
  PROVE  /\ Deferred(next) \in [state : {"none", "pending", "scheduled"}, deleteAfter : Nat, next : Nat,
                                claim : DeleteWorkers \cup {Unset}, until : Nat]
         /\ Deferred(next).state = job.state /\ Deferred(next).deleteAfter = job.deleteAfter
<1>1. /\ VolHorizon \in Nat
      /\ job \in [state : {"none", "pending", "scheduled"}, deleteAfter : Nat, next : Nat,
                  claim : DeleteWorkers \cup {Unset}, until : Nat]
  BY DEF VolumesAssumption, VolumesInv, VolTypes
<1>2. Least(Most(job.next, next), VolHorizon) \in Nat
  BY <1>1 DEF Least, Most
<1> QED
  BY <1>1, <1>2 DEF Deferred

LEMMA DeferStep ==
  ASSUME VolumesAssumption, VolumesInv, NEW q \in Requests, deferUnclaimed(q)
  PROVE  VolumesInv'
<1>1. UNCHANGED <<clock, vol, res, caps, uploads, stored, kept, deletion>>
  BY DEF deferUnclaimed
<1>2. JobMoves
  <2>1. job.deleteAfter \in Nat
    BY DEF VolumesInv, VolTypes
  <2> QED
    BY <1>1, <2>1, DeferredJob DEF deferUnclaimed, JobMoves, VolumesInv, VolTypes
<1>3. VolTypes' /\ CapsGranted' /\ JobOfVolume' /\ KeptStays'
  BY <1>1, <1>2, JobMovesKeeps DEF VolumesInv, VolTypes
<1>4. RequestTypes' /\ req'[q].pc = "idle" /\ \A p \in Requests : p # q => req'[p] = req[p]
  BY RequestIsOver DEF deferUnclaimed, VolumesInv
<1>5. RequestsGranted'
  BY <1>1, <1>4 DEF VolumesInv, RequestsGranted, Granted
<1> QED
  BY <1>3, <1>4, <1>5 DEF VolumesInv

LEMMA ClaimStep ==
  ASSUME VolumesAssumption, VolumesInv, NEW w \in DeleteWorkers, claimDeletionJobs(w)
  PROVE  VolumesInv'
<1>1. UNCHANGED <<clock, vol, res, req, caps, uploads, stored, kept>> /\ job.state = "pending"
  BY DEF claimDeletionJobs
<1>2. Least(clock + ClaimTtl, VolHorizon) \in Nat
  BY DEF Least, VolumesAssumption, VolumesInv, VolTypes
<1>3. JobMoves
  BY <1>1, <1>2 DEF claimDeletionJobs, JobMoves, VolumesInv, VolTypes
<1>4. /\ deletion' \in [DeleteWorkers -> {"idle", "deliver", "delete", "finish", "retry"}]
      /\ \A v \in DeleteWorkers : deletion'[v] \in {deletion[v], "deliver"}
  BY DEF claimDeletionJobs, VolumesInv, VolTypes
<1>5. VolTypes' /\ CapsGranted' /\ JobOfVolume' /\ KeptStays'
  BY <1>1, <1>3, <1>4, JobMovesKeeps
<1> QED
  BY <1>1, <1>5, SameRequests DEF VolumesInv

LEMMA DeliverStep ==
  ASSUME VolumesAssumption, VolumesInv, NEW w \in DeleteWorkers, deliver(w) \/ deferDeletion(w) \/ WorkerDies(w)
  PROVE  VolumesInv'
<1>1. UNCHANGED <<clock, vol, res, req, caps, uploads, stored, kept>>
  BY DEF deliver, deferDeletion, WorkerDies
<1>2. job.deleteAfter \in Nat /\ clock + 1 \in Nat /\ clock \in Nat
  BY DEF VolumesInv, VolTypes
<1>3. JobMoves
  <2>1. job' = job \/ job' = Deferred(job.deleteAfter) \/ job' = Deferred(clock + 1)
    BY DEF deliver, deferDeletion, WorkerDies, deferClaimed
  <2>2. job \in [state : {"none", "pending", "scheduled"}, deleteAfter : Nat, next : Nat,
                 claim : DeleteWorkers \cup {Unset}, until : Nat]
    BY DEF VolumesInv, VolTypes
  <2> QED
    BY <1>1, <1>2, <2>1, <2>2, DeferredJob DEF JobMoves
<1>4. /\ deletion' \in [DeleteWorkers -> {"idle", "deliver", "delete", "finish", "retry"}]
      /\ \A v \in DeleteWorkers :
           \/ deletion'[v] \in {deletion[v], "idle"}
           \/ deletion[v] # "idle" /\ deletion'[v] = "delete" /\ job.deleteAfter <= clock
  BY <1>2 DEF deliver, deferDeletion, WorkerDies, VolumesInv, VolTypes
<1>5. VolTypes' /\ CapsGranted' /\ JobOfVolume' /\ KeptStays'
  BY <1>1, <1>3, <1>4, JobMovesKeeps
<1> QED
  BY <1>1, <1>5, SameRequests DEF VolumesInv

LEMMA SweepStep ==
  ASSUME VolumesAssumption, VolumesInv, NEW w \in DeleteWorkers, NEW gone \in SUBSET Reservations,
         scheduleDeletion(w, gone)
  PROVE  VolumesInv'
<1>1. UNCHANGED <<clock, vol, res, req, caps, uploads, kept, job>> /\ deletion[w] = "delete"
  BY DEF scheduleDeletion
<1>2. /\ stored' \in [Reservations -> Nat]
      /\ \A r \in Reservations : stored'[r] = IF r \in gone THEN 0 ELSE stored[r]
  BY DEF scheduleDeletion, VolumesInv, VolTypes
<1>3. /\ deletion' \in [DeleteWorkers -> {"idle", "deliver", "delete", "finish", "retry"}]
      /\ \A v \in DeleteWorkers : v # w => deletion'[v] = deletion[v]
      /\ deletion'[w] = IF gone = Reservations THEN "finish" ELSE "retry"
  BY DEF scheduleDeletion, VolumesInv, VolTypes
<1>4. VolTypes' /\ CapsGranted'
  BY <1>1, <1>2, <1>3 DEF VolumesInv, VolTypes, CapsGranted, Granted, Streaming
<1>5. /\ vol.state = "deleted" /\ vol.deletedAt + Retention <= clock
      /\ job.state # "none" /\ job.deleteAfter <= clock
  BY <1>1 DEF VolumesInv, JobOfVolume
<1>6. KeptStays'
  BY <1>1, <1>5 DEF KeptStays
<1>7. JobOfVolume'
  BY <1>1, <1>2, <1>3, <1>5 DEF VolumesInv, JobOfVolume
<1> QED
  BY <1>1, <1>4, <1>6, <1>7, SameRequests DEF VolumesInv

LEMMA FinishStep ==
  ASSUME VolumesInv, NEW w \in DeleteWorkers, markDeletionScheduled(w)
  PROVE  VolumesInv'
<1>1. UNCHANGED <<clock, vol, res, req, caps, uploads, stored, kept>> /\ deletion[w] = "finish"
  BY DEF markDeletionScheduled
<1>2. /\ job' \in [state : {"none", "pending", "scheduled"}, deleteAfter : Nat, next : Nat,
                   claim : DeleteWorkers \cup {Unset}, until : Nat]
      /\ job'.state = "scheduled" /\ job'.deleteAfter = job.deleteAfter
  BY DEF markDeletionScheduled, VolumesInv, VolTypes
<1>3. /\ deletion' \in [DeleteWorkers -> {"idle", "deliver", "delete", "finish", "retry"}]
      /\ \A v \in DeleteWorkers : deletion'[v] \in {deletion[v], "idle"}
  BY DEF markDeletionScheduled, VolumesInv, VolTypes
<1>4. VolTypes' /\ CapsGranted' /\ KeptStays'
  BY <1>1, <1>2, <1>3 DEF VolumesInv, VolTypes, CapsGranted, Granted, KeptStays, Streaming
<1>5. JobOfVolume'
  BY <1>1, <1>2, <1>3 DEF VolumesInv, JobOfVolume
<1> QED
  BY <1>1, <1>4, <1>5, SameRequests DEF VolumesInv

LEMMA TickStep ==
  ASSUME VolumesAssumption, VolumesInv, ClockTicks
  PROVE  VolumesInv'
<1>1. /\ UNCHANGED <<vol, req, caps, uploads, stored, kept, job, deletion>>
      /\ clock' = clock + 1 /\ clock \in Nat /\ GrantTtl \in Nat /\ Retention \in Nat
      /\ vol.deletedAt \in Nat /\ job.deleteAfter \in Nat
  BY DEF ClockTicks, VolumesInv, VolTypes, VolumesAssumption
<1>2. \A e \in Nat : Granted(e) => Granted(e)'
  BY <1>1 DEF Granted
<1>3. VolTypes' /\ RequestTypes'
  BY <1>1 DEF VolumesInv, VolTypes, RequestTypes
<1>4. CapsGranted'
  <2>1. \A c \in caps : c.exp \in Nat
    BY DEF VolumesInv, VolTypes
  <2>2. \A r \in Reservations : uploads[r].exp \in Nat
    BY DEF VolumesInv, VolTypes
  <2> QED
    BY <1>1, <1>2, <2>1, <2>2 DEF VolumesInv, CapsGranted, Streaming
<1>5. RequestsGranted'
  <2>1. \A q \in Requests : req[q].exp \in Nat /\ req[q].at \in Nat
    BY DEF VolumesInv, RequestTypes, RequestOf
  <2> QED
    BY <1>1, <1>2, <2>1 DEF VolumesInv, RequestsGranted
<1>6. JobOfVolume'
  BY <1>1 DEF VolumesInv, JobOfVolume
<1>7. KeptStays'
  BY <1>1 DEF VolumesInv, KeptStays, Streaming
<1> QED
  BY <1>3, <1>4, <1>5, <1>6, <1>7 DEF VolumesInv

LEMMA StillStep ==
  ASSUME VolumesInv, UNCHANGED volVars
  PROVE  VolumesInv'
BY DEF volVars, VolumesInv, VolTypes, RequestTypes, CapsGranted, RequestsGranted, JobOfVolume,
       KeptStays, Granted, Streaming

LEMMA VolumesStep ==
  ASSUME VolumesAssumption, VolumesInv, [VolNext]_volVars
  PROVE  VolumesInv'
<1>1. CASE \E q \in Requests :
             Requested(q) \/ Issues(q) \/ Abandon(q) \/ enqueueDeletion(q) \/ deferUnclaimed(q)
  BY <1>1, CreateStep, StartSteps, InspectStep, ReserveStep, IssueStep, MarkStep, AbandonStep,
     EnqueueStep, DeferStep DEF Requested, Issues
<1>2. CASE handleRequest
  BY <1>2, PutStep DEF handleRequest
<1>3. CASE \E r \in Reservations : PutCommits(r) \/ PutEnds(r)
  BY <1>3, CommitStep, PutEndsStep
<1>4. CASE enqueueExpiredDeletions
  BY <1>4, EnqueueExpiredStep
<1>5. CASE \E w \in DeleteWorkers : Works(w) \/ WorkerDies(w)
  BY <1>5, ClaimStep, DeliverStep, SweepStep, FinishStep DEF Works
<1>6. CASE \E w \in DeleteWorkers, gone \in SUBSET Reservations : scheduleDeletion(w, gone)
  BY <1>6, SweepStep
<1>7. CASE ClockTicks
  BY <1>7, TickStep
<1>8. CASE UNCHANGED volVars
  BY <1>8, StillStep
<1> QED
  BY <1>1, <1>2, <1>3, <1>4, <1>5, <1>6, <1>7, <1>8 DEF VolNext

LEMMA VolumesStart ==
  ASSUME VolumesAssumption, VolInit
  PROVE  VolumesInv
<1> USE DEF VolInit
<1>1. VolTypes
  BY DEF VolTypes
<1>2. RequestTypes /\ RequestsGranted
  <2>1. IdleReq \in RequestOf({0}) /\ IdleReq.pc = "idle"
    BY DEF IdleReq, RequestOf, Stages
  <2>2. req \in [Requests -> RequestOf({0})] /\ \A q \in Requests : req[q].pc = "idle"
    BY <2>1
  <2> QED
    BY <2>2 DEF RequestTypes, RequestsGranted
<1>3. CapsGranted /\ KeptStays
  BY DEF CapsGranted, KeptStays, Streaming
<1>4. JobOfVolume
  BY DEF JobOfVolume
<1> QED
  BY <1>1, <1>2, <1>3, <1>4 DEF VolumesInv

LEMMA VolumesInvariant == ASSUME VolumesAssumption PROVE VolSpec => []VolumesInv
<1>1. VolInit => VolumesInv
  BY VolumesStart
<1>2. VolumesInv /\ [VolNext]_volVars => VolumesInv'
  BY VolumesStep
<1> QED
  BY <1>1, <1>2, PTL DEF VolSpec

\* What the invariant says of an allocation that was given back.
LEMMA FreedFollows ==
  ASSUME VolumesAssumption, VolumesInv
  PROVE  VolumesSafe
<1>1. SweptInTime
  BY DEF SweptInTime, VolumesInv, JobOfVolume, VolTypes, VolumesAssumption
<1>2. ASSUME vol.state # "none", ~Allocated
      PROVE  /\ \A r \in Reservations :
                  stored[r] = 0 /\ (Streaming(r) => uploads[r].exp + CommitLag <= clock)
             /\ \A c \in caps : c.exp <= clock
  <2>1. job.state = "scheduled" /\ vol.state = "deleted" /\ vol.deletedAt + Retention <= clock
    BY <1>2 DEF Allocated, VolumesInv, JobOfVolume, VolTypes, VolumesAssumption
  <2>2. \A e \in Nat : Granted(e) => e + CommitLag <= clock /\ e <= clock
    BY <2>1 DEF Granted, VolumesAssumption, VolumesInv, VolTypes
  <2>3. \A c \in caps : c.exp \in Nat
    BY DEF VolumesInv, VolTypes
  <2>4. \A r \in Reservations : uploads[r].exp \in Nat
    BY DEF VolumesInv, VolTypes
  <2> QED
    BY <2>1, <2>2, <2>3, <2>4 DEF VolumesInv, CapsGranted, JobOfVolume
<1> QED
  BY <1>1, <1>2 DEF FreedIsEmpty, VolumesSafe

\* An allocation is given back only when nothing is stored and nothing can come back, and
\* no revision is swept before the retention is over (VolumeDeletionWorker).
THEOREM VolumesAreSafe == ASSUME VolumesAssumption PROVE VolSpec => []VolumesSafe
<1>1. VolumesInv => VolumesSafe
  BY FreedFollows
<1> QED
  BY <1>1, VolumesInvariant, PTL

LEMMA StoreSteps ==
  ASSUME VolumesAssumption, VolumesInv, [VolNext]_volVars
  PROVE  RetentionHeld /\ NoLateRevision
<1>1. CASE UNCHANGED stored
  BY <1>1 DEF RetentionHeld, NoLateRevision, VolumesInv, VolTypes
<1>2. CASE \E r \in Reservations : PutCommits(r)
  <2>1. PICK r \in Reservations : PutCommits(r)
    BY <1>2
  <2>2. \A t \in Reservations : t # r => stored'[t] = stored[t]
    BY <2>1 DEF PutCommits, VolumesInv, VolTypes
  <2>3. NoLateRevision
    BY <2>1, <2>2, CommitsInTime DEF NoLateRevision, VolumesInv, VolTypes
  <2>4. RetentionHeld
    BY <2>1, <2>2 DEF RetentionHeld, PutCommits, VolumesInv, VolTypes
  <2> QED
    BY <2>3, <2>4
<1>3. CASE \E r \in Reservations : PutEnds(r)
  <2>1. PICK r \in Reservations : PutEnds(r)
    BY <1>3
  <2>2. /\ Streaming(r) /\ \A t \in Reservations : t # r => stored'[t] = stored[t]
        /\ \A t \in Reservations : stored[t] = 0 => stored'[t] = 0
    BY <2>1 DEF PutEnds, VolumesInv, VolTypes
  <2>3. r \in kept => vol.state = "deleted" /\ vol.deletedAt + Retention <= clock
    BY <2>2 DEF VolumesInv, KeptStays
  <2> QED
    BY <2>2, <2>3 DEF RetentionHeld, NoLateRevision, VolumesInv, VolTypes, VolumesAssumption
<1>4. CASE \E w \in DeleteWorkers, gone \in SUBSET Reservations : scheduleDeletion(w, gone)
  <2>1. PICK w \in DeleteWorkers, gone \in SUBSET Reservations : scheduleDeletion(w, gone)
    BY <1>4
  <2>2. deletion[w] = "delete" /\ \A t \in Reservations : stored[t] = 0 => stored'[t] = 0
    BY <2>1 DEF scheduleDeletion
  <2>3. vol.state = "deleted" /\ vol.deletedAt + Retention <= clock
    BY <2>2 DEF VolumesInv, JobOfVolume
  <2> QED
    BY <2>2, <2>3 DEF RetentionHeld, NoLateRevision, VolumesInv, VolTypes, VolumesAssumption
<1>5. CASE handleRequest
  BY <1>1, <1>5 DEF handleRequest, handlePut
<1> QED
  BY <1>1, <1>2, <1>3, <1>4, <1>5 DEF VolNext, volVars, Requested, Issues, admitCreate, grantVolume,
     removeVolume, inspect, reserveWriteGrant, issueGrant, markWriteGrantIssued, Abandon,
     enqueueDeletion, deferUnclaimed, enqueueExpiredDeletions, Works, claimDeletionJobs, deliver,
     markDeletionScheduled, deferDeletion, WorkerDies, ClockTicks

\* A confirmed revision goes only after the retention of a deleted volume, and after the
\* deletion none appears later than the capabilities of that moment allow.
THEOREM RevisionsStayAndEnd ==
  ASSUME VolumesAssumption PROVE VolSpec => [][RetentionHeld /\ NoLateRevision]_volVars
<1>1. VolumesInv /\ [VolNext]_volVars => [RetentionHeld /\ NoLateRevision]_volVars
  BY StoreSteps
<1> QED
  BY <1>1, VolumesInvariant, PTL DEF VolSpec
=============================================================================
