-------------------------- MODULE RequestPipeline --------------------------
(***************************************************************************)
(* What every API request passes through: the admission windows before and *)
(* after authentication (auth/api-admission.ts), authenticate and its      *)
(* audit (http/auth.ts, audit/audit.ts), the handler's audited operation   *)
(* (AuditService.capture) and the answer of the router (http/router.ts).   *)
(* A statement takes its timestamp when it starts and its row locks later, *)
(* so statements of an old window are applied after those of a new one.    *)
(* Device logins have windows of their own (auth/device.ts), one row for   *)
(* each window and by the clock of the process.  Admission fails closed,   *)
(* as config.ts demands in production.                                     *)
(***************************************************************************)
EXTENDS Naturals, FiniteSets

CONSTANTS
  Requests,   \* API requests
  Traffic,    \* what a request may present: [src, cred, prefix, kind, who, org, project]
  Limit,      \* the limit of each scope
  Logins,     \* POST /v1/device/authorizations in flight
  LoginLimit, \* logins of one source in a window
  GlobalLimit, \* logins of all sources in a window
  Retained,   \* windows for which the rows of device_authorization_rate_limits are kept
  Lag,        \* windows a login may wait between reading its clock and its transaction
  MaxWindow,  \* bound: the clock stops here
  MaxFaults,  \* bound on statements that fail
  None

VARIABLES
  win,      \* the current window
  rows,     \* api_admission_windows
  admitted, \* history: requests a bucket let pass, by window
  req,      \* API requests
  attempts, \* authentication_attempt_windows
  events,   \* audit_events: of authentications and of operations
  effects,  \* requests whose operation has changed something
  login,    \* device logins
  logins,   \* device_authorization_rate_limits
  faults

admVars == <<rows, admitted>>
audVars == <<attempts, events>>
pipelineVars == <<win, admVars, req, audVars, effects, login, logins, faults>>

Windows == 0 .. MaxWindow
Sources == {t.src : t \in Traffic}
LoginKeys == Sources \cup {"global"}

\* Rows of a window are kept as long as a login may still come to count in it.
PipelineAssumption ==
  /\ IsFiniteSet(Requests) /\ IsFiniteSet(Logins)
  /\ {LoginLimit, GlobalLimit, Retained, Lag, MaxWindow, MaxFaults} \subseteq Nat /\ Lag <= Retained
  /\ \A scope \in DOMAIN Limit : Limit[scope] \in Nat
  /\ {"preauth_ip", "preauth_credential", "preauth_api_key", "principal", "organization", "project"}
       \subseteq DOMAIN Limit
  /\ "global" \notin Sources /\ None # "limited" /\ \A t \in Traffic : t.kind # None

\* The bucket of a public prefix pairs it with the source.
prefixBucket(t, src) == IF t.prefix = None THEN {} ELSE {<<"preauth_api_key", <<src, t.prefix>>>>}
\* preAuthenticate: the source, the whole credential, and the public prefix at this source.
preAuthBuckets(t) ==
  {<<"preauth_ip", t.src>>, <<"preauth_credential", t.cred>>} \cup prefixBucket(t, t.src)

\* authenticate: the principal, its organization, and the project of an API key.
postAuthBuckets(t) ==
  {<<"principal", t.who>>, <<"organization", t.org>>}
    \cup (IF t.project = None THEN {} ELSE {<<"project", t.project>>})

Buckets ==
  UNION {preAuthBuckets(t) \cup postAuthBuckets(t) \cup UNION {prefixBucket(t, s) : s \in Sources} : t \in Traffic}

\* Identities of one kind and source may share a slot of the attempt counters.
Slots == {<<t.kind, t.src>> : t \in Traffic}

NoTraffic == [src |-> None, cred |-> None, prefix |-> None, kind |-> None, who |-> None,
              org |-> None, project |-> None]

PipelineInit ==
  /\ win = 0 /\ faults = 0 /\ events = {} /\ effects = {}
  /\ rows = [b \in Buckets |-> [win |-> 0, count |-> 0]]
  /\ admitted = [b \in Buckets |-> [w \in Windows |-> 0]]
  /\ req = [q \in Requests |-> [pc |-> "idle", t |-> NoTraffic, at |-> 0, outcome |-> None]]
  /\ attempts = [s \in Slots |-> [win |-> 0, succeeded |-> 0, denied |-> 0]]
  /\ login = [d \in Logins |-> [pc |-> "idle", src |-> None, at |-> 0]]
  /\ logins = [s \in LoginKeys |-> [w \in Windows |-> 0]]

Fault == faults < MaxFaults /\ faults' = faults + 1
WindowPasses == win < MaxWindow /\ win' = win + 1 /\ UNCHANGED <<admVars, req, audVars, effects, login, logins, faults>>

-----------------------------------------------------------------------------
(* PostgresApiAdmission.consume *)

\* Mutant: the row takes the window of the statement, also when it is older.
bumpBack(r, at) ==
  IF at # r.win THEN [win |-> at, count |-> 1] ELSE [r EXCEPT !.count = @ + 1]
\* A newer window starts the count afresh; a late statement counts in the newer window.
bump(r, at) ==
  IF at > r.win THEN [win |-> at, count |-> 1] ELSE [r EXCEPT !.count = @ + 1]

\* One statement adds to all buckets and lets the request pass if none is over its limit.
Over(bs, at) == \E b \in bs : bump(rows[b], at).count > Limit[b[1]]
consume(bs, at) ==
  /\ rows' = [b \in Buckets |-> IF b \in bs THEN bump(rows[b], at) ELSE rows[b]]
  /\ admitted' = [b \in Buckets |-> IF b \in bs /\ ~Over(bs, at)
                                    THEN [admitted[b] EXCEPT ![bump(rows[b], at).win] = @ + 1]
                                    ELSE admitted[b]]

-----------------------------------------------------------------------------
(* authenticate *)

At(q, pc) == req[q].pc = pc
Moves(q, pc) == req' = [req EXCEPT ![q].pc = pc, ![q].at = win]
Records(q, outcome) == req' = [req EXCEPT ![q].pc = "record", ![q].at = win, ![q].outcome = outcome]

\* A request arrives and its first statement starts.
arrive(q, t) ==
  /\ At(q, "idle")
  /\ req' = [req EXCEPT ![q].pc = "pre", ![q].t = t, ![q].at = win]
  /\ UNCHANGED <<win, admVars, audVars, effects, login, logins, faults>>

preAuthenticate(q) ==
  /\ At(q, "pre") /\ consume(preAuthBuckets(req[q].t), req[q].at)
  /\ IF Over(preAuthBuckets(req[q].t), req[q].at) THEN Records(q, "limited") ELSE Moves(q, "verify")
  /\ UNCHANGED <<win, audVars, effects, login, logins, faults>>

\* The credential is verified: unknown, busy verifier, no membership, or an identity.
authenticateRawIdentity(q) ==
  /\ At(q, "verify")
  /\ \/ req[q].t.who = None /\ Records(q, "unauthorized")
     \/ req[q].t.who # None /\ req[q].t.kind = "api_key" /\ Records(q, "busy")
     \/ req[q].t.who # None /\ req[q].t.kind = "user" /\ Records(q, "unauthorized")
     \/ req[q].t.who # None /\ Moves(q, "post")
  /\ UNCHANGED <<win, admVars, audVars, effects, login, logins, faults>>

admitIdentity(q) ==
  /\ At(q, "post") /\ consume(postAuthBuckets(req[q].t), req[q].at)
  /\ IF Over(postAuthBuckets(req[q].t), req[q].at) THEN Records(q, "post_limited") ELSE Records(q, "succeeded")
  /\ UNCHANGED <<win, audVars, effects, login, logins, faults>>

\* failClosed: a request whose admission cannot be verified is not served and not counted.
ApiAdmissionUnavailable(q) ==
  /\ (At(q, "pre") \/ At(q, "post")) /\ Fault /\ Moves(q, "unavailable")
  /\ UNCHANGED <<win, admVars, audVars, effects, login, logins>>

AttemptSlot(q) == <<req[q].t.kind, req[q].t.src>>
Verdict(q) == IF req[q].outcome = "succeeded" THEN "succeeded" ELSE "denied"
Counted(q) ==
  LET r == attempts[AttemptSlot(q)]
      fresh == [win |-> req[q].at, succeeded |-> 0, denied |-> 0]
      base == IF req[q].at > r.win THEN fresh ELSE r
  IN IF Verdict(q) = "succeeded" THEN [base EXCEPT !.succeeded = @ + 1] ELSE [base EXCEPT !.denied = @ + 1]

EventKey(q) == <<AttemptSlot(q), Counted(q).win, Verdict(q)>>

Answer(outcome) ==
  CASE outcome = "succeeded" -> "handler"
    [] outcome \in {"limited", "busy", "post_limited"} -> "429"
    [] outcome = "unauthorized" -> "401"
    [] OTHER -> "403"

\* recordAttempt: the counter and the event of its window, in one statement.
recordAttempt(q) ==
  /\ At(q, "record")
  /\ attempts' = [attempts EXCEPT ![AttemptSlot(q)] = Counted(q)]
  /\ events' = events \cup {EventKey(q)}
  /\ req' = [req EXCEPT ![q].pc = Answer(req[q].outcome)]
  /\ UNCHANGED <<win, admVars, effects, login, logins, faults>>

recordFails(q) ==
  /\ At(q, "record") /\ Fault /\ Moves(q, "500")
  /\ UNCHANGED <<win, admVars, audVars, effects, login, logins>>

-----------------------------------------------------------------------------
(* The handler: permits, AuditService.capture, the router *)

\* A handler that refuses answers 403 or 404, which the router records.
permits(q) ==
  /\ At(q, "handler")
  /\ \/ Records(q, "forbidden")
     \/ Moves(q, "capture")
  /\ UNCHANGED <<win, admVars, audVars, effects, login, logins, faults>>

Terminal(q, outcome) == events' = events \cup {<<q, outcome>>}

\* Mutant: an operation runs although its intent could not be recorded.
captureAnyway(q) ==
  /\ At(q, "capture")
  /\ \/ events' = events \cup {<<q, "requested">>} /\ Moves(q, "operation") /\ UNCHANGED faults
     \/ Fault /\ Moves(q, "operation") /\ UNCHANGED events
  /\ UNCHANGED <<win, admVars, attempts, effects, login, logins>>

\* capture: the requested event commits first; if it cannot, nothing is attempted.
capture(q) ==
  /\ At(q, "capture")
  /\ \/ events' = events \cup {<<q, "requested">>} /\ Moves(q, "operation") /\ UNCHANGED faults
     \/ Fault /\ Moves(q, "500") /\ UNCHANGED events
  /\ UNCHANGED <<win, admVars, attempts, effects, login, logins>>

\* The operation changes something or not, and returns or throws.
operation(q) ==
  /\ At(q, "operation")
  /\ effects' \in {effects, effects \cup {q}}
  /\ \/ Moves(q, "completed")
     \/ Moves(q, "failed")
  /\ UNCHANGED <<win, admVars, audVars, login, logins, faults>>

\* The terminal event, or AuditCompletionUnavailable: 503, the operation may have completed.
\* The fork route alone leaves it (deferTerminal, failureHandled) to the transactions of
\* its operation, those of module Fork.
completed(q) ==
  /\ At(q, "completed")
  /\ \/ Terminal(q, "succeeded") /\ Moves(q, "200") /\ UNCHANGED faults
     \/ Fault /\ Moves(q, "503") /\ UNCHANGED events
  /\ UNCHANGED <<win, admVars, attempts, effects, login, logins>>

failed(q) ==
  /\ At(q, "failed")
  /\ \/ Terminal(q, "failed") /\ Moves(q, "500") /\ UNCHANGED faults
     \/ Fault /\ Moves(q, "503") /\ UNCHANGED events
  /\ UNCHANGED <<win, admVars, attempts, effects, login, logins>>

-----------------------------------------------------------------------------
(* Device logins: #consumeIssueRateLimits *)

\* The process reads its clock, then waits for the transaction.
issue(d, s) ==
  /\ login[d].pc = "idle"
  /\ login' = [login EXCEPT ![d] = [pc |-> "limit", src |-> s, at |-> win]]
  /\ UNCHANGED <<win, admVars, req, audVars, effects, logins, faults>>

\* cleanupRateLimits: windows that ended long ago, by the clock of this process.
cleanupRateLimits(w, at) == w + Retained < at

\* Rows of old windows go, then the rows of this window count, for all and for the source;
\* the counts commit also when the login is refused.
Kept(at) == [k \in LoginKeys |-> [v \in Windows |-> IF cleanupRateLimits(v, at) THEN 0 ELSE logins[k][v]]]
rateLimit(k, at) == IF Kept(at)[k][at] + 1 > (IF k = "global" THEN GlobalLimit ELSE LoginLimit)
                    THEN "refused" ELSE "issued"
consumeIssueRateLimits(d) ==
  LET s == login[d].src
      w == login[d].at
  IN /\ login[d].pc = "limit" /\ win <= w + Lag
     /\ logins' = [k \in LoginKeys |-> IF k \in {s, "global"} THEN [Kept(w)[k] EXCEPT ![w] = @ + 1] ELSE Kept(w)[k]]
     /\ login' = [login EXCEPT ![d].pc =
                    IF \A k \in {s, "global"} : rateLimit(k, w) = "issued" THEN "issued" ELSE "refused"]
     /\ UNCHANGED <<win, admVars, req, audVars, effects, faults>>

-----------------------------------------------------------------------------
handle(q) ==
  \/ \E t \in Traffic : arrive(q, t)
  \/ preAuthenticate(q) \/ authenticateRawIdentity(q) \/ admitIdentity(q) \/ ApiAdmissionUnavailable(q)
  \/ recordAttempt(q) \/ recordFails(q) \/ permits(q)
  \/ capture(q) \/ operation(q) \/ completed(q) \/ failed(q)

PipelineNext ==
  \/ WindowPasses
  \/ \E q \in Requests : handle(q)
  \/ \E d \in Logins : consumeIssueRateLimits(d) \/ \E s \in Sources : issue(d, s)

PipelineSpec == PipelineInit /\ [][PipelineNext]_pipelineVars

-----------------------------------------------------------------------------
(* What the pipeline promises *)

\* No bucket lets more than its limit pass in one window, although statements of an older
\* window are applied late; so a stolen key is verified at most that often from anywhere.
AdmittedPerWindow ==
  \A b \in Buckets : \A w \in Windows : admitted[b][w] <= Limit[b[1]]

Presenting(p(_)) == Cardinality({q \in Requests : ~At(q, "idle") /\ p(req[q].t)})

\* Someone at another source who only knows a key's public prefix cannot deny its owner: a
\* request is refused before authentication only for what its own source, or holders of
\* the whole credential, have sent (comment at auth/api-admission.ts:152).
RefusedForOwnTraffic ==
  \A q \in Requests : req[q].outcome = "limited" =>
    \/ Presenting(LAMBDA t : t.src = req[q].t.src) > Limit["preauth_ip"]
    \/ Presenting(LAMBDA t : t.cred = req[q].t.cred) > Limit["preauth_credential"]
    \/ Presenting(LAMBDA t : t.src = req[q].t.src /\ t.prefix = req[q].t.prefix) > Limit["preauth_api_key"]

\* The counters and the trail agree: a window that counts a success or a denial has the
\* representative event of it (comment at audit/audit.ts:142).
WindowHasEvent ==
  \A s \in Slots :
    /\ attempts[s].succeeded > 0 => <<s, attempts[s].win, "succeeded">> \in events
    /\ attempts[s].denied > 0 => <<s, attempts[s].win, "denied">> \in events

\* Nothing is changed without a recorded intent, and an operation that ended without its
\* terminal event was answered as pending (comment at audit/audit.ts:100).
EffectHasTrail ==
  \A q \in Requests :
    /\ q \in effects => <<q, "requested">> \in events
    /\ (<<q, "requested">> \in events /\ req[q].pc \in {"200", "500"}) =>
         \E o \in {"succeeded", "failed"} : <<q, o>> \in events

\* What changed something has an audit event, and every counting window has its
\* event, although any statement may fail (audit/audit.ts).
AuditComplete == EffectHasTrail /\ WindowHasEvent

\* Device logins stay within the limits of their source and of all sources in one window,
\* by whichever clock the window is counted and although old windows are cleaned up meanwhile.
Issued(s, w) == {d \in Logins : login[d].pc = "issued" /\ login[d].src = s /\ login[d].at = w}
LoginsPerWindow ==
  \A w \in Windows :
    /\ \A s \in Sources : Cardinality(Issued(s, w)) <= LoginLimit
    /\ Cardinality(UNION {Issued(s, w) : s \in Sources}) <= GlobalLimit
=============================================================================
