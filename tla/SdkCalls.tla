------------------------------- MODULE SdkCalls -------------------------------
(***************************************************************************)
(* Managed calls of the SDK (packages/sdk/src/index.ts) over a network     *)
(* that loses, delays and cuts off: attempts with their timeouts, retries  *)
(* of what is safe to retry, idempotency keys, forks that are still        *)
(* pending, transfers that first open a session, and callers who repeat a  *)
(* call with the key its error names.  An attempt that was given up may    *)
(* still be executed at any time.  Of the control plane only what its      *)
(* routes do with a key is here: the row of a create or of a fork keeps    *)
(* it, a repeated request finds that row, and a request without a key is   *)
(* executed as often as it arrives.                                        *)
(***************************************************************************)
EXTENDS Naturals, FiniteSets

CONSTANTS
  Calls,
  MaxRetries,  \* options.maxRetries
  MaxAgain     \* bound on how often a caller repeats a call

CallsAssumption ==
  IsFiniteSet(Calls) /\ MaxRetries \in Nat /\ MaxAgain \in Nat

Kinds == {"create", "fork", "exec", "transfer"}

VARIABLES
  kind,     \* what each call does
  state,    \* of each call: "idle", "waiting", "delay", "ok", "pending" or "failed"
  stage,    \* "session" or "work": a transfer needs a session first
  attempt,  \* retries of this request so far
  key,      \* its idempotency key, 0 for none
  known,    \* the key that an error or a ForkPending told the caller, 0 for none
  again,    \* how often the caller called
  flight,   \* the attempt: "none", "sent", "body", or the answer that arrived
  late,     \* attempts that were given up and may still be executed
  keys,     \* number of keys made so far
  op,       \* what the server remembers under each key
  effects   \* how often each call had its effect

callsVars == <<kind, state, stage, attempt, key, known, again, flight, late, keys, op, effects>>
clientVars == <<kind, state, stage, attempt, key, known, again, keys>>
serverVars == <<op, effects>>

MaxKeys == Cardinality(Calls) * (MaxAgain + 1)

CallsInit ==
  /\ kind \in [Calls -> Kinds]
  /\ state = [c \in Calls |-> "idle"] /\ stage = [c \in Calls |-> "work"]
  /\ attempt = [c \in Calls |-> 0] /\ key = [c \in Calls |-> 0] /\ known = [c \in Calls |-> 0]
  /\ again = [c \in Calls |-> 0] /\ flight = [c \in Calls |-> "none"] /\ late = {} /\ keys = 0
  /\ op = [k \in 1..MaxKeys |-> "none"] /\ effects = [c \in Calls |-> 0]

-----------------------------------------------------------------------------
(* The control plane. *)

\* Executing a request: what is remembered, whether it has an effect, the answer.
\* Any execution may fail before its effect or lose its answer after it.
Executed(c, k, st) ==
  { [op |-> IF k = 0 THEN "none" ELSE op[k], effect |-> 0, answer |-> a] : a \in {"transient", "refused"} }
  \cup
  IF st = "session" THEN {[op |-> "none", effect |-> 0, answer |-> "ok"]}
  ELSE IF k = 0 THEN {[op |-> "none", effect |-> 1, answer |-> a] : a \in {"ok", "transient"}}
  ELSE IF op[k] = "none"
    THEN IF kind[c] = "fork" THEN {[op |-> "running", effect |-> 1, answer |-> "pending"], [op |-> "done", effect |-> 1, answer |-> "ok"]}
         ELSE {[op |-> "done", effect |-> 1, answer |-> "ok"]}
    ELSE { [op |-> op[k], effect |-> 0, answer |-> CASE op[k] = "running" -> "pending"
                                                     [] op[k] = "done" -> "ok"
                                                     [] op[k] = "failed" -> "refused"] }

Remember(c, k, result) ==
  /\ op' = IF k = 0 THEN op ELSE [op EXCEPT ![k] = result.op]
  /\ effects' = [effects EXCEPT ![c] = @ + result.effect]

\* The attempt is executed; its answer arrives, breaks off within the body, or not at all.
Execute(c) ==
  /\ flight[c] = "sent"
  /\ \E result \in Executed(c, key[c], stage[c]) :
       Remember(c, key[c], result) /\ \E a \in {result.answer, "body"} : flight' = [flight EXCEPT ![c] = a]
  /\ UNCHANGED <<clientVars, late>>

ExecuteLate ==
  \E r \in late :
    /\ late' = late \ {r}
    /\ \E result \in Executed(r.call, r.key, r.stage) : Remember(r.call, r.key, result)
    /\ UNCHANGED <<clientVars, flight>>

\* The control plane finishes or cleans up a fork it accepted.
ForkEnds ==
  /\ \E k \in 1..MaxKeys : op[k] = "running" /\ \E o \in {"done", "failed"} : op' = [op EXCEPT ![k] = o]
  /\ UNCHANGED <<clientVars, flight, late, effects>>

-----------------------------------------------------------------------------
(* The client. *)

\* Mutant: every request is retried.
RetryableAll(c) == TRUE

\* Sessions, and mutations with a key; never a command or the transfer itself.
Retryable(c) == stage[c] = "session" \/ key[c] # 0

RetriesLeft(c) == attempt[c] < MaxRetries

Send(c) == state' = [state EXCEPT ![c] = "waiting"] /\ flight' = [flight EXCEPT ![c] = "sent"]

Begin(c) ==
  /\ state[c] = "idle" /\ Send(c)
  /\ stage' = [stage EXCEPT ![c] = IF kind[c] = "transfer" THEN "session" ELSE "work"]
  /\ LET keyed == kind[c] \in {"create", "fork"} IN
     /\ keys' = IF keyed /\ known[c] = 0 THEN keys + 1 ELSE keys
     /\ key' = [key EXCEPT ![c] = IF ~keyed THEN 0 ELSE IF known[c] = 0 THEN keys' ELSE known[c]]
  /\ attempt' = [attempt EXCEPT ![c] = 0]
  /\ UNCHANGED <<kind, known, again, late, serverVars>>

\* requestDetailed: transient failures of retryable requests are retried with the same
\* key; every other failure of it ends the call and names the key.
Fails(c, transient) ==
  /\ state' = [state EXCEPT ![c] = IF transient /\ Retryable(c) /\ RetriesLeft(c) THEN "delay" ELSE "failed"]
  /\ known' = IF state'[c] = "failed" THEN [known EXCEPT ![c] = key[c]] ELSE known
  /\ flight' = [flight EXCEPT ![c] = "none"]
  /\ UNCHANGED <<kind, stage, attempt, key, again, keys, serverVars>>

\* The timeout, or a network error; an answer that breaks off ends here as well.
TimesOut(c) ==
  /\ state[c] = "waiting" /\ flight[c] \in {"sent", "body"}
  /\ late' = IF flight[c] = "body" THEN late
             ELSE late \cup {[call |-> c, key |-> key[c], stage |-> stage[c], nr |-> <<again[c], attempt[c]>>]}
  /\ Fails(c, TRUE)

Refused(c) ==
  /\ state[c] = "waiting" /\ flight[c] \in {"transient", "refused"}
  /\ Fails(c, flight[c] = "transient") /\ UNCHANGED late

Retry(c) ==
  /\ state[c] = "delay" /\ Send(c) /\ attempt' = [attempt EXCEPT ![c] = @ + 1]
  /\ UNCHANGED <<kind, stage, key, known, again, late, keys, serverVars>>

Succeeds(c) ==
  /\ state[c] = "waiting" /\ flight[c] = "ok" /\ stage[c] = "work"
  /\ state' = [state EXCEPT ![c] = "ok"] /\ flight' = [flight EXCEPT ![c] = "none"]
  /\ UNCHANGED <<kind, stage, attempt, key, known, again, late, keys, serverVars>>

\* A session is there: the transfer itself is one more request.
SessionOpened(c) ==
  /\ state[c] = "waiting" /\ flight[c] = "ok" /\ stage[c] = "session" /\ Send(c)
  /\ stage' = [stage EXCEPT ![c] = "work"] /\ attempt' = [attempt EXCEPT ![c] = 0]
  /\ UNCHANGED <<kind, key, known, again, late, keys, serverVars>>

\* ForkPending tells the caller the key.
pendingFork(c) ==
  /\ state[c] = "waiting" /\ flight[c] = "pending"
  /\ state' = [state EXCEPT ![c] = "pending"] /\ flight' = [flight EXCEPT ![c] = "none"]
  /\ known' = [known EXCEPT ![c] = key[c]]
  /\ UNCHANGED <<kind, stage, attempt, key, again, late, keys, serverVars>>

\* An answer to a fork that contradicts itself or the request: the call fails with an
\* error that names no key, so the caller cannot repeat it as the same call.
mismatchedFork(c) ==
  /\ state[c] = "waiting" /\ flight[c] \in {"ok", "pending"} /\ kind[c] = "fork"
  /\ state' = [state EXCEPT ![c] = "failed"] /\ flight' = [flight EXCEPT ![c] = "none"]
  /\ UNCHANGED <<kind, stage, attempt, key, known, again, late, keys, serverVars>>

\* A caller repeats a keyed call that did not succeed.
CallAgain(c) ==
  /\ state[c] \in {"failed", "pending"} /\ known[c] # 0 /\ again[c] < MaxAgain
  /\ state' = [state EXCEPT ![c] = "idle"] /\ again' = [again EXCEPT ![c] = @ + 1]
  /\ UNCHANGED <<kind, stage, attempt, key, known, flight, late, keys, serverVars>>

ClientStep(c) == TimesOut(c) \/ Refused(c) \/ Retry(c) \/ Succeeds(c) \/ SessionOpened(c)
                 \/ pendingFork(c) \/ mismatchedFork(c)

CallsNext ==
  \/ \E c \in Calls : Begin(c) \/ Execute(c) \/ ClientStep(c) \/ CallAgain(c)
  \/ ExecuteLate \/ ForkEnds

CallsSpec == CallsInit /\ [][CallsNext]_callsVars

-----------------------------------------------------------------------------

\* Attempts are retried, executed after they were given up, and repeated by the caller.
EffectOnce == \A c \in Calls : effects[c] <= 1

\* What a call returns as its result is finished: a fork that succeeded has all its
\* children ready, and a call that returned had its effect.
ReturnedIsReady ==
  \A c \in Calls : state[c] = "ok" => effects[c] = 1 /\ (key[c] # 0 => op[key[c]] = "done")

\* A call of the SDK has its effect at most once, although attempts are retried,
\* executed late and repeated, and what it returns is finished: retries are safe.
OneEffect == EffectOnce /\ ReturnedIsReady
=============================================================================
