------------------------------ MODULE SdkChannel ------------------------------
(***************************************************************************)
(* A TTY or VNC channel of the SDK (openChannel in packages/sdk/src        *)
(* index.ts), from its first connection on: its sockets, the bounded queue *)
(* between their event handlers and the reader of `output', send limits,   *)
(* reconnect calls by several fibers, and the end of the scope.  An event  *)
(* handler is one step.  A fiber whose socket opens attaches it in the     *)
(* microtask after the event, so both are one step.  Everything a peer,    *)
(* a network or a caller may do can happen between two steps.              *)
(***************************************************************************)
EXTENDS Naturals, FiniteSets, SequencesExt

CONSTANTS
  Fibers,       \* callers of reconnect
  MaxFrames,    \* MAX_CHANNEL_BACKLOG_FRAMES
  MaxBytes,     \* MAX_CHANNEL_BACKLOG_BYTES
  Sizes,        \* sizes of received frames
  MaxAttempts,  \* retries of reconnectSchedule
  MaxSockets,   \* bound on sockets
  MaxSent,      \* bound on frames per socket
  Interruptions \* bound on interrupted reconnects

ChannelAssumption ==
  /\ {MaxFrames, MaxBytes, MaxSockets, MaxSent} \subseteq Nat \ {0} /\ MaxAttempts \in Nat
  /\ Interruptions \in Nat /\ Sizes \subseteq Nat \ {0} /\ IsFiniteSet(Fibers)

Sockets == 1..MaxSockets

VARIABLES
  phase,      \* of each socket: "none", "connecting", "open" or "closed"
  deaf,       \* sockets whose handlers were set to null
  sent,       \* number of frames each socket handed to its handler
  current,    \* the attached socket, 0 for undefined
  released, disconnectPending, terminalError,
  queue,      \* the queue's items, and behind its capacity the offers that wait for room
  queuedFrames, queuedBytes,
  fiber,      \* phase of each reconnect, its socket, and the retries it has left
  abandoned,  \* history: sockets whose reconnect was interrupted
  reader,     \* "idle", "taking", "ended", "failed" or "stopped"
  got         \* history: the frames the reader took

channelVars == <<phase, deaf, sent, current, released, disconnectPending, terminalError, queue,
          queuedFrames, queuedBytes, fiber, abandoned, reader, got>>
sockVars == <<phase, deaf, sent, current>>
queueVars == <<queue, queuedFrames, queuedBytes>>
readVars == <<reader, got>>
fiberVars == <<fiber, abandoned>>

Capacity == MaxFrames + 1
NoReconnect == [at |-> "idle", sock |-> 0, left |-> 0]
Frame(s, n, size) == [from |-> s, n |-> n, size |-> size]
\* Signals have no size.
disconnectSignal == Frame(0, 0, 0)
failureSignal == Frame(0, 1, 0)
IsFrame(item) == item.from # 0

\* The first socket is attached.
ChannelInit ==
  /\ phase = [s \in Sockets |-> IF s = 1 THEN "open" ELSE "none"]
  /\ deaf = {} /\ sent = [s \in Sockets |-> 0] /\ current = 1
  /\ released = FALSE /\ disconnectPending = FALSE /\ terminalError = FALSE
  /\ queue = <<>> /\ queuedFrames = 0 /\ queuedBytes = 0
  /\ fiber = [f \in Fibers |-> NoReconnect] /\ abandoned = {}
  /\ reader = "idle" /\ got = <<>>

-----------------------------------------------------------------------------
(* The queue. *)

SizeOf(items) == FoldLeft(LAMBDA total, item : total + item.size, 0, items)
FramesOf(items) == SelectSeq(items, IsFrame)

\* takeAll returns what is in the queue; offers that wait then move into it.
Taken == SubSeq(queue, 1, IF Len(queue) < Capacity THEN Len(queue) ELSE Capacity)
Waiting == SubSeq(queue, Capacity + 1, Len(queue))

drainQueuedFrames(signals) ==
  /\ queue' = Waiting \o signals
  /\ queuedFrames' = queuedFrames - Len(FramesOf(Taken))
  /\ queuedBytes' = queuedBytes - SizeOf(Taken)

failTerminal(s) ==
  /\ terminalError' = TRUE /\ disconnectPending' = FALSE
  /\ current' = IF current = s THEN 0 ELSE current
  /\ deaf' = deaf \cup {s} /\ phase' = [phase EXCEPT ![s] = "closed"]
  /\ drainQueuedFrames(<<failureSignal>>)

Fits(size) == size <= MaxBytes - queuedBytes /\ queuedFrames < MaxFrames

\* Mutant: a frame without room is dropped.
offerOrDrop(s, size) ==
  /\ IF Fits(size)
       THEN /\ queue' = Append(queue, Frame(s, sent[s] + 1, size))
            /\ queuedFrames' = queuedFrames + 1 /\ queuedBytes' = queuedBytes + size
       ELSE UNCHANGED queueVars
  /\ UNCHANGED <<phase, deaf, current, disconnectPending, terminalError>>

offerFrame(s, size) ==
  \/ /\ ~Fits(size) /\ failTerminal(s)
  \/ /\ Fits(size) /\ queue' = Append(queue, Frame(s, sent[s] + 1, size))
     /\ queuedFrames' = queuedFrames + 1 /\ queuedBytes' = queuedBytes + size
     /\ UNCHANGED <<phase, deaf, current, disconnectPending, terminalError>>

-----------------------------------------------------------------------------
(* The sockets' events. *)

onmessage(s) ==
  /\ phase[s] = "open" /\ s \notin deaf /\ ~released /\ ~terminalError /\ sent[s] < MaxSent
  /\ \E size \in Sizes : offerFrame(s, size)
  /\ sent' = [sent EXCEPT ![s] = @ + 1]
  /\ UNCHANGED <<released, fiberVars, readVars>>

\* The peer closes an open socket.
onclose(s) ==
  /\ phase[s] = "open" /\ phase' = [phase EXCEPT ![s] = "closed"]
  /\ IF s \notin deaf /\ ~released /\ current = s
       THEN current' = 0 /\ disconnectPending' = TRUE /\ queue' = Append(queue, disconnectSignal)
       ELSE UNCHANGED <<current, disconnectPending, queue>>
  /\ UNCHANGED <<deaf, sent, released, terminalError, queuedFrames, queuedBytes, fiberVars, readVars>>

Awaiting(s) == {f \in Fibers : fiber[f].at = "connecting" /\ fiber[f].sock = s}

attach(s) ==
  /\ current' = s
  /\ phase' = [t \in Sockets |-> IF t = s THEN "open" ELSE IF t = current THEN "closed" ELSE phase[t]]
  /\ deaf' = IF current = 0 THEN deaf ELSE deaf \cup {current}

\* When nobody waits for the socket any more it just stays open.
onopen(s) ==
  /\ phase[s] = "connecting"
  /\ IF Awaiting(s) = {}
       THEN phase' = [phase EXCEPT ![s] = "open"] /\ UNCHANGED <<deaf, current>>
       ELSE attach(s)
  /\ fiber' = [f \in Fibers |-> IF f \in Awaiting(s) THEN NoReconnect ELSE fiber[f]]
  /\ UNCHANGED <<sent, released, disconnectPending, terminalError, queueVars, abandoned, readVars>>

\* The retry schedule runs out or waits before the next attempt.
AfterFailure(f) == IF fiber[f].left = 0 THEN NoReconnect ELSE [at |-> "delay", sock |-> 0, left |-> fiber[f].left - 1]

onerror(s) ==
  /\ phase[s] = "connecting" /\ phase' = [phase EXCEPT ![s] = "closed"]
  /\ fiber' = [f \in Fibers |-> IF f \in Awaiting(s) THEN AfterFailure(f) ELSE fiber[f]]
  /\ UNCHANGED <<deaf, sent, current, released, disconnectPending, terminalError, queueVars, abandoned, readVars>>

-----------------------------------------------------------------------------
(* Callers. *)

reconnect(f) ==
  /\ fiber[f].at = "idle" /\ ~terminalError /\ ~released /\ ~disconnectPending
  /\ fiber' = [fiber EXCEPT ![f] = [at |-> "session", sock |-> 0, left |-> MaxAttempts]]
  /\ UNCHANGED <<sockVars, released, disconnectPending, terminalError, queueVars, abandoned, readVars>>

\* The capability is issued and the socket constructed, or not.
connectOnce(f) ==
  /\ fiber[f].at = "session"
  /\ \/ /\ fiber' = [fiber EXCEPT ![f] = AfterFailure(f)] /\ UNCHANGED phase
     \/ \E s \in Sockets :
          /\ phase[s] = "none" /\ \A t \in Sockets : t < s => phase[t] # "none"
          /\ phase' = [phase EXCEPT ![s] = "connecting"]
          /\ fiber' = [fiber EXCEPT ![f].at = "connecting", ![f].sock = s]
  /\ UNCHANGED <<deaf, sent, current, released, disconnectPending, terminalError, queueVars, abandoned, readVars>>

RetryNow(f) ==
  /\ fiber[f].at = "delay" /\ fiber' = [fiber EXCEPT ![f].at = "session"]
  /\ UNCHANGED <<sockVars, released, disconnectPending, terminalError, queueVars, abandoned, readVars>>

\* A reconnect is interrupted, by a timeout for instance.
Interrupt(f) ==
  /\ fiber[f].at # "idle" /\ Cardinality(abandoned) < Interruptions
  /\ fiber' = [fiber EXCEPT ![f] = NoReconnect]
  /\ abandoned' = IF fiber[f].sock = 0 THEN abandoned ELSE abandoned \cup {fiber[f].sock}
  /\ UNCHANGED <<sockVars, released, disconnectPending, terminalError, queueVars, readVars>>

\* A frame to send, or what the socket has buffered, is over its limit.
SendOverLimit ==
  /\ ~terminalError /\ ~released /\ current # 0 /\ phase[current] = "open" /\ failTerminal(current)
  /\ UNCHANGED <<sent, released, fiberVars, readVars>>

output ==
  /\ reader \in {"idle", "ended"} /\ ~released
  /\ reader' = IF terminalError THEN "failed" ELSE "taking"
  /\ UNCHANGED <<sockVars, released, disconnectPending, terminalError, queueVars, fiberVars, got>>

takeOutput ==
  /\ reader = "taking" /\ queue # <<>> /\ queue' = Tail(queue)
  /\ LET item == Head(queue) IN
     \/ /\ item = disconnectSignal /\ disconnectPending' = FALSE /\ reader' = "ended"
        /\ UNCHANGED <<queuedFrames, queuedBytes, got>>
     \/ /\ item = failureSignal /\ reader' = "failed"
        /\ UNCHANGED <<disconnectPending, queuedFrames, queuedBytes, got>>
     \/ /\ IsFrame(item) /\ got' = Append(got, item)
        /\ queuedFrames' = queuedFrames - 1 /\ queuedBytes' = queuedBytes - item.size
        /\ UNCHANGED <<disconnectPending, reader>>
  /\ UNCHANGED <<sockVars, released, terminalError, fiberVars>>

\* The finalizer of the scope; shutdown interrupts the reader and drops the queue.
Release ==
  /\ ~released /\ released' = TRUE
  /\ IF current = 0 THEN UNCHANGED <<phase, deaf>>
     ELSE phase' = [phase EXCEPT ![current] = "closed"] /\ deaf' = deaf \cup {current}
  /\ queue' = <<>> /\ queuedFrames' = queuedFrames - Len(FramesOf(Taken))
  /\ queuedBytes' = queuedBytes - SizeOf(Taken)
  /\ reader' = IF reader = "taking" THEN "stopped" ELSE reader
  /\ UNCHANGED <<sent, current, disconnectPending, terminalError, fiberVars, got>>

ChannelNext ==
  \/ \E s \in Sockets : onmessage(s) \/ onclose(s) \/ onopen(s) \/ onerror(s)
  \/ \E f \in Fibers : reconnect(f) \/ connectOnce(f) \/ RetryNow(f) \/ Interrupt(f)
  \/ SendOverLimit \/ output \/ takeOutput \/ Release

ChannelSpec == ChannelInit /\ [][ChannelNext]_channelVars

-----------------------------------------------------------------------------

\* Until the scope ends the budget counts exactly the frames in the queue, and its
\* limits hold, whatever fails, disconnects or is drained.
BudgetExact ==
  /\ ~released => queuedFrames = Len(FramesOf(queue)) /\ queuedBytes = SizeOf(queue)
  /\ queuedFrames \in 0..MaxFrames /\ queuedBytes \in 0..MaxBytes

\* The numbers of the frames of socket s among some items, and whether they go up.
NumbersIn(s, items) == {items[i].n : i \in {k \in DOMAIN items : items[k].from = s}}
Ascending(s, items) ==
  \A i, j \in DOMAIN items :
    i < j /\ items[i].from = s /\ items[j].from = s => items[i].n < items[j].n

\* No frame is lost, repeated or reordered silently: what a reader has got and will
\* get of a socket is all it received, unless the channel failed or was released.
FramesComplete ==
  ~released /\ ~terminalError =>
    \A s \in Sockets : NumbersIn(s, got \o queue) = 1..sent[s] /\ Ascending(s, got \o queue)

\* A socket stays open only as the attached one, or because its reconnect was
\* interrupted: replacing a socket closes the one before.
OpenIsOwned == \A s \in Sockets : phase[s] = "open" => s = current \/ s \in abandoned

\* A reader of the channel misses no frame without an error, and every open socket has
\* an owner (openChannel).
NoSilentGap == FramesComplete /\ OpenIsOwned

\* The channel failed, was released or lost its connection: a reader that drains its
\* output must learn of it, however much is queued and whoever reconnects meanwhile.
EndIsDue == terminalError \/ released \/ disconnectPending
=============================================================================
