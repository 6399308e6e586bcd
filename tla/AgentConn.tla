------------------------------ MODULE AgentConn ------------------------------
(***************************************************************************)
(* The agent's WebSocket connection to the server (server/conn.go,         *)
(* session.go, session_handler.go): the goroutines of one Run - reader,    *)
(* writer, heartbeat, alert flusher - and those of remote sessions, over   *)
(* the bounded channel sendCh, the cancelled context and the channel done. *)
(*                                                                         *)
(* Run is called again and again (RunForever).  The alert ring outlives a  *)
(* connection; sendCh, done and the session manager do not.  A session     *)
(* goroutine that outlives its connection goes on with the old ones: done  *)
(* is closed there, so nothing it sends has an effect.                     *)
(*                                                                         *)
(* Alert events are numbers in the order of SendAlertEvent.  A message in  *)
(* sendCh is the sequence of the events it carries; acks, heartbeats and   *)
(* session output carry none.  Network trouble may hit any read or write.  *)
(*                                                                         *)
(* A definition introduced by "Fault:" is a wrong version of the one after *)
(* it, kept to show that a property notices.                               *)
(***************************************************************************)
EXTENDS Integers, Sequences, FiniteSets, SequencesExt

CONSTANTS
    SessionId,       \* ids the server may use (none: it asks for no session)
    Routine,         \* session goroutines that may exist at a time
    None,            \* nil, or no goroutine
    RingCapacity,    \* of the alert ring
    SendChSize,      \* capacity of sendCh (64 in the code)
    FlushBatch,      \* alertFlushBatch (100 in the code)
    MaxConcurrent,   \* slots of the concurrency limiter
    MaxEvents        \* bound: alert events in a behaviour

ASSUME ConnAssumption ==
    /\ None \notin SessionId \cup Routine
    /\ IsFiniteSet(Routine)
    /\ {RingCapacity, SendChSize, FlushBatch, MaxConcurrent} \subseteq Nat \ {0}
    /\ MaxEvents \in Nat

VARIABLES
    ring,        \* the alert ring, as BoundedAlertQueue has it
    pushed,      \* number of events given to SendAlertEvent
    received,    \* the events the server has received
    sendCh,      \* messages waiting to be written
    ctxDone,     \* the context of the connection is cancelled
    done,        \* the channel done is closed
    reader,      \* position of the goroutine of Run
    asked,       \* the id it is about to enter, with a slot taken for it
    starting,    \* the session it acknowledges, if it does
    writer,      \* "off", "select" or "writing"
    inWriter,    \* the message being written
    flusher,     \* "off", "select", "draining" or "sending"
    inFlusher,   \* the batch taken from the ring
    heart,       \* "off" or "on"
    sessions,    \* the session manager: SessionId -> goroutine
    session,     \* Routine -> its session id
    routine,     \* Routine -> its position
    cancelled,   \* goroutines whose session context is cancelled
    old,         \* goroutines whose connection is gone
    sem          \* slots taken from the limiter

ringVars    == <<ring, pushed>>
flushVars   == <<flusher, inFlusher>>
writeVars   == <<writer, inWriter, received>>
sessionVars == <<sessions, session, routine, cancelled, old, sem>>
connVars    == <<ctxDone, done>>
readVars    == <<reader, asked, starting>>
vars == <<ringVars, flushVars, writeVars, sessionVars, connVars, readVars,
          sendCh, heart>>

AlertQueue == INSTANCE BoundedAlertQueue
                WITH Event <- 1..MaxEvents, Capacity <- RingCapacity,
                     BatchSize <- {FlushBatch}, queue <- ring, drained <- inFlusher

NoEvents == <<>>    \* what an ack, a heartbeat or session output carries

-----------------------------------------------------------------------------
Init ==
    /\ ring = <<>> /\ pushed = 0 /\ received = <<>>
    /\ sendCh = <<>> /\ ctxDone = TRUE /\ done = TRUE
    /\ reader = "off" /\ asked = None /\ starting = None
    /\ writer = "off" /\ inWriter = NoEvents
    /\ flusher = "off" /\ inFlusher = NoEvents
    /\ heart = "off"
    /\ sessions = [i \in SessionId |-> None]
    /\ session = [g \in Routine |-> None]
    /\ routine = [g \in Routine |-> "free"]
    /\ cancelled = {} /\ old = {} /\ sem = 0

\* Fault: off by one.
RoomForOneMore == Len(sendCh) <= SendChSize

Room == Len(sendCh) < SendChSize

\* Fault: a send that finds the channel full gives up, like the heartbeat's.
PutOrDrop(m) == sendCh' = IF Room THEN Append(sendCh, m) ELSE sendCh

\* The select of sendACK, sendSessionOutput and flushAlertEvents: wait for room in
\* sendCh, or drop the message once done is closed (either, when both are ready).
Put(m) ==
    \/ Room /\ sendCh' = Append(sendCh, m)
    \/ done /\ sendCh' = sendCh

-----------------------------------------------------------------------------
\* SendAlertEvent, from the alert engine at any time.
SendAlertEvent ==
    /\ pushed < MaxEvents
    /\ pushed' = pushed + 1
    /\ ring' = AlertQueue!Pushed(ring, pushed + 1)
    /\ UNCHANGED <<flushVars, writeVars, sessionVars, connVars, readVars, sendCh, heart>>

\* Dial, register, ack, and the goroutines: a new Conn.
Connect ==
    /\ reader = "off"
    /\ sendCh' = <<>>
    /\ ctxDone' = FALSE /\ done' = FALSE
    /\ reader' = "reading" /\ writer' = "select" /\ heart' = "on" /\ flusher' = "select"
    /\ old' = {g \in Routine : routine[g] # "free"}
    /\ UNCHANGED <<ringVars, asked, starting, inWriter, inFlusher, received,
                   sessions, session, routine, cancelled, sem>>

-----------------------------------------------------------------------------
(***************************************************************************)
(* writeLoop                                                               *)
(***************************************************************************)
WriterTakes ==
    /\ writer = "select" /\ sendCh # <<>>
    /\ writer' = "writing" /\ inWriter' = Head(sendCh) /\ sendCh' = Tail(sendCh)
    /\ UNCHANGED <<ringVars, received, flushVars, sessionVars, connVars, readVars, heart>>

WriterQuits ==
    /\ writer = "select" /\ ctxDone
    /\ writer' = "off"
    /\ UNCHANGED <<ringVars, inWriter, received, flushVars, sessionVars, connVars,
                   readVars, sendCh, heart>>

WriteSucceeds ==
    /\ writer = "writing"
    /\ writer' = "select" /\ inWriter' = NoEvents /\ received' = received \o inWriter
    /\ UNCHANGED <<ringVars, flushVars, sessionVars, connVars, readVars, sendCh, heart>>

\* A time-out, a broken connection, a cancelled context; the server may or may not
\* have got the message.
WriteFails ==
    /\ writer = "writing"
    /\ writer' = "off" /\ inWriter' = NoEvents /\ ctxDone' = TRUE
    /\ received' \in {received, received \o inWriter}
    /\ UNCHANGED <<ringVars, flushVars, sessionVars, done, readVars, sendCh, heart>>

-----------------------------------------------------------------------------
(***************************************************************************)
(* heartbeatLoop and alertFlushLoop                                        *)
(***************************************************************************)
Heartbeat ==
    /\ heart = "on"
    /\ Room
    /\ sendCh' = Append(sendCh, NoEvents)
    /\ UNCHANGED <<ringVars, flushVars, writeVars, sessionVars, connVars, readVars, heart>>

HeartQuits ==
    /\ heart = "on" /\ ctxDone
    /\ heart' = "off"
    /\ UNCHANGED <<ringVars, flushVars, writeVars, sessionVars, connVars, readVars, sendCh>>

FlushTick ==
    /\ flusher = "select" /\ ring # <<>>
    /\ flusher' = "draining"
    /\ UNCHANGED <<ringVars, inFlusher, writeVars, sessionVars, connVars, readVars,
                   sendCh, heart>>

FlusherQuits ==
    /\ flusher = "select" /\ ctxDone
    /\ flusher' = "off"
    /\ UNCHANGED <<ringVars, inFlusher, writeVars, sessionVars, connVars, readVars,
                   sendCh, heart>>

\* Drain, at most a batch; an empty ring ends the flush.
FlushDrain ==
    /\ flusher = "draining"
    /\ flusher' = IF ring = <<>> THEN "select" ELSE "sending"
    /\ inFlusher' = AlertQueue!Taken(ring, FlushBatch)
    /\ ring' = AlertQueue!Left(ring, FlushBatch)
    /\ UNCHANGED <<pushed, writeVars, sessionVars, connVars, readVars, sendCh, heart>>

\* Fault: done makes the flusher try again.
FlushSendAgain ==
    /\ flusher = "sending"
    /\ \/ /\ Room /\ inFlusher' = NoEvents
          /\ sendCh' = Append(sendCh, inFlusher) /\ flusher' = "draining"
       \/ done /\ UNCHANGED <<flushVars, sendCh>>
    /\ UNCHANGED <<ringVars, writeVars, sessionVars, connVars, readVars, heart>>

\* The batch goes into sendCh, and the loop on; or done ends the flush.
FlushSend ==
    /\ flusher = "sending"
    /\ inFlusher' = NoEvents
    /\ Put(inFlusher)
    /\ flusher' = IF sendCh' = sendCh THEN "select" ELSE "draining"
    /\ UNCHANGED <<ringVars, writeVars, sessionVars, connVars, readVars, heart>>

-----------------------------------------------------------------------------
(***************************************************************************)
(* readLoop and the end of Run                                             *)
(***************************************************************************)

\* Read returns a message: it does so only while the context is alive.
ReadMessage ==
    /\ reader = "reading" /\ ~ctxDone
    /\ reader' = "handling"
    /\ UNCHANGED <<ringVars, flushVars, writeVars, sessionVars, connVars, asked, starting, sendCh, heart>>

\* handleSessionStart up to sendACK, in one step or two.  It rejects for a bad payload, an
\* engine that is not there or the want of a free slot,
RejectStart ==
    /\ SessionId # {}
    /\ reader = "handling" /\ reader' = "acking"
    /\ UNCHANGED <<ringVars, flushVars, writeVars, sessionVars, connVars, asked, starting,
                   sendCh, heart>>

\* or it takes a slot (TrySem; there are goroutines to be had)
TakeSlot(i) ==
    /\ reader = "handling" /\ reader' = "adding"
    /\ sem < MaxConcurrent /\ \E g \in Routine : routine[g] = "free"
    /\ sem' = sem + 1 /\ asked' = i
    /\ UNCHANGED <<ringVars, flushVars, writeVars, sessions, session, routine, cancelled, old,
                   connVars, starting, sendCh, heart>>

\* and enters the session,
AddSession(g) ==
    /\ reader = "adding" /\ reader' = "acking"
    /\ sessions[asked] = None /\ routine[g] = "free"
    /\ sessions' = [sessions EXCEPT ![asked] = g]
    /\ session' = [session EXCEPT ![g] = asked]
    /\ routine' = [routine EXCEPT ![g] = "starting"]
    /\ starting' = g /\ asked' = None
    /\ UNCHANGED <<ringVars, flushVars, writeVars, cancelled, old, sem, connVars, sendCh, heart>>

\* Fault: the slot of a duplicate stays taken.
KeepSlot ==
    /\ reader = "adding" /\ reader' = "acking"
    /\ sessions[asked] # None /\ asked' = None
    /\ UNCHANGED <<ringVars, flushVars, writeVars, sessionVars, connVars, starting, sendCh, heart>>

\* or finds the id in use, perhaps by a session that has been told to end.
RejectDuplicate ==
    /\ reader = "adding" /\ reader' = "acking"
    /\ sessions[asked] # None /\ asked' = None
    /\ sem' = sem - 1
    /\ UNCHANGED <<ringVars, flushVars, writeVars, sessions, session, routine, cancelled, old,
                   connVars, starting, sendCh, heart>>

\* sendACK, then the goroutine of an accepted session.
SendAck ==
    /\ reader = "acking"
    /\ Put(NoEvents)
    /\ reader' = "reading" /\ starting' = None
    /\ routine' = [g \in Routine |-> IF g = starting THEN "running" ELSE routine[g]]
    /\ UNCHANGED <<ringVars, flushVars, writeVars, sessions, session, cancelled, old,
                   sem, connVars, asked, heart>>

\* Fault: the session is forgotten without being cancelled.
ForgetSession(i) ==
    /\ sessions' = [sessions EXCEPT ![i] = None]
    /\ UNCHANGED cancelled

\* sessionManager.remove: deletes the entry of the id, whoever it belongs to, and
\* cancels the session found there.
RemoveSession(i) ==
    /\ sessions' = [sessions EXCEPT ![i] = None]
    /\ cancelled' = cancelled \cup ({sessions[i]} \ {None})

HandleCancel(i) ==
    /\ reader = "handling" /\ reader' = "reading"
    /\ RemoveSession(i)
    /\ UNCHANGED <<ringVars, flushVars, writeVars, session, routine, old, sem,
                   connVars, asked, starting, sendCh, heart>>

\* The server asks for a disconnect: the context is cancelled, the loop goes on.
HandleDisconnect ==
    /\ reader = "handling" /\ reader' = "reading"
    /\ ctxDone' = TRUE
    /\ UNCHANGED <<ringVars, flushVars, writeVars, sessionVars, done, asked, starting, sendCh, heart>>

\* A ping, an unexpected ack, what cannot be decoded.
HandleOther ==
    /\ reader = "handling" /\ reader' = "reading"
    /\ UNCHANGED <<ringVars, flushVars, writeVars, sessionVars, connVars, asked, starting, sendCh, heart>>

\* Read fails: a time-out, a lost connection, a cancelled context.  readLoop
\* returns and Run cancels the context.
ReadFails ==
    /\ reader = "reading"
    /\ reader' = "cancelling" /\ ctxDone' = TRUE
    /\ UNCHANGED <<ringVars, flushVars, writeVars, sessionVars, done, asked, starting, sendCh, heart>>

CancelAll ==
    /\ reader = "cancelling"
    /\ reader' = "closing"
    /\ cancelled' = cancelled \cup ({sessions[i] : i \in SessionId} \ {None})
    /\ sessions' = [i \in SessionId |-> None]
    /\ UNCHANGED <<ringVars, flushVars, writeVars, session, routine, old, sem,
                   connVars, asked, starting, sendCh, heart>>

CloseDone ==
    /\ reader = "closing"
    /\ reader' = "waiting" /\ done' = TRUE
    /\ UNCHANGED <<ringVars, flushVars, writeVars, sessionVars, ctxDone, asked, starting, sendCh, heart>>

\* wg.Wait has seen all three loops end.
RunReturns ==
    /\ reader = "waiting"
    /\ writer = "off" /\ flusher = "off" /\ heart = "off"
    /\ reader' = "off"
    /\ UNCHANGED <<ringVars, flushVars, writeVars, sessionVars, connVars, asked, starting, sendCh, heart>>

-----------------------------------------------------------------------------
(***************************************************************************)
(* The session goroutines: runRemoteSession and the deferred calls.        *)
(***************************************************************************)

\* The session context descends from the connection's.
Cancelled(g) == g \in cancelled \/ g \in old \/ ctxDone

\* What a session sends goes to its own connection: for an old one, nowhere.
SessionPut(g) == IF g \in old THEN UNCHANGED sendCh ELSE Put(NoEvents)

SessionOutput(g) ==
    /\ routine[g] = "running"
    /\ SessionPut(g)
    /\ UNCHANGED <<ringVars, flushVars, writeVars, sessionVars, connVars, readVars, heart>>

SessionStep(g, from, to) ==
    /\ routine[g] = from
    /\ routine' = [routine EXCEPT ![g] = to]

SessionStops(g) ==
    /\ SessionStep(g, "running", "ending")
    /\ UNCHANGED <<ringVars, flushVars, writeVars, sessions, session, cancelled, old,
                   sem, connVars, readVars, sendCh, heart>>

\* The final output, with done set, that every session sends.
SessionFinal(g) ==
    /\ SessionStep(g, "ending", "removing")
    /\ SessionPut(g)
    /\ UNCHANGED <<ringVars, flushVars, writeVars, sessions, session, cancelled, old,
                   sem, connVars, readVars, heart>>

\* The manager of an old connection has been emptied already.
SessionRemove(g) ==
    /\ SessionStep(g, "removing", "releasing")
    /\ IF g \in old THEN UNCHANGED <<sessions, cancelled>> ELSE RemoveSession(session[g])
    /\ UNCHANGED <<ringVars, flushVars, writeVars, session, old, sem, connVars,
                   readVars, sendCh, heart>>

SessionRelease(g) ==
    /\ SessionStep(g, "releasing", "free")
    /\ sem' = sem - 1
    /\ session' = [session EXCEPT ![g] = None]
    /\ cancelled' = cancelled \ {g} /\ old' = old \ {g}
    /\ UNCHANGED <<ringVars, flushVars, writeVars, sessions, connVars, readVars, sendCh, heart>>

-----------------------------------------------------------------------------
Writer  == WriterTakes \/ WriterQuits \/ WriteSucceeds \/ WriteFails
Flusher == FlushTick \/ FlusherQuits \/ FlushDrain \/ FlushSend
Handle  == \/ RejectStart \/ RejectDuplicate \/ HandleDisconnect \/ HandleOther
           \/ \E i \in SessionId : TakeSlot(i) \/ HandleCancel(i)
           \/ \E g \in Routine : AddSession(g)
Finish  == CancelAll \/ CloseDone \/ RunReturns
Closing(g) == SessionFinal(g) \/ SessionRemove(g) \/ SessionRelease(g)

Next ==
    \/ SendAlertEvent \/ Connect
    \/ Writer \/ Heartbeat \/ HeartQuits \/ Flusher
    \/ ReadMessage \/ Handle \/ SendAck \/ ReadFails \/ Finish
    \/ \E g \in Routine : SessionOutput(g) \/ SessionStops(g) \/ Closing(g)

Spec == Init /\ [][Next]_vars

\* Goroutines that can go on do (senders blocked on a channel are served in turn), a
\* write ends within writeTimeout, RunForever dials again, Read returns once the
\* context is cancelled, and so does a session.
\* Nothing makes the server send, the network fail or alerts arrive.
Fairness ==
    /\ WF_vars(Connect) /\ WF_vars(Writer) /\ WF_vars(Flusher)
    /\ WF_vars(HeartQuits) /\ SF_vars(FlusherQuits) /\ SF_vars(WriterQuits)
    /\ WF_vars(Handle) /\ SF_vars(SendAck) /\ SF_vars(FlushSend)
    /\ WF_vars(ctxDone /\ ReadFails) /\ WF_vars(Finish)
    /\ \A g \in Routine : /\ WF_vars(Cancelled(g) /\ SessionStops(g))
                          /\ SF_vars(Closing(g))

FairSpec == Spec /\ Fairness

-----------------------------------------------------------------------------
(***************************************************************************)
(* Properties.                                                             *)
(***************************************************************************)
Serving == {"starting", "running", "ending", "removing", "releasing"}
Batches == UNION {[1..n -> 1..MaxEvents] : n \in 0..FlushBatch}

\* Type invariant: channels and ring within their capacities, a batch within its
\* limit.
TypeOK ==
    /\ ring \in Seq(1..MaxEvents) /\ Len(ring) <= RingCapacity
    /\ pushed \in 0..MaxEvents
    /\ received \in Seq(1..MaxEvents)
    /\ sendCh \in Seq(Batches) /\ Len(sendCh) <= SendChSize
    /\ ctxDone \in BOOLEAN /\ done \in BOOLEAN
    /\ reader \in {"off", "reading", "handling", "adding", "acking",
                   "cancelling", "closing", "waiting"}
    /\ asked \in SessionId \cup {None}
    /\ starting \in Routine \cup {None}
    /\ writer \in {"off", "select", "writing"} /\ inWriter \in Batches
    /\ flusher \in {"off", "select", "draining", "sending"} /\ inFlusher \in Batches
    /\ heart \in {"off", "on"}
    /\ sessions \in [SessionId -> Routine \cup {None}]
    /\ session \in [Routine -> SessionId \cup {None}]
    /\ routine \in [Routine -> Serving \cup {"free"}]
    /\ cancelled \subseteq Routine /\ old \subseteq Routine
    /\ sem \in 0..MaxConcurrent

\* All the events on their way, the oldest first.
InFlight == inWriter \o FlattenSeq(sendCh) \o inFlusher

\* From the ring over batches, sendCh and reconnections, the server receives the alert events
\* in the order in which they were raised, each at most once.  One is lost in two ways only:
\* the full ring makes room for a newer one, or the connection that carries it ends; a slow
\* server delays events but loses none (conn.go:366-401).
Channel == INSTANCE LossyChannel
             WITH WaitingLimit <- RingCapacity, raised <- pushed, waiting <- ring,
                  carried <- InFlight, connected <- ~ctxDone

ChannelSpec == Channel!Spec

\* The limiter's slots taken here are those of the session goroutines, of this
\* connection and of earlier ones, until each has ended, and of the session_start in
\* hand, which gives its slot back if the id is in use (session_handler.go:43-86).
SlotsMatch ==
    sem = Cardinality({g \in Routine : routine[g] # "free"})
            + (IF reader = "adding" THEN 1 ELSE 0)

\* A session that has yet to end is in the session manager, where a cancel by the server or
\* the end of the connection finds it, or its context is cancelled: neither the removal by
\* id of an earlier session of the same id nor a new connection leaves a session running
\* that nothing can stop (session.go:77, 88-109, 125-143).
TrackedOrCancelled ==
    \A g \in Routine : routine[g] \in Serving \ {"releasing"} =>
        g \in cancelled \/ sessions[session[g]] = g

\* An id in the session manager belongs to a goroutine of this connection that has
\* yet to remove it: no id stays behind and makes the server's next session_start
\* with it a duplicate for ever (session.go:91, session_handler.go:84).
NoGhostSession ==
    \A i \in SessionId : sessions[i] # None =>
        /\ sessions[i] \notin old
        /\ session[sessions[i]] = i
        /\ routine[sessions[i]] \in Serving \ {"releasing"}

\* The session manager and the goroutines know of each other (session.go:77-143).
SessionsKnown == NoGhostSession /\ TrackedOrCancelled

\* A connection whose context is cancelled comes to its end: Run returns, and
\* RunForever can dial again.
ConnectionEnds == ctxDone ~> reader = "off"
=============================================================================
