-------------------------- MODULE DiagnoseScheduler --------------------------
(***************************************************************************)
(* The life of an alert-triggered diagnosis:                               *)
(*                                                                         *)
(*   - diagnose/aggregator.go opens a request per "plugin::target" key,    *)
(*     adds events to it while its window is open, and hands it over when  *)
(*     a time.AfterFunc timer calls back;                                  *)
(*   - DiagnoseEngine.Submit (diagnose/engine.go) checks the stop flag,    *)
(*     the cooldown of the key and the daily token budget, one after the   *)
(*     other and each under a lock of its own, then tries the semaphore;   *)
(*   - the goroutine it starts registers itself, diagnoses, accounts for   *)
(*     what it used, unregisters and gives the slot back;                  *)
(*   - remote sessions (server/session_handler.go) take slots of the same  *)
(*     semaphore;                                                          *)
(*   - Shutdown (diagnose/global.go) stops the aggregator, then the engine.*)
(*                                                                         *)
(* A request is named by the pointer of its DiagnoseRequest, a timer by    *)
(* the request whose Submit started it.  A step is one critical section    *)
(* or one operation on the channel: everything else may come in between.   *)
(* Time appears as two events: a cooldown expires, a day begins.           *)
(*                                                                         *)
(* A definition introduced by "Fault:" is not part of the system: it is a  *)
(* wrong version of the definition after it, kept to show that a property  *)
(* notices.                                                                *)
(***************************************************************************)
EXTENDS Integers, FiniteSetsExt

CONSTANTS
    Key,              \* "plugin::target" pairs
    Req,              \* the DiagnoseRequests that may ever be created
    Session,          \* the goroutines of remote sessions
    None,             \* a nil pointer, an absent map entry
    MaxConcurrent,    \* cfg.MaxConcurrentDiagnoses, the capacity of sem
    DailyTokenLimit,  \* cfg.DailyTokenLimit; 0 is no limit
    Cost,             \* the token totals a run may end with
    MaxEvents         \* bound: events a request may gather

ASSUME SchedulerAssumption ==
    /\ IsFiniteSet(Req) /\ IsFiniteSet(Session) /\ Req \cap Session = {}
    /\ None \notin Req \cup Key
    /\ MaxConcurrent \in Nat \ {0}
    /\ DailyTokenLimit \in Int
    /\ Cost \subseteq Nat /\ \E m \in Cost : \A n \in Cost : m >= n
    /\ MaxEvents \in Nat \ {0}

VARIABLES
    \* the aggregator, guarded by its mu
    pending,     \* Key -> the request whose window is open
    timers,      \* Key -> the timer Shutdown would stop
    timer,       \* Req -> what became of the timer its creation started
    \* the requests
    key,         \* Req -> its key
    events,      \* Req -> number of events gathered
    phase,       \* Req -> how far the code that holds it has come
    \* the engine
    sem,         \* number of elements in the channel sem
    inFlight,    \* Key -> the run whose cancel function is registered
    cancelled,   \* the runs whose context has been cancelled by Shutdown
    stopped,     \* the flag Submit reads first
    toCancel,    \* the cancel functions Shutdown has copied
    shut,        \* how far Shutdown has come
    \* DiagnoseState, guarded by its mu
    cooling,     \* the keys whose cooldown has not expired
    tokens,      \* input and output tokens of the current day
    \* history: what the properties compare the state with
    peak,        \* the most runs of the day that were let through but not charged
    crew,        \* per key, who was past the check when the cooldown began
    \* the session goroutines of the server connection
    remote

aggVars   == <<pending, timers, timer>>
reqVars   == <<key, events>>
stopVars  == <<stopped, toCancel, shut, cancelled>>
stateVars == <<cooling, tokens, peak, crew>>
vars == <<pending, timers, timer, key, events, phase, sem, inFlight,
          cancelled, stopped, toCancel, shut, cooling, tokens, peak, crew,
          remote>>

-----------------------------------------------------------------------------
(***************************************************************************)
(* The places a request may be in.  The first group is before the slot is  *)
(* taken (the names say which check it has passed), the second owns one.   *)
(***************************************************************************)
BeforeSlot == {"taken", "unstopped", "uncooled", "budgeted"}
WithSlot   == {"acquired", "running", "finished", "charged", "closing",
               "unwinding", "unregistered"}
Phase == {"new", "pending", "dropped", "over"} \cup BeforeSlot \cup WithSlot

\* Between registerInFlight and unregisterInFlight.
Registered == {r \in Req : phase[r] \in
                  {"running", "finished", "charged", "closing", "unwinding"}}

\* Requests that the budget check has let through and which have not been
\* charged: the tokens they will add are not in the count yet.
Uncharged == {r \in Req : phase[r] \in {"budgeted", "acquired", "running", "finished"}}

\* Requests that are past the check of the cooldown of their key and have not
\* begun a cooldown themselves.
UnderWay == {r \in Req : phase[r] \in
                {"uncooled", "budgeted", "acquired", "running", "finished", "charged"}}

OfKey(S, k) == {r \in S : key[r] = k}

Client  == Req \cup Session
Holders == {r \in Req : phase[r] \in WithSlot}
             \cup {s \in Session : remote[s] # "idle"}

Move(r, from, to) ==
    /\ phase[r] = from
    /\ phase' = [phase EXCEPT ![r] = to]

Init ==
    /\ pending = [k \in Key |-> None]
    /\ timers = [k \in Key |-> None]
    /\ timer = [r \in Req |-> "unset"]
    /\ key = [r \in Req |-> None]
    /\ events = [r \in Req |-> 0]
    /\ phase = [r \in Req |-> "new"]
    /\ sem = 0
    /\ inFlight = [k \in Key |-> None]
    /\ cancelled = {}
    /\ stopped = FALSE
    /\ toCancel = {}
    /\ shut = "up"
    /\ cooling = {}
    /\ tokens = 0
    /\ peak = 0
    /\ crew = {}
    /\ remote = [s \in Session |-> "idle"]

-----------------------------------------------------------------------------
(***************************************************************************)
(* The aggregator.                                                         *)
(***************************************************************************)

\* An event for a key whose window is open joins the request.
SubmitJoin(k) ==
    /\ pending[k] # None
    /\ events[pending[k]] < MaxEvents
    /\ events' = [events EXCEPT ![pending[k]] = @ + 1]
    /\ UNCHANGED <<aggVars, key, phase, sem, inFlight, stopVars, stateVars, remote>>

\* Otherwise it opens a request and starts its timer.
SubmitOpen(k, r) ==
    /\ pending[k] = None
    /\ phase[r] = "new"
    /\ phase' = [phase EXCEPT ![r] = "pending"]
    /\ key' = [key EXCEPT ![r] = k]
    /\ events' = [events EXCEPT ![r] = 1]
    /\ pending' = [pending EXCEPT ![k] = r]
    /\ timers' = [timers EXCEPT ![k] = r]
    /\ timer' = [timer EXCEPT ![r] = "armed"]
    /\ UNCHANGED <<sem, inFlight, stopVars, stateVars, remote>>

\* The window of t has passed: its callback runs, but has not locked mu yet.
TimerFires(t) ==
    /\ timer[t] = "armed"
    /\ timer' = [timer EXCEPT ![t] = "fired"]
    /\ UNCHANGED <<pending, timers, reqVars, phase, sem, inFlight, stopVars,
                   stateVars, remote>>

\* Fault: the request stays in the map when the callback takes it.
TakeWithoutDelete(k) ==
    /\ pending' = pending
    /\ timers' = [timers EXCEPT ![k] = None]
    /\ phase' = IF pending[k] = None THEN phase
                ELSE [phase EXCEPT ![pending[k]] = "taken"]

\* The callback knows its key only: it takes whatever is pending there, which
\* after a Shutdown need not be the request that started the timer.
TakePending(k) ==
    /\ pending' = [pending EXCEPT ![k] = None]
    /\ timers' = [timers EXCEPT ![k] = None]
    /\ phase' = IF pending[k] = None THEN phase
                ELSE [phase EXCEPT ![pending[k]] = "taken"]

WindowCloses(t) ==
    /\ timer[t] = "fired"
    /\ timer' = [timer EXCEPT ![t] = "over"]
    /\ TakePending(key[t])
    /\ UNCHANGED <<reqVars, sem, inFlight, stopVars, stateVars, remote>>

-----------------------------------------------------------------------------
(***************************************************************************)
(* DiagnoseEngine.Submit, in the goroutine of the timer callback.          *)
(***************************************************************************)
\* Fault: the limit itself still counts as below the limit.
DailyLimitExceeded == DailyTokenLimit > 0 /\ tokens > DailyTokenLimit

\* Fault: the channel has one element too many.
SlotFreeOrFull == sem <= MaxConcurrent

CooldownActive(k) == k \in cooling
DailyLimitReached == DailyTokenLimit > 0 /\ tokens >= DailyTokenLimit
SlotFree          == sem < MaxConcurrent

CheckStopped(r) ==
    /\ Move(r, "taken", IF stopped THEN "dropped" ELSE "unstopped")
    /\ UNCHANGED <<aggVars, reqVars, sem, inFlight, stopVars, stateVars, remote>>

CheckCooldown(r) ==
    /\ Move(r, "unstopped", IF CooldownActive(key[r]) THEN "dropped" ELSE "uncooled")
    /\ UNCHANGED <<aggVars, reqVars, sem, inFlight, stopVars, stateVars, remote>>

CheckDailyLimit(r) ==
    /\ Move(r, "uncooled", IF DailyLimitReached THEN "dropped" ELSE "budgeted")
    /\ peak' = Max({peak, Cardinality(Uncharged')})
    /\ UNCHANGED <<aggVars, reqVars, sem, inFlight, stopVars, cooling, tokens,
                   crew, remote>>

\* The select with a default: a full channel drops the request.
AcquireSlot(r) ==
    /\ SlotFree
    /\ Move(r, "budgeted", "acquired")
    /\ sem' = sem + 1
    /\ UNCHANGED <<aggVars, reqVars, inFlight, stopVars, stateVars, remote>>

\* Fault: a plain send on the channel instead of a select with a default.
WaitForSlot(r) == Move(r, "budgeted", "budgeted") /\ FALSE

NoSlot(r) ==
    /\ ~SlotFree
    /\ Move(r, "budgeted", "dropped")
    /\ UNCHANGED <<aggVars, reqVars, sem, inFlight, stopVars, stateVars, remote>>

-----------------------------------------------------------------------------
(***************************************************************************)
(* RunDiagnose, in the goroutine that Submit starts.                       *)
(***************************************************************************)
RegisterInFlight(r) ==
    /\ Move(r, "acquired", "running")
    /\ inFlight' = [inFlight EXCEPT ![key[r]] = r]
    /\ UNCHANGED <<aggVars, reqVars, sem, stopVars, stateVars, remote>>

\* diagnose returns a report or an error (a cancelled context is one), the
\* record is saved and the report forwarded.
Diagnose(r) ==
    /\ Move(r, "running", "finished")
    /\ UNCHANGED <<aggVars, reqVars, sem, inFlight, stopVars, stateVars, remote>>

\* Fault: the slot is given back by a last statement, not by a deferred call.
PanicKeepsSlot(r) ==
    /\ Move(r, "running", "over")
    /\ UNCHANGED <<aggVars, reqVars, sem, inFlight, stopVars, stateVars, remote>>

\* A panic skips the accounting; the deferred calls still run.
Panic(r) ==
    /\ \/ Move(r, "running", "unwinding")
       \/ Move(r, "finished", "unwinding")
    /\ UNCHANGED <<aggVars, reqVars, sem, inFlight, stopVars, stateVars, remote>>

AddTokens(r, n) ==
    /\ Move(r, "finished", "charged")
    /\ tokens' = tokens + n
    /\ UNCHANGED <<aggVars, reqVars, sem, inFlight, stopVars, cooling, peak, crew,
                   remote>>

\* Fault: the entry belongs to one run, the next to end takes it away.
CooldownToggles(k) == cooling' = IF k \in cooling THEN cooling \ {k} ELSE cooling \cup {k}

\* An entry that is there is renewed.
StartCooldown(k) == cooling' = cooling \cup {k}

UpdateCooldown(r) ==
    /\ Move(r, "charged", "closing")
    /\ StartCooldown(key[r])
    /\ crew' = IF OfKey(crew, key[r]) = {} THEN crew \cup OfKey(UnderWay, key[r])
               ELSE crew
    /\ UNCHANGED <<aggVars, reqVars, sem, inFlight, stopVars, tokens, peak, remote>>

\* Fault: unregisterInFlight is not deferred, so a panic skips it.
UnregisterUnlessPanic(r) ==
    /\ Move(r, "closing", "unregistered") \/ Move(r, "unwinding", "unregistered")
    /\ inFlight' = IF phase[r] = "unwinding" THEN inFlight
                   ELSE [inFlight EXCEPT ![key[r]] = None]
    /\ UNCHANGED <<aggVars, reqVars, sem, stopVars, stateVars, remote>>

\* Deletes the entry of the key, whoever it belongs to.
UnregisterInFlight(r) ==
    /\ Move(r, "closing", "unregistered") \/ Move(r, "unwinding", "unregistered")
    /\ inFlight' = [inFlight EXCEPT ![key[r]] = None]
    /\ UNCHANGED <<aggVars, reqVars, sem, stopVars, stateVars, remote>>

ReleaseSlot(r) ==
    /\ sem > 0
    /\ Move(r, "unregistered", "over")
    /\ sem' = sem - 1
    /\ UNCHANGED <<aggVars, reqVars, inFlight, stopVars, stateVars, remote>>

-----------------------------------------------------------------------------
(***************************************************************************)
(* Remote sessions share the semaphore: TrySem, then either the session id *)
(* is a duplicate and the slot is given back, or a goroutine runs the      *)
(* session and gives it back when it ends.                                 *)
(***************************************************************************)
RemoteTrySem(s) ==
    /\ remote[s] = "idle"
    /\ SlotFree
    /\ sem' = sem + 1
    /\ remote' = [remote EXCEPT ![s] = "admitted"]
    /\ UNCHANGED <<aggVars, reqVars, phase, inFlight, stopVars, stateVars>>

RemoteStart(s) ==
    /\ remote[s] = "admitted"
    /\ remote' = [remote EXCEPT ![s] = "serving"]
    /\ UNCHANGED <<aggVars, reqVars, phase, sem, inFlight, stopVars, stateVars>>

\* From "admitted" the duplicate, from "serving" the end of the session.
RemoteReleaseSem(s) ==
    /\ remote[s] # "idle"
    /\ sem > 0
    /\ sem' = sem - 1
    /\ remote' = [remote EXCEPT ![s] = "idle"]
    /\ UNCHANGED <<aggVars, reqVars, phase, inFlight, stopVars, stateVars>>

-----------------------------------------------------------------------------
(***************************************************************************)
(* Shutdown, and time.                                                     *)
(***************************************************************************)

\* Fault: the requests stay in pending when their timers are stopped.
ShutdownKeepsPending ==
    /\ shut = "up"
    /\ shut' = "aggregatorDown"
    /\ timer' = [t \in Req |->
                    IF timer[t] = "armed" /\ \E k \in Key : timers[k] = t
                    THEN "over" ELSE timer[t]]
    /\ timers' = [k \in Key |-> None]
    /\ UNCHANGED <<pending, phase, reqVars, sem, inFlight, cancelled, stopped,
                   toCancel, stateVars, remote>>

\* Stops the timers it knows and forgets their requests.  A timer that has
\* fired already is not stopped: its callback finds nothing, or something new.
ShutdownAggregator ==
    LET known == {k \in Key : timers[k] # None} IN
    /\ shut = "up"
    /\ shut' = "aggregatorDown"
    /\ timer' = [t \in Req |->
                    IF timer[t] = "armed" /\ \E k \in known : timers[k] = t
                    THEN "over" ELSE timer[t]]
    /\ phase' = [r \in Req |->
                    IF \E k \in known : pending[k] = r THEN "dropped" ELSE phase[r]]
    /\ pending' = [k \in Key |-> IF k \in known THEN None ELSE pending[k]]
    /\ timers' = [k \in Key |-> None]
    /\ UNCHANGED <<reqVars, sem, inFlight, cancelled, stopped, toCancel,
                   stateVars, remote>>

SetStopped ==
    /\ shut = "aggregatorDown"
    /\ shut' = "stopping"
    /\ stopped' = TRUE
    /\ UNCHANGED <<aggVars, reqVars, phase, sem, inFlight, cancelled, toCancel,
                   stateVars, remote>>

CopyCancels ==
    /\ shut = "stopping"
    /\ shut' = "cancelling"
    /\ toCancel' = {inFlight[k] : k \in Key} \ {None}
    /\ UNCHANGED <<aggVars, reqVars, phase, sem, inFlight, cancelled, stopped,
                   stateVars, remote>>

CancelCopied ==
    /\ shut = "cancelling"
    /\ shut' = "down"
    /\ cancelled' = cancelled \cup toCancel
    /\ UNCHANGED <<aggVars, reqVars, phase, sem, inFlight, stopped, toCancel,
                   stateVars, remote>>

CooldownExpires(k) ==
    /\ k \in cooling
    /\ cooling' = cooling \ {k}
    /\ crew' = crew \ OfKey(crew, k)
    /\ UNCHANGED <<aggVars, reqVars, phase, sem, inFlight, stopVars, tokens, peak,
                   remote>>

\* Every access to the counters first resets those of an earlier day.
NewDay ==
    /\ tokens > 0
    /\ tokens' = 0
    /\ peak' = Cardinality(Uncharged)
    /\ UNCHANGED <<aggVars, reqVars, phase, sem, inFlight, stopVars, cooling, crew,
                   remote>>

-----------------------------------------------------------------------------
Submit(r) == \/ CheckStopped(r) \/ CheckCooldown(r) \/ CheckDailyLimit(r)
             \/ AcquireSlot(r) \/ NoSlot(r)

RunDiagnose(r) ==
    \/ RegisterInFlight(r) \/ Diagnose(r) \/ Panic(r)
    \/ \E n \in Cost : AddTokens(r, n)
    \/ UpdateCooldown(r) \/ UnregisterInFlight(r) \/ ReleaseSlot(r)

Shutdown == ShutdownAggregator \/ SetStopped \/ CopyCancels \/ CancelCopied

Next ==
    \/ \E k \in Key : SubmitJoin(k)
    \/ \E k \in Key, r \in Req : SubmitOpen(k, r)
    \/ \E r \in Req : TimerFires(r) \/ WindowCloses(r) \/ Submit(r) \/ RunDiagnose(r)
    \/ \E s \in Session : RemoteTrySem(s) \/ RemoteStart(s) \/ RemoteReleaseSem(s)
    \/ Shutdown
    \/ \E k \in Key : CooldownExpires(k)
    \/ NewDay

Spec == Init /\ [][Next]_vars

\* A timer fires and its callback runs; a goroutine that can continue does, and
\* diagnose returns because its context has a deadline (all it calls heed it but the
\* write to an MCP server that has stopped reading, see McpClient).  Nothing makes
\* events arrive, sessions end, cooldowns expire or anyone call Shutdown.
Fairness == \A r \in Req : WF_vars(TimerFires(r) \/ WindowCloses(r))
                        /\ WF_vars(Submit(r)) /\ WF_vars(RunDiagnose(r))

FairSpec == Spec /\ Fairness

-----------------------------------------------------------------------------
(***************************************************************************)
(* Properties.                                                             *)
(***************************************************************************)
RunState == {"unset", "armed", "fired", "over"}

\* Type invariant of the scheduler's state.
TypeOK ==
    /\ pending \in [Key -> Req \cup {None}]
    /\ timers \in [Key -> Req \cup {None}]
    /\ timer \in [Req -> RunState]
    /\ key \in [Req -> Key \cup {None}]
    /\ events \in [Req -> 0..MaxEvents]
    /\ phase \in [Req -> Phase]
    /\ sem \in Nat
    /\ inFlight \in [Key -> Req \cup {None}]
    /\ cancelled \subseteq Req
    /\ stopped \in BOOLEAN
    /\ toCancel \subseteq Req
    /\ shut \in {"up", "aggregatorDown", "stopping", "cancelling", "down"}
    /\ cooling \subseteq Key
    /\ tokens \in Nat
    /\ peak \in Nat
    /\ crew \subseteq Req
    /\ remote \in [Session -> {"idle", "admitted", "serving"}]

\* The channel sem holds one element for each local diagnosis and each remote
\* session that took one and has not given it back, on every path: success,
\* error, panic, duplicate session.  So no slot leaks, no release blocks on an
\* empty channel (engine.go:90, 508), and the limit of MaxConcurrent holds for
\* local and remote work together.
SlotConservation ==
    /\ sem = Cardinality(Holders)
    /\ sem <= MaxConcurrent

\* A request waits in pending exactly while its window is open, under its own
\* key only, and then a timer that knows this key has yet to call back: no
\* request is forgotten in the map (aggregator.go:86-98), even if callbacks of
\* stopped windows arrive late.
PendingIsAwaited ==
    /\ \A k \in Key, r \in Req :
          pending[k] = r <=> phase[r] = "pending" /\ key[r] = k
    /\ \A k \in Key : pending[k] # None =>
          /\ \E t \in Req : key[t] = k /\ timer[t] \in {"armed", "fired"}
          /\ timers[k] # None

\* A cancel function left in inFlight belongs to a run of that key that has not
\* unregistered, even when runs of a key overlap and each deletes the entry of
\* the key (engine.go:415-421): Shutdown never cancels what has ended.
NoStaleCancel ==
    \A k \in Key, r \in Req : inFlight[k] = r => r \in Registered /\ key[r] = k

\* Once a callback has taken a request it is not taken again and gathers no
\* further events (aggregator.go:62-64 appends to the very object that the
\* callback hands to the engine at 101).
TakenOnce ==
    [][\A r \in Req : phase[r] \notin {"new", "pending"} =>
          /\ phase'[r] \in {"pending", "taken"} => phase'[r] = phase[r]
          /\ events'[r] = events[r]]_vars

\* Tokens are counted when a run ends (engine.go:158), the budget is checked before
\* it begins (81), so the daily limit is overstepped: but never by more than what
\* the largest number of runs that were let through at the same time on that day
\* may use, however runs, panics, refused slots and the change of the day interleave.
OvershootBounded ==
    DailyTokenLimit > 0 => tokens <= DailyTokenLimit - 1 + peak * Max(Cost)

\* The cooldown begins when a run ends (engine.go:160) and is checked before one
\* begins (76), so runs of a key overlap: but from the first of them that ends to
\* the expiry of the cooldown, which each of the others renews, nobody is under way
\* who was not past the check already when that first run ended.
OneCrewPerCooldown ==
    \A k \in Key : OfKey(crew, k) # {} => OfKey(UnderWay, k) \subseteq crew

\* The slots implement the abstract pool.
Pool == INSTANCE SlotPool WITH holders <- Holders, Capacity <- MaxConcurrent
PoolSpec == Pool!Spec

\* Every request that gathers events is at last dropped or run to its end, and
\* its slot comes back, whatever the panics and wherever Shutdown falls.
RequestsEnd ==
    \A r \in Req : phase[r] = "pending" ~> phase[r] \in {"dropped", "over"}

\* What the comment at engine.go:424 says: Shutdown finds every diagnosis that is
\* in flight when it looks.
ShutdownFindsAll ==
    [][shut = "stopping" /\ shut' = "cancelling" => Registered \subseteq toCancel']_vars
=============================================================================
