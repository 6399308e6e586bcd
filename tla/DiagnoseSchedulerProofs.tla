---------------------- MODULE DiagnoseSchedulerProofs ----------------------
(***************************************************************************)
(* Proofs about DiagnoseScheduler, for any numbers of keys, requests and   *)
(* remote sessions and any limits.                                         *)
(*                                                                         *)
(* The maps of the aggregator refer to requests, and the actions follow    *)
(* these references: a callback moves the request it finds in pending.     *)
(* So that a slot is never lost (SlotConservation) rests on the request    *)
(* found there being really pending (PendingIsAwaited), and even the type  *)
(* of the cooldown table rests on a request having its key.  IInv joins    *)
(* these facts; it is inductive as a whole.                                *)
(***************************************************************************)
EXTENDS DiagnoseScheduler, SequenceLemmas, FiniteSetTheorems, TLAPS

\* A request has no timer before it is created, and a key from then on.
Created == \A r \in Req : /\ phase[r] = "new" => timer[r] = "unset"
                          /\ phase[r] # "new" => key[r] \in Key

IInv == /\ TypeOK
        /\ Created
        /\ PendingIsAwaited
        /\ NoStaleCancel
        /\ SlotConservation

-----------------------------------------------------------------------------
\* The larger of two numbers.
LEMMA LargerOf ==
  ASSUME NEW a \in Nat, NEW b \in Nat
  PROVE  Max({a, b}) \in Nat /\ a <= Max({a, b}) /\ b <= Max({a, b})
<1>1. \E x \in {a, b} : \A y \in {a, b} : x >= y
  OBVIOUS
<1>2. Max({a, b}) \in {a, b} /\ \A y \in {a, b} : Max({a, b}) >= y
  BY <1>1, Zenon DEF Max
<1>. QED BY <1>2

\* There are finitely many runs that were let through and not charged, also after a step.
LEMMA UnchargedFinite ==
  /\ IsFiniteSet(Uncharged) /\ Cardinality(Uncharged) \in Nat
  /\ IsFiniteSet(Uncharged') /\ Cardinality(Uncharged') \in Nat
<1>1. Uncharged \in SUBSET Req /\ Uncharged' \in SUBSET Req
  BY DEF Uncharged
<1>. QED BY <1>1, SchedulerAssumption, FS_Subset, FS_CardinalityType

\* The invariant holds when the engine has been created.
LEMMA InitInv == Init => IInv
<1>. SUFFICES ASSUME Init PROVE IInv
  OBVIOUS
<1>. USE SchedulerAssumption DEF Init
<1>1. TypeOK
  <2>1. "unset" \in RunState /\ "new" \in Phase /\ 0 \in 0..MaxEvents
    BY DEF RunState, Phase
  <2>. QED
    BY <2>1 DEF TypeOK
<1>2. Created
  BY DEF Created
<1>3. PendingIsAwaited
  BY DEF PendingIsAwaited
<1>4. NoStaleCancel
  BY DEF NoStaleCancel
<1>5. SlotConservation
  <2>1. Holders = {}
    BY DEF Holders, WithSlot
  <2>. QED
    BY <2>1, FS_EmptySet DEF SlotConservation
<1>. QED
  BY <1>1, <1>2, <1>3, <1>4, <1>5 DEF IInv

\* No step leaves the types of the state.
LEMMA TypeStep == IInv /\ [Next]_vars => TypeOK'
<1>. SUFFICES ASSUME IInv, [Next]_vars PROVE TypeOK'
  OBVIOUS
<1>. USE SchedulerAssumption
     DEF IInv, TypeOK, RunState, Phase, BeforeSlot, WithSlot, Move,
         aggVars, reqVars, stopVars, stateVars
<1>1. ASSUME NEW k \in Key, SubmitJoin(k) PROVE TypeOK'
  BY <1>1 DEF SubmitJoin
<1>2. ASSUME NEW k \in Key, NEW r \in Req, SubmitOpen(k, r) PROVE TypeOK'
  BY <1>2 DEF SubmitOpen
<1>3. ASSUME NEW r \in Req, TimerFires(r) PROVE TypeOK'
  BY <1>3 DEF TimerFires
<1>4. ASSUME NEW r \in Req, WindowCloses(r) PROVE TypeOK'
  BY <1>4 DEF WindowCloses, TakePending
<1>5. ASSUME NEW r \in Req, Submit(r) PROVE TypeOK'
  <2>1. CASE CheckDailyLimit(r)
    <3>1. peak' \in Nat
      BY <2>1, UnchargedFinite, LargerOf DEF CheckDailyLimit
    <3>. QED BY <2>1, <3>1 DEF CheckDailyLimit
  <2>2. CASE ~CheckDailyLimit(r)
    BY <1>5, <2>2 DEF Submit, CheckStopped, CheckCooldown, AcquireSlot, NoSlot
  <2>. QED BY <2>1, <2>2
<1>6. ASSUME NEW r \in Req, RunDiagnose(r) PROVE TypeOK'
  <2>1. CASE RegisterInFlight(r) BY <2>1 DEF RegisterInFlight
  <2>2. CASE Diagnose(r) BY <2>2 DEF Diagnose
  <2>3. CASE Panic(r) BY <2>3 DEF Panic
  <2>4. ASSUME NEW n \in Cost, AddTokens(r, n) PROVE TypeOK'
    BY <2>4 DEF AddTokens
  <2>5. CASE UpdateCooldown(r)
    BY <2>5 DEF UpdateCooldown, StartCooldown, Created, OfKey, UnderWay
  <2>6. CASE UnregisterInFlight(r) BY <2>6 DEF UnregisterInFlight
  <2>7. CASE ReleaseSlot(r) BY <2>7 DEF ReleaseSlot
  <2>. QED BY <1>6, <2>1, <2>2, <2>3, <2>4, <2>5, <2>6, <2>7 DEF RunDiagnose
<1>7. ASSUME NEW s \in Session,
             RemoteTrySem(s) \/ RemoteStart(s) \/ RemoteReleaseSem(s)
      PROVE  TypeOK'
  BY <1>7 DEF RemoteTrySem, RemoteStart, RemoteReleaseSem
<1>8. CASE Shutdown
  <2>1. CASE ShutdownAggregator
    <3>1. timer' \in [Req -> RunState]
      BY <2>1 DEF ShutdownAggregator
    <3>2. phase' \in [Req -> Phase]
      BY <2>1 DEF ShutdownAggregator
    <3>3. pending' \in [Key -> Req \cup {None}] /\ timers' \in [Key -> Req \cup {None}]
      BY <2>1 DEF ShutdownAggregator
    <3>. QED BY <2>1, <3>1, <3>2, <3>3 DEF ShutdownAggregator
  <2>2. CASE SetStopped BY <2>2 DEF SetStopped
  <2>3. CASE CopyCancels BY <2>3 DEF CopyCancels
  <2>4. CASE CancelCopied BY <2>4 DEF CancelCopied
  <2>. QED BY <1>8, <2>1, <2>2, <2>3, <2>4 DEF Shutdown
<1>9. ASSUME NEW k \in Key, CooldownExpires(k) PROVE TypeOK'
  BY <1>9 DEF CooldownExpires
<1>10. CASE NewDay BY <1>10, UnchargedFinite DEF NewDay
<1>11. CASE UNCHANGED vars BY <1>11 DEF vars
<1>. QED
  BY <1>1, <1>2, <1>3, <1>4, <1>5, <1>6, <1>7, <1>8, <1>9, <1>10, <1>11 DEF Next

\* The code of Submit and RunDiagnose moves its own request between the places
\* behind the window and leaves the aggregator's maps and keys alone.
LEMMA WorkerMoves ==
    ASSUME NEW r \in Req, Submit(r) \/ RunDiagnose(r)
    PROVE  /\ \E from \in BeforeSlot \cup WithSlot,
                 to \in Phase \ {"new", "pending"} : Move(r, from, to)
           /\ UNCHANGED <<pending, timers, timer, key>>
<1>. USE DEF Move, Phase, BeforeSlot, WithSlot, aggVars, reqVars
<1>1. CASE CheckStopped(r) BY <1>1 DEF CheckStopped
<1>2. CASE CheckCooldown(r) BY <1>2 DEF CheckCooldown
<1>3. CASE CheckDailyLimit(r) BY <1>3 DEF CheckDailyLimit
<1>4. CASE AcquireSlot(r) BY <1>4 DEF AcquireSlot
<1>5. CASE NoSlot(r) BY <1>5 DEF NoSlot
<1>6. CASE RegisterInFlight(r) BY <1>6 DEF RegisterInFlight
<1>7. CASE Diagnose(r) BY <1>7 DEF Diagnose
<1>8. CASE Panic(r) BY <1>8 DEF Panic
<1>9. CASE \E n \in Cost : AddTokens(r, n) BY <1>9 DEF AddTokens
<1>10. CASE UpdateCooldown(r) BY <1>10 DEF UpdateCooldown
<1>11. CASE UnregisterInFlight(r) BY <1>11 DEF UnregisterInFlight
<1>12. CASE ReleaseSlot(r) BY <1>12 DEF ReleaseSlot
<1>. QED
  BY <1>1, <1>2, <1>3, <1>4, <1>5, <1>6, <1>7, <1>8, <1>9, <1>10, <1>11, <1>12
  DEF Submit, RunDiagnose

\* What is left alone by everything except the aggregator, Submit and RunDiagnose.
LEMMA OthersLeaveRequests ==
    ASSUME \/ \E s \in Session :
                 RemoteTrySem(s) \/ RemoteStart(s) \/ RemoteReleaseSem(s)
           \/ SetStopped \/ CopyCancels \/ CancelCopied
           \/ \E k \in Key : CooldownExpires(k)
           \/ NewDay
           \/ UNCHANGED vars
    PROVE  UNCHANGED <<pending, timers, timer, key, phase, inFlight>>
BY DEF RemoteTrySem, RemoteStart, RemoteReleaseSem, SetStopped, CopyCancels,
       CancelCopied, CooldownExpires, NewDay, vars, aggVars, reqVars

\* The request is created before its timer, and with its key.
LEMMA CreatedStep == IInv /\ [Next]_vars => Created'
<1>. SUFFICES ASSUME IInv, [Next]_vars PROVE Created'
  OBVIOUS
<1>. USE SchedulerAssumption DEF IInv, TypeOK, Created
<1>1. ASSUME NEW k \in Key, SubmitJoin(k) PROVE Created'
  BY <1>1 DEF SubmitJoin, aggVars
<1>2. ASSUME NEW k \in Key, NEW r \in Req, SubmitOpen(k, r) PROVE Created'
  BY <1>2 DEF SubmitOpen
<1>3. ASSUME NEW r \in Req, TimerFires(r) PROVE Created'
  BY <1>3 DEF TimerFires, reqVars
<1>4. ASSUME NEW r \in Req, WindowCloses(r) PROVE Created'
  BY <1>4 DEF WindowCloses, TakePending, reqVars, PendingIsAwaited
<1>5. ASSUME NEW r \in Req, Submit(r) \/ RunDiagnose(r) PROVE Created'
  BY <1>5, WorkerMoves DEF Move, BeforeSlot, WithSlot
<1>6. CASE ShutdownAggregator
  <2>. SUFFICES ASSUME NEW r \in Req
                PROVE  /\ phase'[r] = "new" => timer'[r] = "unset"
                       /\ phase'[r] # "new" => key'[r] \in Key
    OBVIOUS
  <2>1. phase[r] = "new" => phase'[r] = "new" /\ timer'[r] = timer[r]
    BY <1>6 DEF ShutdownAggregator, PendingIsAwaited
  <2>2. phase'[r] = "new" => phase[r] = "new"
    BY <1>6 DEF ShutdownAggregator
  <2>. QED BY <1>6, <2>1, <2>2 DEF ShutdownAggregator, reqVars
<1>7. CASE UNCHANGED <<pending, timers, timer, key, phase, inFlight>>
  BY <1>7
<1>. HIDE DEF IInv, Created, TypeOK
<1>. QED
  BY <1>1, <1>2, <1>3, <1>4, <1>5, <1>6, <1>7, OthersLeaveRequests DEF Next, Shutdown

\* The map pending and the phase "pending" keep agreeing, and a timer remains.
LEMMA PendingStep == IInv /\ [Next]_vars => PendingIsAwaited'
<1>. SUFFICES ASSUME IInv, [Next]_vars PROVE PendingIsAwaited'
  OBVIOUS
<1>. USE SchedulerAssumption DEF IInv, TypeOK, Created, PendingIsAwaited
<1>1. ASSUME NEW k \in Key, SubmitJoin(k) PROVE PendingIsAwaited'
  BY <1>1 DEF SubmitJoin, aggVars
<1>2. ASSUME NEW k \in Key, NEW r \in Req, SubmitOpen(k, r) PROVE PendingIsAwaited'
  <2>1. ASSUME NEW j \in Key, NEW q \in Req
        PROVE  pending'[j] = q <=> phase'[q] = "pending" /\ key'[q] = j
    BY <1>2, <2>1 DEF SubmitOpen
  <2>2. ASSUME NEW j \in Key, pending'[j] # None
        PROVE  /\ \E t \in Req : key'[t] = j /\ timer'[t] \in {"armed", "fired"}
               /\ timers'[j] # None
    <3>1. CASE j = k
      BY <1>2, <3>1 DEF SubmitOpen
    <3>2. CASE j # k
      <4>1. PICK t \in Req : key[t] = j /\ timer[t] \in {"armed", "fired"}
        BY <1>2, <2>2, <3>2 DEF SubmitOpen
      <4>2. t # r
        BY <1>2, <4>1 DEF SubmitOpen
      <4>. QED BY <1>2, <2>2, <3>2, <4>1, <4>2 DEF SubmitOpen
    <3>. QED BY <3>1, <3>2
  <2>. QED BY <2>1, <2>2
<1>3. ASSUME NEW r \in Req, TimerFires(r) PROVE PendingIsAwaited'
  BY <1>3 DEF TimerFires, reqVars
<1>4. ASSUME NEW c \in Req, WindowCloses(c) PROVE PendingIsAwaited'
  <2>1. ASSUME NEW j \in Key, NEW q \in Req
        PROVE  pending'[j] = q <=> phase'[q] = "pending" /\ key'[q] = j
    BY <1>4, <2>1 DEF WindowCloses, TakePending, reqVars
  <2>2. ASSUME NEW j \in Key, pending'[j] # None
        PROVE  /\ \E t \in Req : key'[t] = j /\ timer'[t] \in {"armed", "fired"}
               /\ timers'[j] # None
    BY <1>4, <2>2 DEF WindowCloses, TakePending, reqVars
  <2>. QED BY <2>1, <2>2
<1>5. ASSUME NEW r \in Req, Submit(r) \/ RunDiagnose(r) PROVE PendingIsAwaited'
  BY <1>5, WorkerMoves DEF Move, BeforeSlot, WithSlot
<1>6. CASE ShutdownAggregator
  <2>1. \A k \in Key : pending'[k] = None
    BY <1>6 DEF ShutdownAggregator
  <2>2. \A r \in Req : phase'[r] # "pending"
    BY <1>6 DEF ShutdownAggregator
  <2>. QED BY <2>1, <2>2
<1>7. CASE UNCHANGED <<pending, timers, timer, key, phase, inFlight>>
  BY <1>7
<1>. HIDE DEF IInv, Created, TypeOK, PendingIsAwaited
<1>. QED
  BY <1>1, <1>2, <1>3, <1>4, <1>5, <1>6, <1>7, OthersLeaveRequests DEF Next, Shutdown

\* A run enters inFlight when it is registered and leaves Registered only in the
\* step that deletes the entry of its key.
LEMMA NoStaleCancelStep == IInv /\ [Next]_vars => NoStaleCancel'
<1>. SUFFICES ASSUME IInv, [Next]_vars PROVE NoStaleCancel'
  OBVIOUS
<1>. USE SchedulerAssumption DEF IInv, TypeOK, NoStaleCancel, Registered
<1>1. ASSUME NEW k \in Key, SubmitJoin(k) PROVE NoStaleCancel'
  BY <1>1 DEF SubmitJoin
<1>2. ASSUME NEW k \in Key, NEW r \in Req, SubmitOpen(k, r) PROVE NoStaleCancel'
  BY <1>2 DEF SubmitOpen
<1>3. ASSUME NEW r \in Req, TimerFires(r) PROVE NoStaleCancel'
  BY <1>3 DEF TimerFires, reqVars
<1>4. ASSUME NEW c \in Req, WindowCloses(c) PROVE NoStaleCancel'
  <2>1. key[c] \in Key
    BY <1>4 DEF WindowCloses, Created
  <2>2. \A r \in Registered : phase'[r] = phase[r]
    BY <1>4, <2>1 DEF WindowCloses, TakePending, PendingIsAwaited
  <2>. QED BY <1>4, <2>2 DEF WindowCloses, reqVars
<1>5. ASSUME NEW r \in Req, Submit(r) PROVE NoStaleCancel'
  BY <1>5 DEF Submit, CheckStopped, CheckCooldown, CheckDailyLimit, AcquireSlot,
              NoSlot, Move, reqVars
<1>6. ASSUME NEW r \in Req, RunDiagnose(r) PROVE NoStaleCancel'
  <2>. USE DEF Move, reqVars
  <2>1. CASE RegisterInFlight(r) BY <2>1 DEF RegisterInFlight, Created
  <2>2. CASE Diagnose(r) BY <2>2 DEF Diagnose
  <2>3. CASE Panic(r) BY <2>3 DEF Panic
  <2>4. CASE \E n \in Cost : AddTokens(r, n) BY <2>4 DEF AddTokens
  <2>5. CASE UpdateCooldown(r) BY <2>5 DEF UpdateCooldown
  <2>6. CASE UnregisterInFlight(r) BY <2>6 DEF UnregisterInFlight
  <2>7. CASE ReleaseSlot(r) BY <2>7 DEF ReleaseSlot
  <2>. QED BY <1>6, <2>1, <2>2, <2>3, <2>4, <2>5, <2>6, <2>7 DEF RunDiagnose
<1>7. CASE ShutdownAggregator
  BY <1>7 DEF ShutdownAggregator, reqVars, PendingIsAwaited
<1>8. CASE UNCHANGED <<pending, timers, timer, key, phase, inFlight>>
  BY <1>8
<1>. HIDE DEF IInv, TypeOK, NoStaleCancel, Registered
<1>. QED
  BY <1>1, <1>2, <1>3, <1>4, <1>5, <1>6, <1>7, <1>8, OthersLeaveRequests DEF Next, Shutdown

\* How the counter and the set of holders move together in every step.
HoldersStep ==
    \/ Holders' = Holders /\ sem' = sem
    \/ \E c \in Client : /\ c \notin Holders /\ sem < MaxConcurrent
                         /\ Holders' = Holders \cup {c} /\ sem' = sem + 1
    \/ \E c \in Client : /\ c \in Holders
                         /\ Holders' = Holders \ {c} /\ sem' = sem - 1

\* A step takes one slot for one client, gives one back, or touches neither.
LEMMA StepsOfHolders == IInv /\ [Next]_vars => HoldersStep
<1>. SUFFICES ASSUME IInv, [Next]_vars PROVE HoldersStep
  OBVIOUS
<1>. USE SchedulerAssumption
     DEF IInv, TypeOK, HoldersStep, Holders, Client, WithSlot, Move
<1>1. ASSUME NEW k \in Key, SubmitJoin(k) PROVE HoldersStep
  BY <1>1 DEF SubmitJoin
<1>2. ASSUME NEW k \in Key, NEW r \in Req, SubmitOpen(k, r) PROVE HoldersStep
  BY <1>2 DEF SubmitOpen
<1>3. ASSUME NEW r \in Req, TimerFires(r) PROVE HoldersStep
  BY <1>3 DEF TimerFires
<1>4. ASSUME NEW r \in Req, WindowCloses(r) PROVE HoldersStep
  BY <1>4 DEF WindowCloses, TakePending, PendingIsAwaited, Created
<1>5. ASSUME NEW r \in Req, Submit(r) PROVE HoldersStep
  <2>1. CASE AcquireSlot(r)
    <3>1. r \notin Holders /\ Holders' = Holders \cup {r}
      BY <2>1 DEF AcquireSlot
    <3>. QED BY <2>1, <3>1 DEF AcquireSlot, SlotFree
  <2>2. CASE ~AcquireSlot(r)
    BY <1>5, <2>2 DEF Submit, CheckStopped, CheckCooldown, CheckDailyLimit, NoSlot
  <2>. QED BY <2>1, <2>2
<1>6. ASSUME NEW r \in Req, RunDiagnose(r) PROVE HoldersStep
  <2>1. CASE ReleaseSlot(r)
    <3>1. r \in Holders /\ Holders' = Holders \ {r}
      BY <2>1 DEF ReleaseSlot
    <3>. QED BY <2>1, <3>1 DEF ReleaseSlot
  <2>2. CASE ~ReleaseSlot(r)
    BY <1>6, <2>2 DEF RunDiagnose, RegisterInFlight, Diagnose, Panic, AddTokens,
                      UpdateCooldown, UnregisterInFlight
  <2>. QED BY <2>1, <2>2
<1>7. ASSUME NEW s \in Session, RemoteTrySem(s) PROVE HoldersStep
  <2>1. s \notin Holders /\ Holders' = Holders \cup {s}
    BY <1>7 DEF RemoteTrySem
  <2>. QED BY <1>7, <2>1 DEF RemoteTrySem, SlotFree
<1>8. ASSUME NEW s \in Session, RemoteStart(s) PROVE HoldersStep
  BY <1>8 DEF RemoteStart
<1>9. ASSUME NEW s \in Session, RemoteReleaseSem(s) PROVE HoldersStep
  <2>1. s \in Holders /\ Holders' = Holders \ {s}
    BY <1>9 DEF RemoteReleaseSem
  <2>. QED BY <1>9, <2>1 DEF RemoteReleaseSem
<1>10. CASE Shutdown
  BY <1>10 DEF Shutdown, ShutdownAggregator, SetStopped, CopyCancels, CancelCopied,
               PendingIsAwaited
<1>11. CASE \/ \E k \in Key : CooldownExpires(k)
            \/ NewDay
            \/ UNCHANGED vars
  BY <1>11 DEF CooldownExpires, NewDay, vars
<1>. HIDE DEF IInv, TypeOK, HoldersStep, Holders, Client, WithSlot, Move
<1>. QED
  BY <1>1, <1>2, <1>3, <1>4, <1>5, <1>6, <1>7, <1>8, <1>9, <1>10, <1>11 DEF Next

\* There are finitely many holders at any time.
LEMMA HoldersFinite == IsFiniteSet(Holders)
<1>1. IsFiniteSet(Req \cup Session)
  BY SchedulerAssumption, FS_Union
<1>2. Holders \in SUBSET (Req \cup Session)
  BY DEF Holders
<1>. QED BY <1>1, <1>2, FS_Subset

\* So the counter stays the number of holders, and within the capacity.
LEMMA SlotStep == IInv /\ [Next]_vars => SlotConservation'
<1>. SUFFICES ASSUME IInv, [Next]_vars PROVE SlotConservation'
  OBVIOUS
<1>1. sem \in Nat /\ sem = Cardinality(Holders) /\ sem <= MaxConcurrent
  BY DEF IInv, TypeOK, SlotConservation
<1>2. MaxConcurrent \in Nat
  BY SchedulerAssumption
<1>3. CASE Holders' = Holders /\ sem' = sem
  BY <1>1, <1>3 DEF SlotConservation
<1>4. ASSUME NEW c \in Client, c \notin Holders, sem < MaxConcurrent,
             Holders' = Holders \cup {c}, sem' = sem + 1
      PROVE  SlotConservation'
  <2>1. Cardinality(Holders \cup {c}) = Cardinality(Holders) + 1
    BY <1>4, HoldersFinite, FS_AddElement
  <2>. QED BY <1>1, <1>2, <1>4, <2>1 DEF SlotConservation
<1>5. ASSUME NEW c \in Client, c \in Holders,
             Holders' = Holders \ {c}, sem' = sem - 1
      PROVE  SlotConservation'
  <2>1. Cardinality(Holders \ {c}) = Cardinality(Holders) - 1
    BY <1>5, HoldersFinite, FS_RemoveElement
  <2>. QED BY <1>1, <1>2, <1>5, <2>1 DEF SlotConservation
<1>. QED
  BY <1>3, <1>4, <1>5, StepsOfHolders DEF HoldersStep

-----------------------------------------------------------------------------
\* The parts of the invariant hold together in every reachable state.
LEMMA Invariance == Spec => []IInv
<1>1. IInv /\ [Next]_vars => IInv'
  BY TypeStep, CreatedStep, PendingStep, NoStaleCancelStep, SlotStep DEF IInv
<1>. QED
  BY InitInv, <1>1, PTL DEF Spec

\* The scheduler's state keeps its types, the natural numbers of sem and tokens
\* included: no release and no new day takes them below zero.
THEOREM TypeCorrect == Spec => []TypeOK
<1>1. IInv => TypeOK
  BY DEF IInv
<1>. QED BY Invariance, <1>1, PTL

\* However requests, panics, sessions and a shutdown interleave, the channel sem
\* holds one element per holder and never more than MaxConcurrent.
THEOREM SlotsConserved == Spec => []SlotConservation
<1>1. IInv => SlotConservation
  BY DEF IInv
<1>. QED BY Invariance, <1>1, PTL

\* No request is forgotten in the aggregator: while it is pending, a timer that
\* knows its key is armed or its callback is on the way.
THEOREM PendingAwaited == Spec => []PendingIsAwaited
<1>1. IInv => PendingIsAwaited
  BY DEF IInv
<1>. QED BY Invariance, <1>1, PTL

\* Every cancel function in inFlight belongs to a run that has not unregistered.
THEOREM CancelsAreLive == Spec => []NoStaleCancel
<1>1. IInv => NoStaleCancel
  BY DEF IInv
<1>. QED BY Invariance, <1>1, PTL

\* The counter implements the abstract pool of slots: each step of the scheduler
\* acquires or releases for one client, or does not concern the pool.
THEOREM ImplementsPool == Spec => PoolSpec
<1>1. Init => Pool!Init
  <2>. SUFFICES ASSUME Init PROVE Holders = {}
    BY DEF Pool!Init
  <2>. QED BY DEF Init, Holders, WithSlot
<1>2. IInv /\ [Next]_vars => [Pool!Next]_Holders
  <2>. SUFFICES ASSUME IInv, [Next]_vars PROVE [Pool!Next]_Holders
    OBVIOUS
  <2>1. sem = Cardinality(Holders)
    BY DEF IInv, SlotConservation
  <2>2. HoldersStep
    BY StepsOfHolders
  <2>3. CASE Holders' = Holders
    BY <2>3
  <2>4. ASSUME NEW c \in Client, c \notin Holders, sem < MaxConcurrent,
               Holders' = Holders \cup {c}
        PROVE  Pool!Next
    <3>1. Pool!Cardinality(Holders) = Cardinality(Holders)
      BY Zenon DEF Pool!Cardinality, Cardinality, Pool!IsFiniteSet, IsFiniteSet
    <3>2. Pool!Acquire(c)
      BY <2>1, <2>4, <3>1 DEF Pool!Acquire
    <3>. QED BY <3>2 DEF Pool!Next
  <2>5. ASSUME NEW c \in Client, c \in Holders, Holders' = Holders \ {c}
        PROVE  Pool!Next
    <3>1. Pool!Release(c)
      BY <2>5 DEF Pool!Release
    <3>. QED BY <3>1 DEF Pool!Next
  <2>. QED BY <2>2, <2>3, <2>4, <2>5 DEF HoldersStep
<1>. QED
  BY <1>1, <1>2, Invariance, PTL DEF Spec, PoolSpec, Pool!Spec

-----------------------------------------------------------------------------
(***************************************************************************)
(* What a step never does.                                                 *)
(***************************************************************************)

\* A request that has been taken.
Taken(r) == phase[r] \notin {"new", "pending"}

LeftAlone(r) == /\ phase'[r] \in {"pending", "taken"} => phase'[r] = phase[r]
                /\ events'[r] = events[r]

LEMMA TakenStep ==
  ASSUME IInv, [Next]_vars, NEW r \in Req, Taken(r)
  PROVE  LeftAlone(r)
<1>. USE DEF Taken, LeftAlone, Move, aggVars, reqVars, stopVars, stateVars
<1>0. /\ phase \in [Req -> Phase] /\ key \in [Req -> Key \cup {None}]
      /\ events \in [Req -> 0..MaxEvents] /\ pending \in [Key -> Req \cup {None}]
      /\ \A k \in Key : pending[k] # r
  BY DEF IInv, TypeOK, PendingIsAwaited
<1>1. ASSUME NEW k \in Key, SubmitJoin(k) PROVE LeftAlone(r)
  BY <1>0, <1>1 DEF SubmitJoin
<1>2. ASSUME NEW k \in Key, NEW q \in Req, SubmitOpen(k, q) PROVE LeftAlone(r)
  BY <1>0, <1>2 DEF SubmitOpen
<1>3. ASSUME NEW q \in Req, TimerFires(q) PROVE LeftAlone(r)
  BY <1>3 DEF TimerFires
<1>4. ASSUME NEW q \in Req, WindowCloses(q) PROVE LeftAlone(r)
  <2>1. key[q] \in Key
    BY <1>4, SchedulerAssumption DEF WindowCloses, IInv, Created, TypeOK, Phase
  <2>. QED BY <1>0, <1>4, <2>1 DEF WindowCloses, TakePending
<1>5. ASSUME NEW q \in Req, Submit(q) PROVE LeftAlone(r)
  BY <1>0, <1>5 DEF Submit, CheckStopped, CheckCooldown, CheckDailyLimit, AcquireSlot, NoSlot
<1>6. ASSUME NEW q \in Req, RunDiagnose(q) PROVE LeftAlone(r)
  <2>1. CASE RegisterInFlight(q) BY <1>0, <2>1 DEF RegisterInFlight
  <2>2. CASE Diagnose(q) BY <1>0, <2>2 DEF Diagnose
  <2>3. CASE Panic(q) BY <1>0, <2>3 DEF Panic
  <2>4. ASSUME NEW n \in Cost, AddTokens(q, n) PROVE LeftAlone(r)
    BY <1>0, <2>4 DEF AddTokens
  <2>5. CASE UpdateCooldown(q) BY <1>0, <2>5 DEF UpdateCooldown
  <2>6. CASE UnregisterInFlight(q) BY <1>0, <2>6 DEF UnregisterInFlight
  <2>7. CASE ReleaseSlot(q) BY <1>0, <2>7 DEF ReleaseSlot
  <2>. QED BY <1>6, <2>1, <2>2, <2>3, <2>4, <2>5, <2>6, <2>7 DEF RunDiagnose
<1>7. ASSUME NEW s \in Session, RemoteTrySem(s) \/ RemoteStart(s) \/ RemoteReleaseSem(s)
      PROVE  LeftAlone(r)
  BY <1>7 DEF RemoteTrySem, RemoteStart, RemoteReleaseSem
<1>8. CASE Shutdown
  <2>1. CASE ShutdownAggregator
    <3>1. phase'[r] = phase[r]
      BY <1>0, <2>1 DEF ShutdownAggregator
    <3>. QED BY <2>1, <3>1 DEF ShutdownAggregator
  <2>2. CASE SetStopped \/ CopyCancels \/ CancelCopied
    BY <2>2 DEF SetStopped, CopyCancels, CancelCopied
  <2>. QED BY <1>8, <2>1, <2>2 DEF Shutdown
<1>9. CASE NewDay \/ \E k \in Key : CooldownExpires(k)
  BY <1>9 DEF NewDay, CooldownExpires
<1>10. CASE UNCHANGED vars
  BY <1>10 DEF vars
<1>. QED BY <1>1, <1>2, <1>3, <1>4, <1>5, <1>6, <1>7, <1>8, <1>9, <1>10 DEF Next

\* Once a callback has taken a request no other callback takes it, whatever windows and
\* shutdowns overlap, and no event joins it (aggregator.go:62-64, 101).
THEOREM RequestsAreTakenOnce == Spec => TakenOnce
<1>1. IInv /\ [Next]_vars =>
        [\A r \in Req : phase[r] \notin {"new", "pending"} =>
            /\ phase'[r] \in {"pending", "taken"} => phase'[r] = phase[r]
            /\ events'[r] = events[r]]_vars
  BY TakenStep DEF Taken, LeftAlone
<1>. QED BY <1>1, Invariance, PTL DEF Spec, TakenOnce

-----------------------------------------------------------------------------
(***************************************************************************)
(* The budget.  What has been counted, and what those may still add who    *)
(* have been let through, stays together below the bound: letting somebody *)
(* through needs a count below the limit, and raises the peak if need be.  *)
(***************************************************************************)
Largest == Max(Cost)

BudgetInv ==
    /\ Cardinality(Uncharged) <= peak
    /\ DailyTokenLimit > 0 =>
          tokens + Cardinality(Uncharged) * Largest <= DailyTokenLimit - 1 + peak * Largest

\* How the count, the peak and the runs that are let through move together.
Admit(r) == /\ r \notin Uncharged /\ Uncharged' = Uncharged \cup {r}
            /\ ~DailyLimitReached
            /\ tokens' = tokens /\ peak' = Max({peak, Cardinality(Uncharged')})
Refuse == /\ Uncharged' = Uncharged
          /\ tokens' = tokens /\ peak' = Max({peak, Cardinality(Uncharged')})
Charge(r, n) == /\ r \in Uncharged /\ Uncharged' = Uncharged \ {r}
                /\ tokens' = tokens + n /\ peak' = peak
Reset == /\ Uncharged' = Uncharged
         /\ tokens' = 0 /\ peak' = Cardinality(Uncharged)
Keep == /\ Uncharged' \subseteq Uncharged
        /\ tokens' = tokens /\ peak' = peak

BudgetStep ==
    \/ \E r \in Req : Admit(r)
    \/ Refuse
    \/ \E r \in Req, n \in Cost : Charge(r, n)
    \/ Reset
    \/ Keep

LEMMA StepsOfBudget == IInv /\ [Next]_vars => BudgetStep
<1>. SUFFICES ASSUME IInv, [Next]_vars PROVE BudgetStep
  OBVIOUS
<1>. USE DEF BudgetStep, Move, aggVars, reqVars, stopVars, stateVars, Uncharged
<1>0. /\ phase \in [Req -> Phase] /\ key \in [Req -> Key \cup {None}]
      /\ pending \in [Key -> Req \cup {None}]
  BY DEF IInv, TypeOK
<1>1. ASSUME NEW k \in Key, SubmitJoin(k) PROVE Keep
  BY <1>1 DEF SubmitJoin, Keep
<1>2. ASSUME NEW k \in Key, NEW q \in Req, SubmitOpen(k, q) PROVE Keep
  BY <1>0, <1>2 DEF SubmitOpen, Keep
<1>3. ASSUME NEW q \in Req, TimerFires(q) PROVE Keep
  BY <1>3 DEF TimerFires, Keep
<1>4. ASSUME NEW q \in Req, WindowCloses(q) PROVE Keep
  BY <1>0, <1>4 DEF WindowCloses, TakePending, Keep
<1>5. ASSUME NEW q \in Req, Submit(q) PROVE BudgetStep
  <2>1. CASE CheckDailyLimit(q)
    <3>1. CASE DailyLimitReached
      <4>1. Uncharged' = Uncharged
        BY <1>0, <2>1, <3>1 DEF CheckDailyLimit
      <4>. QED BY <2>1, <4>1, Zenon DEF CheckDailyLimit, Refuse
    <3>2. CASE ~DailyLimitReached
      <4>1. q \notin Uncharged /\ Uncharged' = Uncharged \cup {q}
        BY <1>0, <2>1, <3>2 DEF CheckDailyLimit
      <4>2. Admit(q)
        BY <2>1, <3>2, <4>1, Zenon DEF CheckDailyLimit, Admit
      <4>. QED BY <4>2
    <3>. QED BY <3>1, <3>2
  <2>2. CASE CheckStopped(q) BY <1>0, <2>2 DEF CheckStopped, Keep
  <2>3. CASE CheckCooldown(q) BY <1>0, <2>3 DEF CheckCooldown, Keep
  <2>4. CASE AcquireSlot(q) BY <1>0, <2>4 DEF AcquireSlot, Keep
  <2>5. CASE NoSlot(q) BY <1>0, <2>5 DEF NoSlot, Keep
  <2>. QED BY <1>5, <2>1, <2>2, <2>3, <2>4, <2>5 DEF Submit
<1>6. ASSUME NEW q \in Req, RunDiagnose(q) PROVE BudgetStep
  <2>1. CASE RegisterInFlight(q) BY <1>0, <2>1 DEF RegisterInFlight, Keep
  <2>2. CASE Diagnose(q) BY <1>0, <2>2 DEF Diagnose, Keep
  <2>3. CASE Panic(q) BY <1>0, <2>3 DEF Panic, Keep
  <2>4. ASSUME NEW n \in Cost, AddTokens(q, n) PROVE BudgetStep
    <3>1. Charge(q, n) BY <1>0, <2>4 DEF AddTokens, Charge
    <3>. QED BY <3>1
  <2>5. CASE UpdateCooldown(q) BY <1>0, <2>5 DEF UpdateCooldown, Keep
  <2>6. CASE UnregisterInFlight(q) BY <1>0, <2>6 DEF UnregisterInFlight, Keep
  <2>7. CASE ReleaseSlot(q) BY <1>0, <2>7 DEF ReleaseSlot, Keep
  <2>. QED BY <1>6, <2>1, <2>2, <2>3, <2>4, <2>5, <2>6, <2>7 DEF RunDiagnose
<1>7. ASSUME NEW s \in Session, RemoteTrySem(s) \/ RemoteStart(s) \/ RemoteReleaseSem(s)
      PROVE  Keep
  BY <1>7 DEF RemoteTrySem, RemoteStart, RemoteReleaseSem, Keep
<1>8. CASE Shutdown
  BY <1>0, <1>8 DEF Shutdown, ShutdownAggregator, SetStopped, CopyCancels, CancelCopied, Keep
<1>9. ASSUME NEW k \in Key, CooldownExpires(k) PROVE Keep
  BY <1>9 DEF CooldownExpires, Keep
<1>10. CASE NewDay BY <1>10 DEF NewDay, Reset
<1>11. CASE UNCHANGED vars BY <1>11 DEF vars, Keep
<1>. HIDE DEF Uncharged
<1>. QED
  BY <1>1, <1>2, <1>3, <1>4, <1>5, <1>6, <1>7, <1>8, <1>9, <1>10, <1>11 DEF Next

\* The most a run costs.
LEMMA LargestCost == Largest \in Nat /\ \A n \in Cost : n <= Largest
<1>1. \E m \in Cost : \A n \in Cost : m >= n
  BY SchedulerAssumption
<1>2. Largest \in Cost /\ \A n \in Cost : Largest >= n
  BY <1>1, Zenon DEF Largest, Max
<1>. QED BY <1>2, SchedulerAssumption

LEMMA BudgetKept == IInv /\ BudgetInv /\ [Next]_vars => BudgetInv'
<1>. SUFFICES ASSUME IInv, BudgetInv, [Next]_vars PROVE BudgetInv'
  OBVIOUS
<1>1. PICK u \in Nat, v \in Nat : u = Cardinality(Uncharged) /\ v = Cardinality(Uncharged')
  BY UnchargedFinite
<1>2. PICK l \in Nat : l = Largest /\ \A n \in Cost : n <= l
  BY LargestCost
<1>3. tokens \in Nat /\ peak \in Nat /\ DailyTokenLimit \in Int
  BY SchedulerAssumption DEF IInv, TypeOK
<1>4. u <= peak /\ (DailyTokenLimit > 0 => tokens + u * l <= DailyTokenLimit - 1 + peak * l)
  BY <1>1, <1>2, Zenon DEF BudgetInv
<1>. SUFFICES /\ v <= peak'
              /\ DailyTokenLimit > 0 => tokens' + v * l <= DailyTokenLimit - 1 + peak' * l
  BY <1>1, <1>2, Zenon DEF BudgetInv, Largest
<1>5. ASSUME NEW r \in Req, Admit(r)
      PROVE  v <= peak' /\ (DailyTokenLimit > 0 =>
                tokens' + v * l <= DailyTokenLimit - 1 + peak' * l)
  <2>1. peak' \in Nat /\ v <= peak'
    BY <1>1, <1>3, <1>5, LargerOf DEF Admit
  <2>2. v * l \in Nat /\ peak' * l \in Nat /\ v * l <= peak' * l
    BY <2>1, Times
  <2>3. DailyTokenLimit > 0 => tokens' <= DailyTokenLimit - 1
    BY <1>3, <1>5 DEF Admit, DailyLimitReached
  <2>. QED BY <1>3, <1>5, <2>1, <2>2, <2>3 DEF Admit
<1>6. CASE Refuse
  <2>1. v = u /\ peak' \in Nat /\ v <= peak' /\ peak <= peak'
    BY <1>1, <1>3, <1>6, LargerOf DEF Refuse
  <2>2. peak * l \in Nat /\ peak' * l \in Nat /\ peak * l <= peak' * l /\ u * l \in Nat
    BY <1>3, <2>1, Times
  <2>. QED BY <1>3, <1>4, <1>6, <2>1, <2>2 DEF Refuse
<1>7. ASSUME NEW r \in Req, NEW n \in Cost, Charge(r, n)
      PROVE  v <= peak' /\ (DailyTokenLimit > 0 =>
                tokens' + v * l <= DailyTokenLimit - 1 + peak' * l)
  <2>1. v = u - 1 /\ u = v + 1
    BY <1>1, <1>7, UnchargedFinite, FS_RemoveElement DEF Charge
  <2>2. v * l \in Nat /\ u * l = v * l + l /\ peak * l \in Nat
    BY <1>3, <2>1, Times
  <2>3. n <= l /\ n \in Nat
    BY <1>2, SchedulerAssumption
  <2>. QED BY <1>3, <1>4, <1>7, <2>1, <2>2, <2>3 DEF Charge
<1>8. CASE Reset
  <2>1. v = u /\ peak' = u /\ u * l \in Nat
    BY <1>1, <1>8, Times DEF Reset
  <2>. QED BY <1>3, <1>8, <2>1 DEF Reset
<1>9. CASE Keep
  <2>1. v <= u
    BY <1>1, <1>9, UnchargedFinite, FS_Subset DEF Keep
  <2>2. v * l \in Nat /\ u * l \in Nat /\ v * l <= u * l /\ peak * l \in Nat
    BY <1>3, <2>1, Times
  <2>. QED BY <1>3, <1>4, <1>9, <2>1, <2>2 DEF Keep
<1>. QED BY <1>5, <1>6, <1>7, <1>8, <1>9, StepsOfBudget DEF BudgetStep

\* For any limit, costs and numbers of runs: the tokens of a day exceed the limit by
\* less than what the largest number of runs that were let through together may use.
THEOREM OvershootIsBounded == Spec => []OvershootBounded
<1>1. Init => BudgetInv
  <2>. SUFFICES ASSUME Init PROVE BudgetInv
    OBVIOUS
  <2>1. Uncharged = {}
    BY DEF Init, Uncharged
  <2>2. Cardinality(Uncharged) = 0
    BY <2>1, FS_EmptySet
  <2>3. 0 * Largest = 0
    BY LargestCost
  <2>. QED BY <2>2, <2>3, SchedulerAssumption DEF Init, BudgetInv
<1>2. IInv /\ BudgetInv => OvershootBounded
  <2>. SUFFICES ASSUME IInv, BudgetInv PROVE OvershootBounded
    OBVIOUS
  <2>1. PICK x \in Nat, y \in Nat :
            x = Cardinality(Uncharged) * Largest /\ y = peak * Largest
    <3>1. Cardinality(Uncharged) \in Nat /\ peak \in Nat /\ Largest \in Nat
      BY UnchargedFinite, LargestCost DEF IInv, TypeOK
    <3>. QED BY <3>1, Times
  <2>2. DailyTokenLimit > 0 => tokens + x <= DailyTokenLimit - 1 + y
    BY <2>1, Zenon DEF BudgetInv
  <2>3. DailyTokenLimit > 0 => tokens <= DailyTokenLimit - 1 + y
    BY <2>1, <2>2, SchedulerAssumption DEF IInv, TypeOK
  <2>. QED BY <2>1, <2>3, Zenon DEF OvershootBounded, Largest
<1>. QED BY <1>1, <1>2, BudgetKept, Invariance, PTL DEF Spec

-----------------------------------------------------------------------------
(***************************************************************************)
(* The cooldown.                                                           *)
(***************************************************************************)
\* The only way past the check of the cooldown, and who keeps his key.
LEMMA ComesUnderWay ==
  ASSUME IInv, [Next]_vars, NEW r \in Req
  PROVE  /\ r \in UnderWay' /\ r \notin UnderWay =>
               phase[r] = "unstopped" /\ ~CooldownActive(key[r])
         /\ phase[r] # "new" => key'[r] = key[r] /\ phase'[r] # "new"
<1>. DEFINE Came ==
       /\ r \in UnderWay' /\ r \notin UnderWay =>
             phase[r] = "unstopped" /\ ~CooldownActive(key[r])
       /\ phase[r] # "new" => key'[r] = key[r] /\ phase'[r] # "new"
<1>. USE DEF Move, aggVars, reqVars, stopVars, stateVars, UnderWay
<1>0. phase \in [Req -> Phase] /\ key \in [Req -> Key \cup {None}]
  BY DEF IInv, TypeOK
<1>1. ASSUME NEW k \in Key, SubmitJoin(k) PROVE Came
  BY <1>1 DEF SubmitJoin
<1>2. ASSUME NEW k \in Key, NEW q \in Req, SubmitOpen(k, q) PROVE Came
  BY <1>0, <1>2 DEF SubmitOpen
<1>3. ASSUME NEW q \in Req, TimerFires(q) PROVE Came
  BY <1>3 DEF TimerFires
<1>4. ASSUME NEW q \in Req, WindowCloses(q) PROVE Came
  BY <1>0, <1>4 DEF WindowCloses, TakePending
<1>5. ASSUME NEW q \in Req, Submit(q) PROVE Came
  <2>1. CASE CheckStopped(q) BY <1>0, <2>1 DEF CheckStopped
  <2>2. CASE CheckCooldown(q) BY <1>0, <2>2 DEF CheckCooldown
  <2>3. CASE CheckDailyLimit(q) BY <1>0, <2>3 DEF CheckDailyLimit
  <2>4. CASE AcquireSlot(q) BY <1>0, <2>4 DEF AcquireSlot
  <2>5. CASE NoSlot(q) BY <1>0, <2>5 DEF NoSlot
  <2>. QED BY <1>5, <2>1, <2>2, <2>3, <2>4, <2>5 DEF Submit
<1>6. ASSUME NEW q \in Req, RunDiagnose(q) PROVE Came
  <2>1. CASE RegisterInFlight(q) BY <1>0, <2>1 DEF RegisterInFlight
  <2>2. CASE Diagnose(q) BY <1>0, <2>2 DEF Diagnose
  <2>3. CASE Panic(q) BY <1>0, <2>3 DEF Panic
  <2>4. ASSUME NEW n \in Cost, AddTokens(q, n) PROVE Came
    BY <1>0, <2>4 DEF AddTokens
  <2>5. CASE UpdateCooldown(q) BY <1>0, <2>5 DEF UpdateCooldown
  <2>6. CASE UnregisterInFlight(q) BY <1>0, <2>6 DEF UnregisterInFlight
  <2>7. CASE ReleaseSlot(q) BY <1>0, <2>7 DEF ReleaseSlot
  <2>. QED BY <1>6, <2>1, <2>2, <2>3, <2>4, <2>5, <2>6, <2>7 DEF RunDiagnose
<1>7. ASSUME NEW s \in Session, RemoteTrySem(s) \/ RemoteStart(s) \/ RemoteReleaseSem(s)
      PROVE  Came
  BY <1>7 DEF RemoteTrySem, RemoteStart, RemoteReleaseSem
<1>8. CASE Shutdown
  <2>1. CASE ShutdownAggregator
    BY <1>0, <2>1 DEF ShutdownAggregator
  <2>2. CASE SetStopped \/ CopyCancels \/ CancelCopied
    BY <2>2 DEF SetStopped, CopyCancels, CancelCopied
  <2>. QED BY <1>8, <2>1, <2>2 DEF Shutdown
<1>9. CASE NewDay \/ \E k \in Key : CooldownExpires(k)
  BY <1>9 DEF NewDay, CooldownExpires
<1>10. CASE UNCHANGED vars
  BY <1>10 DEF vars
<1>. QED BY <1>1, <1>2, <1>3, <1>4, <1>5, <1>6, <1>7, <1>8, <1>9, <1>10 DEF Next

\* Who has a crew is cooling, and its members have long been created.
CrewInv ==
    /\ \A k \in Key : OfKey(crew, k) # {} => k \in cooling
    /\ \A r \in crew : phase[r] # "new"
    /\ OneCrewPerCooldown

\* The steps that touch crews and cooldowns.
LEMMA StepsOfCrew ==
  IInv /\ [Next]_vars =>
     \/ crew' = crew /\ cooling' = cooling
     \/ \E r \in Req : UpdateCooldown(r)
     \/ \E k \in Key : CooldownExpires(k)
<1>. SUFFICES ASSUME IInv, [Next]_vars,
                     ~ \E r \in Req : UpdateCooldown(r), ~ \E k \in Key : CooldownExpires(k)
              PROVE  crew' = crew /\ cooling' = cooling
  OBVIOUS
<1>. USE DEF stateVars
<1>1. ASSUME NEW q \in Req, Submit(q) PROVE crew' = crew /\ cooling' = cooling
  BY <1>1 DEF Submit, CheckStopped, CheckCooldown, CheckDailyLimit, AcquireSlot, NoSlot
<1>2. ASSUME NEW q \in Req, RunDiagnose(q) PROVE crew' = crew /\ cooling' = cooling
  BY <1>2 DEF RunDiagnose, RegisterInFlight, Diagnose, Panic, AddTokens,
              UnregisterInFlight, ReleaseSlot
<1>3. CASE Shutdown
  BY <1>3 DEF Shutdown, ShutdownAggregator, SetStopped, CopyCancels, CancelCopied
<1>. QED
  BY <1>1, <1>2, <1>3 DEF Next, SubmitJoin, SubmitOpen, TimerFires, WindowCloses,
     RemoteTrySem, RemoteStart, RemoteReleaseSem, NewDay, vars

LEMMA CrewKept == IInv /\ CrewInv /\ [Next]_vars => CrewInv'
<1>. SUFFICES ASSUME IInv, CrewInv, [Next]_vars PROVE CrewInv'
  OBVIOUS
<1>. USE DEF CrewInv, OneCrewPerCooldown, OfKey
<1>0. crew \subseteq Req /\ UnderWay \subseteq Req
  BY DEF IInv, TypeOK, UnderWay
<1>1. \A r \in Req : phase[r] # "new" => key'[r] = key[r] /\ phase'[r] # "new"
  BY ComesUnderWay
<1>2. \A r \in UnderWay' \ UnderWay : phase[r] = "unstopped" /\ key[r] \notin cooling
  BY ComesUnderWay DEF CooldownActive, UnderWay
<1>3. \A r \in UnderWay : phase[r] # "new"
  BY DEF UnderWay
<1>4. UnderWay' \subseteq Req
  BY DEF UnderWay
<1>5. CASE crew' = crew /\ cooling' = cooling
  BY <1>0, <1>1, <1>2, <1>3, <1>4, <1>5
<1>6. ASSUME NEW r \in Req, UpdateCooldown(r) PROVE CrewInv'
  <2>1. /\ UnderWay' \subseteq UnderWay /\ r \in UnderWay /\ key' = key
        /\ cooling' = cooling \cup {key[r]} /\ key[r] \in Key
    <3>1. phase \in [Req -> Phase] /\ phase[r] = "charged" /\ phase' = [phase EXCEPT ![r] = "closing"]
      BY <1>6 DEF UpdateCooldown, Move, IInv, TypeOK
    <3>2. UnderWay' \subseteq UnderWay /\ r \in UnderWay
      BY <3>1 DEF UnderWay
    <3>3. key[r] \in Key
      BY <3>1 DEF IInv, Created
    <3>. QED BY <1>6, <3>2, <3>3 DEF UpdateCooldown, StartCooldown, reqVars
  <2>2. CASE OfKey(crew, key[r]) = {}
    <3>1. crew' = crew \cup {q \in UnderWay : key[q] = key[r]}
      BY <1>6, <2>2 DEF UpdateCooldown
    <3>. QED BY <1>0, <1>1, <1>3, <2>1, <3>1
  <2>3. CASE OfKey(crew, key[r]) # {}
    <3>1. crew' = crew
      BY <1>6, <2>3 DEF UpdateCooldown
    <3>. QED BY <1>0, <1>1, <1>3, <2>1, <3>1
  <2>. QED BY <2>2, <2>3
<1>7. ASSUME NEW k \in Key, CooldownExpires(k) PROVE CrewInv'
  <2>1. /\ crew' = crew \ {r \in crew : key[r] = k} /\ cooling' = cooling \ {k}
        /\ UnderWay' = UnderWay /\ key' = key
    BY <1>7 DEF CooldownExpires, UnderWay, reqVars
  <2>. QED BY <1>0, <1>1, <2>1
<1>. QED BY <1>5, <1>6, <1>7, StepsOfCrew

\* Between the end of the first run of a key that ends and the expiry of the cooldown,
\* only runs that overlapped with that one are under way, whoever renews the cooldown.
THEOREM CooldownIsKept == Spec => []OneCrewPerCooldown
<1>1. Init => CrewInv
  BY DEF Init, CrewInv, OneCrewPerCooldown, OfKey
<1>2. CrewInv => OneCrewPerCooldown
  BY DEF CrewInv
<1>. QED BY <1>1, <1>2, CrewKept, Invariance, PTL DEF Spec
=============================================================================
