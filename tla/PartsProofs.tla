----------------------------- MODULE PartsProofs -----------------------------
(***************************************************************************)
(* Proofs about the manager of the MCP servers (McpManager), the notifiers *)
(* (Notifiers), the tools of a diagnosis (ToolRegistry, ToolUse), the pace *)
(* of reconnecting (Reconnect), the bounded list (LimitedQueue), the       *)
(* commands that are run and how they are split into words (Commands,      *)
(* ShellWords), the filters (Filters) and the settings (Settings).         *)
(***************************************************************************)
EXTENDS McpManager, Notifiers, ToolUse, Reconnect, LimitedQueue, Commands, Filters, Settings,
        SequenceLemmas, FiniteSetTheorems

(***************************************************************************)
(* The manager of the MCP servers.  StartAll goes through the servers in   *)
(* order, so that what it enters takes the place of an earlier one.        *)
(***************************************************************************)
StartingNamed ==
    startPc # "idle" => next \in Server /\ serverName[next] \in ServerName

\* What is behind StartAll: a client has the name it is entered under.
Behind ==
    /\ processes \subseteq {s \in Server : s <= next}
    /\ startPc = "idle" => next \notin processes
    /\ \A n \in ServerName : clients[n] # 0 =>
          /\ serverName[clients[n]] = n
          /\ clients[n] < next \/ (clients[n] = next /\ startPc = "registering")

ManagerInv == ManagerTypeOK /\ StartingNamed /\ Behind /\ NoneLeftBehind

LEMMA ManagerStart == ManagerInit => ManagerInv
BY ManagerAssumption
   DEF ManagerInit, ManagerInv, ManagerTypeOK, StartingNamed, Behind, NoneLeftBehind, Server

LEMMA ManagerStep == ManagerInv /\ [ManagerNext]_managerVars => ManagerInv'
<1>. SUFFICES ASSUME ManagerInv, [ManagerNext]_managerVars PROVE ManagerInv'
  OBVIOUS
<1>. USE ManagerAssumption
     DEF ManagerInv, ManagerTypeOK, StartingNamed, Behind, NoneLeftBehind, Server
<1>1. CASE SkipServer
  BY <1>1 DEF SkipServer, Starting, Entered, Displaced
<1>2. CASE StartProcess
  BY <1>2 DEF StartProcess, Starting, Entered, Displaced
<1>3. CASE Initialize
  BY <1>3 DEF Initialize, Entered, Displaced
<1>4. CASE StartFails
  BY <1>4 DEF StartFails, Entered, Displaced
<1>5. CASE ListTools
  <2>1. /\ startPc = "listing" /\ startPc' = "registering" /\ found' \subseteq McpTool
        /\ clients' = [clients EXCEPT ![serverName[next]] = next]
        /\ UNCHANGED <<serverName, next, processes, executors>>
    BY <1>5 DEF ListTools
  <2>2. next \in Server /\ serverName[next] \in ServerName
    BY <2>1
  <2>3. ManagerTypeOK' /\ StartingNamed' /\ Behind'
    BY <2>1, <2>2
  <2>4. Entered \subseteq Entered' \cup Displaced
    <3>. SUFFICES ASSUME NEW n \in ServerName, clients[n] # 0, n = serverName[next],
                         clients[n] # next
                  PROVE  clients[n] \in Displaced
      BY <2>1, <2>2 DEF Entered
    <3>. QED BY <2>1, <2>2 DEF Displaced
  <2>5. next \in Entered' /\ Displaced' = Displaced
    BY <2>1, <2>2 DEF Entered, Displaced
  <2>6. NoneLeftBehind'
    BY <2>1, <2>4, <2>5
  <2>. QED BY <2>3, <2>6
<1>6. CASE RegisterTools
  BY <1>6 DEF RegisterTools, registerTools, Entered, Displaced
<1>7. CASE CloseAll
  <2>1. /\ processes' = processes \ Entered /\ clients' = [n \in ServerName |-> 0]
        /\ UNCHANGED <<serverName, next, startPc, found, executors>>
    BY <1>7 DEF CloseAll
  <2>2. ManagerTypeOK' /\ StartingNamed'
    BY <2>1
  <2>3. Behind'
    BY <2>1
  <2>4. Displaced' = Displaced
    BY <2>1 DEF Displaced
  <2>5. NoneLeftBehind'
    BY <2>1, <2>4
  <2>. QED BY <2>2, <2>3, <2>5
<1>8. CASE UNCHANGED managerVars
  BY <1>8 DEF managerVars, Entered, Displaced
<1>. QED BY <1>1, <1>2, <1>3, <1>4, <1>5, <1>6, <1>7, <1>8 DEF ManagerNext

\* A process that runs is one that Close will close, or is being started, unless a later
\* server has its name: no failure of a start and no Close in between leaves one behind
\* (manager.go:56-89, 134-144).
THEOREM NoProcessLeftBehind == ManagerSpec => []NoneLeftBehind
<1>1. ManagerInv => NoneLeftBehind
  BY DEF ManagerInv
<1>. QED BY <1>1, ManagerStart, ManagerStep, PTL DEF ManagerSpec

(***************************************************************************)
(* The notifiers, for any number of attempts.  A notifier that says yes    *)
(* has been believed by its service; one that goes on has lost an answer   *)
(* for each copy that its service has; one that gives up was refused, has  *)
(* made its attempts or had no request to send, and then none has left.    *)
(***************************************************************************)
Truthful(n) ==
    /\ said[n] => copies[n] > 0
    /\ sender[n] \in {"posting", "sleeping"} => copies[n] <= unanswered[n]
    /\ sender[n] = "posting" => unanswered[n] < attempts[n]
    /\ sender[n] = "sleeping" => attempts[n] < MaxAttempts
    /\ unanswered[n] <= attempts[n] /\ copies[n] <= attempts[n]
    /\ copies[n] <= unanswered[n] + 1
    /\ n \in unbuilt => sender[n] \in {"done", "idle"} /\ copies[n] = 0 /\ unanswered[n] = 0

Concluded(n) == said[n] \/ n \in refused \cup unbuilt \/ attempts[n] = MaxAttempts

NotifyInv ==
    /\ NotifyTypeOK
    /\ \A n \in Registered : Truthful(n) /\ (sender[n] = "done" => Concluded(n))
    /\ forwarded = "yes" => \E n \in Registered : said[n]
    /\ forwarded = "no" => \A n \in Registered : ~said[n] /\ Concluded(n)

LEMMA NotifyStart == NotifyInit => NotifyInv
BY NotifiersAssumption DEF NotifyInit, NotifyInv, NotifyTypeOK, Truthful

\* What a service takes is what its notifier calls accepted.
LEMMA TakenIsAccepted ==
  ASSUME NEW n \in Registered, NEW s \in Status
  PROVE  Takes(n, s) <=> Accepted(n, s)
BY NotifiersAssumption DEF Status, Takes, Accepted

\* The outcomes of an attempt.
Accepts(n) ==
    /\ sender' = [sender EXCEPT ![n] = "done"] /\ said' = [said EXCEPT ![n] = TRUE]
    /\ copies' = [copies EXCEPT ![n] = @ + 1] /\ UNCHANGED <<refused, unanswered>>

RefusesEvent(n) ==
    /\ sender' = [sender EXCEPT ![n] = "done"] /\ said' = [said EXCEPT ![n] = FALSE]
    /\ refused' = refused \cup {n} /\ UNCHANGED <<copies, unanswered>>

FailsAttempt(n) ==
    /\ TryAgain(n) /\ UNCHANGED refused
    /\ \/ UNCHANGED <<copies, unanswered>>
       \/ /\ unanswered' = [unanswered EXCEPT ![n] = @ + 1]
          /\ copies' \in {copies, [copies EXCEPT ![n] = @ + 1]}

\* An attempt is accepted, refused or has failed, and without an answer it has failed.
LEMMA AttemptOutcome ==
  ASSUME NEW n \in Registered
  PROVE  /\ \A s \in Status : Answered(n, s) => Accepts(n) \/ RefusesEvent(n) \/ FailsAttempt(n)
         /\ Unanswered(n) => FailsAttempt(n)
<1>1. ASSUME NEW s \in Status, Answered(n, s)
      PROVE  Accepts(n) \/ RefusesEvent(n) \/ FailsAttempt(n)
  <2>1. CASE Accepted(n, s)
    <3>1. Takes(n, s)
      BY <2>1, TakenIsAccepted
    <3>. QED BY <1>1, <2>1, <3>1, Zenon DEF Answered, Reaches, Finish, Accepts
  <2>2. CASE ~Accepted(n, s) /\ Retryable(n, s)
    <3>1. ~Takes(n, s)
      BY <2>2, TakenIsAccepted
    <3>. QED BY <1>1, <2>2, <3>1, Zenon DEF Answered, Reaches, FailsAttempt
  <2>3. CASE ~Accepted(n, s) /\ ~Retryable(n, s)
    <3>1. ~Takes(n, s)
      BY <2>3, TakenIsAccepted
    <3>. QED BY <1>1, <2>3, <3>1, Zenon DEF Answered, Reaches, Finish, RefusesEvent
  <2>. QED BY <2>1, <2>2, <2>3
<1>2. ASSUME Unanswered(n) PROVE FailsAttempt(n)
  BY <1>2, Zenon DEF Unanswered, Reaches, FailsAttempt
<1>. QED BY <1>1, <1>2

\* A step of one notifier leaves the others alone.
LEMMA AttemptStep ==
  ASSUME NotifyInv, NEW n \in Registered, sender[n] = "posting", UNCHANGED <<attempts, unbuilt, forwarded>>,
         Accepts(n) \/ RefusesEvent(n) \/ FailsAttempt(n)
  PROVE  NotifyInv'
<1>. USE NotifiersAssumption DEF NotifyInv, NotifyTypeOK, Truthful, Concluded
<1>1. forwarded = "open"
  OBVIOUS
<1>2. CASE Accepts(n)
  BY <1>1, <1>2 DEF Accepts
<1>3. CASE RefusesEvent(n)
  BY <1>1, <1>3 DEF RefusesEvent
<1>4. CASE FailsAttempt(n)
  <2>1. /\ refused' = refused /\ forwarded' = "open" /\ attempts' = attempts /\ unbuilt' = unbuilt
        /\ attempts[n] \in 1..MaxAttempts /\ unanswered[n] \in Nat /\ copies[n] \in Nat
        /\ copies[n] <= unanswered[n] /\ unanswered[n] < attempts[n]
    BY <1>1, <1>4 DEF FailsAttempt
  <2>2. /\ unanswered' \in [Registered -> 0..MaxAttempts]
        /\ copies' \in [Registered -> 0..MaxAttempts]
        /\ copies'[n] <= unanswered'[n] /\ unanswered'[n] <= attempts[n]
        /\ copies[n] <= copies'[n]
        /\ \A m \in Registered \ {n} : unanswered'[m] = unanswered[m] /\ copies'[m] = copies[m]
    BY <1>4, <2>1 DEF FailsAttempt
  <2>3. CASE MoreAttempts(n)
    <3>1. sender' = [sender EXCEPT ![n] = "sleeping"] /\ said' = said /\ attempts[n] < MaxAttempts
      BY <1>4, <2>3 DEF FailsAttempt, TryAgain, MoreAttempts
    <3>. QED BY <2>1, <2>2, <3>1
  <2>4. CASE ~MoreAttempts(n)
    <3>1. /\ sender' = [sender EXCEPT ![n] = "done"] /\ said' = [said EXCEPT ![n] = FALSE]
          /\ attempts[n] = MaxAttempts
      BY <1>4, <2>1, <2>4 DEF FailsAttempt, TryAgain, MoreAttempts, Finish
    <3>. QED BY <2>1, <2>2, <3>1
  <2>. QED BY <2>3, <2>4
<1>. QED BY <1>2, <1>3, <1>4

LEMMA NotifyStep == NotifyInv /\ [NotifyNext]_notifyVars => NotifyInv'
<1>. SUFFICES ASSUME NotifyInv, [NotifyNext]_notifyVars PROVE NotifyInv'
  OBVIOUS
<1>1. CASE ForwardAll
  BY <1>1, NotifiersAssumption DEF ForwardAll, NotifyInv, NotifyTypeOK, Truthful
<1>2. CASE ForwardReturns
  <2>1. /\ \A n \in Registered : Concluded(n) /\ sender'[n] = "idle"
        /\ forwarded' = "yes" => \E n \in Registered : said[n]
        /\ forwarded' = "no" => \A n \in Registered : ~said[n]
        /\ forwarded' \in {"yes", "no"} /\ sender' \in [Registered -> {"idle"}]
        /\ UNCHANGED <<attempts, said, refused, unbuilt, unanswered, copies>>
    BY <1>2 DEF ForwardReturns, AllDone, NotifyInv
  <2>. QED BY <2>1 DEF NotifyInv, NotifyTypeOK, Truthful, Concluded
<1>3. ASSUME NEW n \in Registered, NEW s \in Status, Answered(n, s) PROVE NotifyInv'
  <2>1. sender[n] = "posting" /\ UNCHANGED <<attempts, unbuilt, forwarded>>
    BY <1>3 DEF Answered
  <2>. QED BY <1>3, <2>1, AttemptOutcome, AttemptStep
<1>4. ASSUME NEW n \in Registered, Unanswered(n) PROVE NotifyInv'
  <2>1. sender[n] = "posting" /\ UNCHANGED <<attempts, unbuilt, forwarded>>
    BY <1>4 DEF Unanswered
  <2>. QED BY <1>4, <2>1, AttemptOutcome, AttemptStep
<1>5. ASSUME NEW n \in Registered, Retry(n) PROVE NotifyInv'
  BY <1>5, NotifiersAssumption DEF Retry, NotifyInv, NotifyTypeOK, Truthful, Concluded
<1>6. CASE UNCHANGED notifyVars
  BY <1>6 DEF notifyVars, NotifyInv, NotifyTypeOK, Truthful, Concluded
<1>7. ASSUME NEW n \in Registered, CannotBuild(n) PROVE NotifyInv'
  <2>1. forwarded = "open" /\ unanswered[n] = 0 /\ copies[n] = 0
    BY <1>7, NotifiersAssumption DEF CannotBuild, NotifyInv, NotifyTypeOK, Truthful
  <2>. QED BY <1>7, <2>1, NotifiersAssumption
           DEF CannotBuild, Finish, NotifyInv, NotifyTypeOK, Truthful, Concluded
<1>. QED BY <1>1, <1>2, <1>3, <1>4, <1>5, <1>6, <1>7 DEF NotifyNext

\* What Forward returns, and how often a service has the event, is the truth about what
\* was answered, refused and lost, in whatever order the notifiers end (notify.go:22-50).
THEOREM ForwardIsTruthful == NotifySpec => []ForwardTruthful
<1>1. NotifyInv => ForwardTruthful
  BY DEF NotifyInv, NotifyTypeOK, Truthful, Concluded, ForwardTruthful, ForwardedIsTaken,
         NotForwardedWasTried, CopiesByLostAnswers
<1>. QED BY <1>1, NotifyStart, NotifyStep, PTL DEF NotifySpec

(***************************************************************************)
(* The registry of tools: a tool that the index knows is in one category.  *)
(***************************************************************************)
InCategory(t, c) == categories[c] # Nothing /\ t \in categories[c].tools

RegistryInv ==
    /\ RegistryTypeOK
    /\ \A n \in ToolName : toolIndex[n] # Nothing => \E c \in Category : InCategory(toolIndex[n], c)
    /\ \A c, d \in Category : \A t \in Tool : InCategory(t, c) /\ InCategory(t, d) => c = d

LEMMA RegistryStart == RegistryInit => RegistryInv
BY DEF RegistryInit, RegistryInv, RegistryTypeOK, InCategory

\* A category, and its tools with the system they need (registry.go:33-70).
LEMMA CategoryTyped ==
  ASSUME RegistryInv, NEW c \in Category, categories[c] # Nothing
  PROVE  categories[c] \in TypedCategory /\ categories[c].tools \in SUBSET Tool
BY DEF RegistryInv, RegistryTypeOK, TypedCategory

LEMMA EntryTyped ==
  ASSUME RegistryInv, NEW c \in Category
  PROVE  /\ Entry(c).only \in OS \cup {AnyOS} /\ Entry(c).tools \in SUBSET Tool
         /\ \A t : t \in Entry(c).tools <=> InCategory(t, c)
<1>1. CASE categories[c] = Nothing
  BY <1>1 DEF Entry, InCategory
<1>2. CASE categories[c] # Nothing
  <2>1. categories[c] \in TypedCategory
    BY <1>2 DEF RegistryInv, RegistryTypeOK
  <2>. QED BY <1>2, <2>1 DEF Entry, InCategory, TypedCategory
<1>. QED BY <1>1, <1>2

\* What a category lists, when its entry is written.
LEMMA EntryWritten ==
  ASSUME RegistryInv, NEW c \in Category, NEW os \in OS \cup {AnyOS}, NEW ts \in SUBSET Tool,
         categories' = [categories EXCEPT ![c] = [only |-> os, tools |-> ts]]
  PROVE  /\ categories' \in [Category -> TypedCategory \cup {Nothing}]
         /\ \A d \in Category, u \in Tool :
               InCategory(u, d)' <=> IF d = c THEN u \in ts ELSE InCategory(u, d)
<1>1. categories \in [Category -> TypedCategory \cup {Nothing}]
  BY DEF RegistryInv, RegistryTypeOK
<1>2. [only |-> os, tools |-> ts] \in TypedCategory
  BY DEF TypedCategory
<1>3. [only |-> os, tools |-> ts] # Nothing
  BY <1>2, RegistryAssumption
<1>. QED BY <1>1, <1>2, <1>3 DEF InCategory

\* Register enters a tool once, under one category (registry.go:33-55).
LEMMA RegisterStep ==
  ASSUME RegistryInv, NEW c \in Category, NEW t \in Tool, Register(c, t)
  PROVE  RegistryInv'
<1>1. t # Nothing /\ t.name \in ToolName
  BY RegistryAssumption DEF ToolType
<1>2. toolIndex[t.name] = Nothing /\ toolIndex' = [toolIndex EXCEPT ![t.name] = t]
      /\ toolIndex \in [ToolName -> Tool \cup {Nothing}]
  BY DEF Register, RegistryInv, RegistryTypeOK
<1>3. \A d \in Category : ~InCategory(t, d)
  BY <1>1, <1>2 DEF RegistryInv, RegistryTypeOK, InCategory
<1>4. /\ \A d \in Category, u \in Tool : InCategory(u, d)' <=> InCategory(u, d) \/ (d = c /\ u = t)
      /\ categories' \in [Category -> TypedCategory \cup {Nothing}]
  <2>1. Entry(c).tools \cup {t} \in SUBSET Tool /\ Entry(c).only \in OS \cup {AnyOS}
    BY EntryTyped
  <2>2. categories' =
          [categories EXCEPT ![c] = [only |-> Entry(c).only, tools |-> Entry(c).tools \cup {t}]]
    BY Zenon DEF Register
  <2>3. /\ categories' \in [Category -> TypedCategory \cup {Nothing}]
        /\ \A d \in Category, u \in Tool :
              InCategory(u, d)' <=> IF d = c THEN u \in Entry(c).tools \cup {t} ELSE InCategory(u, d)
    BY <2>1, <2>2, EntryWritten
  <2>4. \A u : u \in Entry(c).tools <=> InCategory(u, c)
    BY EntryTyped
  <2>. QED BY <2>3, <2>4
<1>5. \A d \in Category, u \in Tool : InCategory(u, d)' => toolIndex'[u.name] = u
  <2>. SUFFICES ASSUME NEW d \in Category, NEW u \in Tool, InCategory(u, d)'
                PROVE  toolIndex'[u.name] = u
    OBVIOUS
  <2>1. CASE u = t
    BY <1>1, <1>2, <2>1
  <2>2. CASE u # t
    <3>1. InCategory(u, d) /\ u # Nothing /\ u.name \in ToolName
      BY <1>4, <2>2, RegistryAssumption DEF ToolType
    <3>2. toolIndex[u.name] = u
      BY <3>1 DEF InCategory, RegistryInv, RegistryTypeOK
    <3>. QED BY <1>1, <1>2, <3>1, <3>2
  <2>. QED BY <2>1, <2>2
<1>7. \A d \in Category : categories'[d] # Nothing => categories'[d].tools \in SUBSET Tool
  BY <1>4 DEF TypedCategory
<1>8. RegistryTypeOK'
  <2>1. \A n \in ToolName : toolIndex'[n] # Nothing => toolIndex'[n].name = n
    BY <1>1, <1>2 DEF RegistryInv, RegistryTypeOK
  <2>2. toolIndex' \in [ToolName -> Tool \cup {Nothing}]
    BY <1>1, <1>2
  <2>3. \A d \in Category : categories'[d] # Nothing =>
            \A u \in categories'[d].tools : toolIndex'[u.name] = u
    BY <1>5, <1>7 DEF InCategory
  <2>. QED BY <1>4, <2>1, <2>2, <2>3 DEF RegistryTypeOK
<1>9. \A n \in ToolName : toolIndex'[n] # Nothing => \E d \in Category : InCategory(toolIndex[n], d)'
  <2>. SUFFICES ASSUME NEW n \in ToolName, toolIndex'[n] # Nothing
                PROVE  \E d \in Category : InCategory(toolIndex[n], d)'
    OBVIOUS
  <2>1. toolIndex'[n] \in Tool
    BY <1>1, <1>2
  <2>2. CASE n = t.name
    BY <1>1, <1>2, <1>4, <2>1, <2>2
  <2>3. CASE n # t.name
    <3>1. toolIndex'[n] = toolIndex[n]
      BY <1>1, <1>2, <2>3
    <3>2. PICK d \in Category : InCategory(toolIndex[n], d)
      BY <3>1 DEF RegistryInv
    <3>. QED BY <1>4, <2>1, <3>1, <3>2 DEF InCategory
  <2>. QED BY <2>2, <2>3
<1>10. \A d, e \in Category : \A u \in Tool : InCategory(u, d)' /\ InCategory(u, e)' => d = e
  BY <1>3, <1>4 DEF RegistryInv
<1>. QED BY <1>8, <1>9, <1>10, Zenon DEF RegistryInv

\* RegisterCategory keeps the tools that were there (registry.go:58-70).
LEMMA RegisterCategoryStep ==
  ASSUME RegistryInv, NEW c \in Category, NEW os \in OS \cup {AnyOS}, RegisterCategory(c, os)
  PROVE  RegistryInv'
<1>1. Entry(c).tools \in SUBSET Tool
  BY EntryTyped
<1>2. UNCHANGED toolIndex /\ categories' = [categories EXCEPT ![c] = [only |-> os, tools |-> Entry(c).tools]]
  BY Zenon DEF RegisterCategory
<1>3. /\ categories' \in [Category -> TypedCategory \cup {Nothing}]
      /\ \A d \in Category, u \in Tool : InCategory(u, d)' <=> InCategory(u, d)
  <2>1. /\ categories' \in [Category -> TypedCategory \cup {Nothing}]
        /\ \A d \in Category, u \in Tool :
              InCategory(u, d)' <=> IF d = c THEN u \in Entry(c).tools ELSE InCategory(u, d)
    BY <1>1, <1>2, EntryWritten
  <2>2. \A u : u \in Entry(c).tools <=> InCategory(u, c)
    BY EntryTyped
  <2>. QED BY <2>1, <2>2
<1>4. \A d \in Category : categories'[d] # Nothing => categories'[d].tools \in SUBSET Tool
  BY <1>3 DEF TypedCategory
<1>5. \A d \in Category : categories'[d] # Nothing =>
          \A u \in categories'[d].tools : toolIndex'[u.name] = u
  <2>. SUFFICES ASSUME NEW d \in Category, categories'[d] # Nothing, NEW u \in categories'[d].tools
                PROVE  toolIndex[u.name] = u
    BY <1>2
  <2>1. u \in Tool /\ InCategory(u, d)
    BY <1>3, <1>4 DEF InCategory
  <2>. QED BY <2>1 DEF InCategory, RegistryInv, RegistryTypeOK
<1>6. RegistryTypeOK'
  BY <1>2, <1>3, <1>5 DEF RegistryInv, RegistryTypeOK
<1>7. \A n \in ToolName : toolIndex'[n] # Nothing => \E d \in Category : InCategory(toolIndex[n], d)'
  <2>. SUFFICES ASSUME NEW n \in ToolName, toolIndex[n] # Nothing
                PROVE  \E d \in Category : InCategory(toolIndex[n], d)'
    BY <1>2
  <2>1. PICK d \in Category : InCategory(toolIndex[n], d)
    BY DEF RegistryInv
  <2>2. toolIndex[n] \in Tool /\ toolIndex'[n] = toolIndex[n]
    BY <1>2 DEF RegistryInv, RegistryTypeOK
  <2>. QED BY <1>3, <2>1, <2>2 DEF InCategory
<1>8. \A d, e \in Category : \A u \in Tool : InCategory(u, d)' /\ InCategory(u, e)' => d = e
  BY <1>3 DEF RegistryInv
<1>. QED BY <1>6, <1>7, <1>8, Zenon DEF RegistryInv

\* What runs by its name on a system, and what some category tells of there.
RunsOn(os) == UNION {Executed(n, os) : n \in ToolName}

ListedOn(t, os) == \E c \in Category : t \in ListToolsForOS(c, os)

\* The tools that are listed for a system (registry.go:214-235),
LEMMA ListedTool ==
  ASSUME RegistryInv, NEW c \in Category, NEW os, NEW t
  PROVE  t \in ListToolsForOS(c, os) <=>
            InCategory(t, c) /\ categorySupportsOS(c, os) /\ SupportsOS(t, os)
BY DEF ListToolsForOS, Known, InCategory

\* are those that may run on it (executor.go:41-43).
LEMMA RunsIffListed ==
  ASSUME RegistryInv, NEW os \in OS
  PROVE  \A t : t \in RunsOn(os) <=> ListedOn(t, os)
<1>1. ASSUME NEW t, t \in RunsOn(os) PROVE ListedOn(t, os)
  <2>1. PICK n \in ToolName : ToolSupportedOn(n, os) /\ t = toolIndex[n]
    BY <1>1 DEF RunsOn, Executed
  <2>2. t # Nothing /\ t.name = n /\ SupportsOS(t, os)
    BY <2>1 DEF ToolSupportedOn, RegistryInv, RegistryTypeOK
  <2>3. PICK c \in Category : InCategory(t, c)
    BY <2>1, <2>2 DEF RegistryInv
  <2>4. categorySupportsOS(c, os)
    BY <2>1, <2>2, <2>3 DEF ToolSupportedOn, Known, InCategory
  <2>. QED BY <2>2, <2>3, <2>4, ListedTool DEF ListedOn
<1>2. ASSUME NEW t, ListedOn(t, os) PROVE t \in RunsOn(os)
  <2>1. PICK c \in Category : InCategory(t, c) /\ categorySupportsOS(c, os) /\ SupportsOS(t, os)
    BY <1>2, ListedTool DEF ListedOn
  <2>2. t \in Tool /\ t # Nothing /\ t.name \in ToolName /\ toolIndex[t.name] = t
    <3>1. t \in Tool
      BY <2>1, CategoryTyped DEF InCategory
    <3>. QED BY <2>1, <3>1, RegistryAssumption DEF ToolType, InCategory, RegistryInv, RegistryTypeOK
  <2>3. ASSUME NEW d \in Known, NEW u \in categories[d].tools, u.name = t.name
        PROVE  categorySupportsOS(d, os)
    <3>1. d \in Category /\ InCategory(u, d)
      BY DEF Known, InCategory
    <3>2. toolIndex[u.name] = u
      BY <3>1 DEF InCategory, RegistryInv, RegistryTypeOK
    <3>3. u = t
      BY <2>2, <2>3, <3>2
    <3>4. d = c
      BY <2>1, <2>2, <3>1, <3>3 DEF RegistryInv
    <3>. QED BY <2>1, <3>4
  <2>4. ToolSupportedOn(t.name, os)
    BY <2>1, <2>2, <2>3 DEF ToolSupportedOn
  <2>. QED BY <2>2, <2>4 DEF RunsOn, Executed
<1>. QED BY <1>1, <1>2

LEMMA ShownRuns == RegistryInv => ShownIsExecuted
<1>. SUFFICES ASSUME RegistryInv PROVE ShownIsExecuted
  OBVIOUS
<1>. SUFFICES ASSUME NEW os \in OS
              PROVE  /\ UNION {ListToolsForOS(c, os) : c \in ListCategoriesForOS(os)} = RunsOn(os)
                     /\ CatalogTools(os) \cup UNION {ListToolsForOS(c, os) : c \in Announced(os)}
                          = RunsOn(os)
                     /\ {t \in RunsOn(os) : t.scope = "local"}
                          \subseteq UNION {ChatExecuted(n) : n \in ToolName}
                     /\ \A c, d \in Category :
                           c # d => ByPluginForOS(c, os) \cap ListToolsForOS(d, os) = {}
  BY DEF ShownIsExecuted, RunsOn
<1>1. \A t : t \in RunsOn(os) <=> \E c \in Category : t \in ListToolsForOS(c, os)
  BY RunsIffListed DEF ListedOn
<1>2. \A c \in Category : ListToolsForOS(c, os) # {} => c \in ListCategoriesForOS(os)
  BY ListedTool DEF ListCategoriesForOS, InCategory, Known
<1>3. UNION {ListToolsForOS(c, os) : c \in ListCategoriesForOS(os)} = RunsOn(os)
  <2>1. ListCategoriesForOS(os) \subseteq Category
    BY DEF ListCategoriesForOS, Known
  <2>. QED BY <1>1, <1>2, <2>1
<1>4. CatalogTools(os) \cup UNION {ListToolsForOS(c, os) : c \in Announced(os)} = RunsOn(os)
  <2>1. Announced(os) \subseteq Category /\ Known \subseteq Category
    BY RegistryAssumption DEF Announced, Known
  <2>2. \A c \in Category : ListToolsForOS(c, os) # {} => c \in Known
    BY DEF ListToolsForOS
  <2>3. \A c \in Category : ListToolsForOS(c, os) # {} => c \in Known \ McpCategory \/ c \in Announced(os)
    BY <2>2 DEF Announced
  <2>. QED BY <1>1, <2>1, <2>3 DEF CatalogTools
<1>5. ASSUME NEW t \in RunsOn(os), t.scope = "local"
      PROVE  t \in UNION {ChatExecuted(n) : n \in ToolName}
  BY <1>5 DEF RunsOn, Executed, ToolSupportedOn, ChatExecuted
<1>6. ASSUME NEW c \in Category, NEW d \in Category, c # d
      PROVE  ByPluginForOS(c, os) \cap ListToolsForOS(d, os) = {}
  <2>. SUFFICES ASSUME NEW t \in ListToolsForOS(c, os), t \in ListToolsForOS(d, os) PROVE FALSE
    BY DEF ByPluginForOS
  <2>1. InCategory(t, c) /\ InCategory(t, d)
    BY ListedTool
  <2>2. t \in Tool
    BY <2>1, CategoryTyped DEF InCategory
  <2>. QED BY <1>6, <2>1, <2>2 DEF RegistryInv
<1>. QED BY <1>3, <1>4, <1>5, <1>6

(***************************************************************************)
(* The tools of a diagnosis: the connection is open while they run.        *)
(***************************************************************************)
Connected ==
    /\ usePc = "startup" => accessor = "none" /\ ran = Nothing
    /\ usePc = "opening" => accessor = "none" /\ ran = Nothing
    /\ usePc = "using" /\ NeedsAccessor => accessor = "open"
    /\ usePc = "ended" => accessor # "open"

UseInv == RegistryInv /\ Connected /\ RemoteConnected

LEMMA UseStart == UseInit => UseInv
BY RegistryStart DEF UseInit, UseInv, Connected, RemoteConnected

LEMMA RegistryKept == RegistryInv /\ UNCHANGED registryVars => RegistryInv'
BY DEF RegistryInv, RegistryTypeOK, InCategory, registryVars

LEMMA UseStep == UseInv /\ [UseNext]_useVars => UseInv'
<1>. SUFFICES ASSUME UseInv, [UseNext]_useVars PROVE UseInv'
  OBVIOUS
<1>1. RegistryInv'
  <2>1. CASE Startup
    BY <2>1, RegisterStep, RegisterCategoryStep DEF Startup, RegistryNext, UseInv
  <2>2. CASE UNCHANGED registryVars
    BY <2>2, RegistryKept DEF UseInv
  <2>. QED
    BY <2>1, <2>2 DEF UseNext, useVars, BeginDiagnosis, OpenAccessor, NoAccessor, RunTool,
                      LeaveDiagnosis, CloseSession
<1>. USE DEF UseInv, Connected, RemoteConnected, NeedsAccessor
<1>2. CASE Startup
  BY <1>1, <1>2 DEF Startup
<1>3. ASSUME NEW p \in Category \ McpCategory, NEW i \in BOOLEAN, BeginDiagnosis(p, i) PROVE UseInv'
  BY <1>1, <1>3 DEF BeginDiagnosis
<1>4. CASE OpenAccessor
  BY <1>1, <1>4 DEF OpenAccessor
<1>5. CASE NoAccessor
  BY <1>1, <1>5 DEF NoAccessor
<1>6. ASSUME NEW n \in ToolName, RunTool(n) PROVE UseInv'
  BY <1>1, <1>6 DEF RunTool
<1>7. CASE LeaveDiagnosis
  BY <1>1, <1>7 DEF LeaveDiagnosis, ByPluginForOS, ListToolsForOS, Known, categorySupportsOS, registryVars
<1>8. CASE CloseSession
  BY <1>1, <1>8 DEF CloseSession, ByPluginForOS, ListToolsForOS, Known, categorySupportsOS, registryVars
<1>9. CASE UNCHANGED useVars
  BY <1>1, <1>9 DEF useVars, ByPluginForOS, ListToolsForOS, Known, categorySupportsOS, registryVars
<1>. QED BY <1>2, <1>3, <1>4, <1>5, <1>6, <1>7, <1>8, <1>9 DEF UseNext

\* What the AI is shown is what runs, on every system and in whatever order plugins and
\* MCP servers have registered, on an open connection where it needs one
\* (registry.go:33-70, 322-340, executor.go:34-74, types.go:139-156).
THEOREM ToolsAreSound == UseSpec => []ToolsSound
<1>1. UseInv => ToolsSound
  BY ShownRuns DEF UseInv, ToolsSound
<1>. QED BY <1>1, UseStart, UseStep, PTL DEF UseSpec

(***************************************************************************)
(* The pace of the reconnections, for any limits in the order that         *)
(* BackoffAssumption gives.  The back-off remembers what a wait needs to   *)
(* know of the one before it: after a failure it is twice the wait, or at  *)
(* a limit.                                                                *)
(***************************************************************************)
Doubled == ending \in Failure => backoff >= Twice(wait) \/ backoff >= NormalMax

PaceInv == PaceTypeOK /\ AuthPace /\ Doubled

\* The assumption, constant by constant.
LEMMA Limits ==
  /\ NormalMin \in Nat /\ NormalMax \in Nat /\ AuthMin \in Nat /\ AuthMax \in Nat
  /\ NormalMin > 0 /\ NormalMin <= AuthMin /\ AuthMin <= NormalMax /\ NormalMax <= AuthMax
  /\ NormalMin <= NormalMax /\ AuthMin <= AuthMax
  /\ \A r \in RetryAfter : r \in Nat
BY BackoffAssumption

\* Doubling, and where the jitter ends up.
LEMMA TwiceNat ==
  ASSUME NEW d \in Nat PROVE Twice(d) \in Nat
BY DEF Twice

\* A wait is off by a quarter at most (conn.go:545-548).
LEMMA JitterBounds ==
  ASSUME NEW d \in AuthMin..AuthMax, NEW q \in Jitter(d)
  PROVE  q \in (3 * AuthMin)..(5 * AuthMax)
BY Limits DEF Jitter

\* A clamped value lies between the limits.
LEMMA ClampBounds ==
  ASSUME NEW d \in Nat, NEW min \in Nat, NEW max \in Nat, min <= max
  PROVE  /\ clampBackoff(d, min, max) \in min..max
         /\ clampBackoff(d, min, max) >= d \/ clampBackoff(d, min, max) = max
BY DEF clampBackoff

\* Whatever Run returns, the next wait and back-off keep within the limits.
LEMMA DelayBounds ==
  ASSUME backoff \in NormalMin..AuthMax, NEW e \in Outcome, nextReconnectState(e)
  PROVE  /\ backoff' \in NormalMin..AuthMax /\ wait' \in Nat
         /\ e = "auth" => wait' \in AuthMin..AuthMax
         /\ e \in Failure => wait' >= backoff
         /\ e \in Failure => backoff' >= Twice(wait') \/ backoff' >= NormalMax
<1>. USE Limits
<1>1. CASE e = "disconnect"
  BY <1>1 DEF nextReconnectState, Failure
<1>2. CASE e = "auth"
  <2>1. wait' = AuthBackoff(backoff) /\ backoff' = clampBackoff(Twice(wait'), AuthMin, AuthMax)
    BY ONLY <1>2, nextReconnectState(e) DEF nextReconnectState
  <2>2. wait' \in AuthMin..AuthMax /\ wait' >= backoff
    BY <2>1 DEF AuthBackoff
  <2>3. Twice(wait') \in Nat /\ wait' \in Nat
    BY <2>2, TwiceNat
  <2>4. backoff' \in AuthMin..AuthMax /\ (backoff' >= Twice(wait') \/ backoff' = AuthMax)
    BY <2>1, <2>3, ClampBounds
  <2>5. backoff' \in NormalMin..AuthMax /\ wait' \in Nat
    BY <2>2, <2>4
  <2>6. backoff' >= Twice(wait') \/ backoff' >= NormalMax
    BY <2>2, <2>4
  <2>. QED
    BY <2>2, <2>5, <2>6
<1>3. CASE e \in {"lost", "dial"}
  <2>1. wait' = LastBackoff(e) /\ backoff' = clampBackoff(Twice(wait'), NormalMin, NormalMax)
    BY <1>3 DEF nextReconnectState
  <2>2. wait' \in Nat /\ (e = "dial" => wait' = backoff)
    BY <2>1 DEF LastBackoff
  <2>3. Twice(wait') \in Nat /\ wait' \in Nat
    BY <2>2, TwiceNat
  <2>4. backoff' \in NormalMin..NormalMax /\ (backoff' >= Twice(wait') \/ backoff' = NormalMax)
    BY <2>1, <2>3, ClampBounds
  <2>5. backoff' \in NormalMin..AuthMax /\ (backoff' >= Twice(wait') \/ backoff' >= NormalMax)
    BY <2>2, <2>4
  <2>6. e # "auth" /\ (e \in Failure => e = "dial")
    BY <1>3 DEF Failure
  <2>. QED
    BY <2>2, <2>5, <2>6
<1>. QED
  BY <1>1, <1>2, <1>3 DEF Outcome

\* The invariant holds initially.
LEMMA PaceStart == PaceInit => PaceInv
BY Limits DEF PaceInit, PaceInv, PaceTypeOK, AuthPace, Doubled, Outcome, Failure, Jitter

\* Every step preserves it.
LEMMA PaceStep == PaceInv /\ [PaceNext]_paceVars => PaceInv'
<1>. SUFFICES ASSUME PaceInv, [PaceNext]_paceVars PROVE PaceInv'
  OBVIOUS
<1>. USE Limits DEF PaceInv
<1>1. ASSUME NEW e \in Outcome, RunEnds(e) PROVE PaceInv'
  <2>1. /\ backoff' \in NormalMin..AuthMax /\ wait' \in Nat
        /\ e = "auth" => wait' \in AuthMin..AuthMax
        /\ e \in Failure => backoff' >= Twice(wait') \/ backoff' >= NormalMax
    BY <1>1, DelayBounds DEF RunEnds, PaceTypeOK
  <2>2. ending' = e /\ phase' = "waiting" /\ sleep' \in Jitter(wait')
    BY <1>1 DEF RunEnds
  <2>3. PaceTypeOK'
    BY <2>1, <2>2 DEF PaceTypeOK
  <2>4. AuthPace'
    BY <2>1, <2>2, JitterBounds DEF AuthPace
  <2>5. Doubled'
    BY <2>1, <2>2 DEF Doubled
  <2>. QED
    BY <2>3, <2>4, <2>5
<1>2. CASE Wake
  BY <1>2 DEF Wake, PaceTypeOK, AuthPace, Doubled
<1>3. CASE Cancelled
  BY <1>3 DEF Cancelled, PaceTypeOK, AuthPace, Doubled
<1>4. CASE UNCHANGED paceVars
  BY <1>4 DEF paceVars, PaceTypeOK, AuthPace, Doubled
<1>. QED
  BY <1>1, <1>2, <1>3, <1>4 DEF PaceNext

LEMMA PaceInvariance == PaceSpec => []PaceInv
BY PaceStart, PaceStep, PTL DEF PaceSpec

\* The back-off never leaves its limits (conn.go:491-499).
THEOREM BackoffBounded == PaceSpec => []PaceTypeOK
<1>1. PaceInv => PaceTypeOK
  BY DEF PaceInv
<1>. QED
  BY <1>1, PaceInvariance, PTL

\* A rejected token is retried at the slow pace (conn.go:524-529).
THEOREM AuthPaceKept == PaceSpec => []AuthPace
<1>1. PaceInv => AuthPace
  BY DEF PaceInv
<1>. QED
  BY <1>1, PaceInvariance, PTL

\* From failure to failure the waits double up to the limit (conn.go:524-540).
THEOREM WaitsGrow == PaceSpec => NeverHastier
<1>1. ASSUME PaceInv, [PaceNext]_paceVars,
             phase = "running", phase' = "waiting", {ending, ending'} \subseteq Failure
      PROVE  wait' >= Twice(wait) \/ wait' >= NormalMax
  <2>1. PICK e \in Outcome : RunEnds(e)
    BY <1>1 DEF PaceNext, Wake, Cancelled, paceVars
  <2>2. e \in Failure /\ wait' \in Nat /\ wait' >= backoff
    BY <1>1, <2>1, DelayBounds DEF RunEnds, PaceInv, PaceTypeOK
  <2>3. backoff >= Twice(wait) \/ backoff >= NormalMax
    BY <1>1 DEF PaceInv, Doubled
  <2>4. backoff \in Nat /\ Twice(wait) \in Nat
    BY <1>1, Limits, TwiceNat DEF PaceInv, PaceTypeOK
  <2>. QED
    BY <2>2, <2>3, <2>4, Limits
<1>2. PaceInv /\ [PaceNext]_paceVars =>
        [phase = "running" /\ phase' = "waiting" /\ {ending, ending'} \subseteq Failure =>
           wait' >= Twice(wait) \/ wait' >= NormalMax]_paceVars
  BY <1>1
<1>. QED
  BY <1>2, PaceInvariance, PTL DEF PaceSpec, NeverHastier

(***************************************************************************)
(* The bounded list.  What has left it and what is in it, one behind the   *)
(* other, is what was pushed; popping moves the border between the two.    *)
(***************************************************************************)
Items == Pusher \X (1..MaxItems)

\* EachInOrder of any sequence of items.
Ordered(s) == \A i, j \in 1..Len(s) : i < j /\ s[i][1] = s[j][1] => s[i][2] < s[j][2]

Counted(s, g) ==
    \A p \in Pusher : \A k \in 1..MaxItems : k <= g[p] <=> \E i \in 1..Len(s) : s[i] = <<p, k>>

QueueInv ==
    /\ items \in Seq(Items) /\ taken \in Seq(Items)
    /\ passed \in [Pusher -> Nat] /\ given \in [Pusher -> 0..MaxItems]
    /\ \A p \in Pusher : passed[p] > 0 => given[p] + passed[p] <= MaxItems
    /\ Ordered(Passage) /\ Counted(Passage, given)

\* The numbers of a pusher that follow those it has given.
Block(p, m, n) == [k \in 1..n |-> <<p, m + k>>]

\* What a pusher pushes at once.
LEMMA BlockTyped ==
  ASSUME NEW p \in Pusher, NEW m \in Nat, NEW n \in Nat, m + n <= MaxItems
  PROVE  Block(p, m, n) \in Seq(Items) /\ Len(Block(p, m, n)) = n
         /\ \A k \in 1..n : Block(p, m, n)[k] = <<p, m + k>>
<1>1. \A k \in 1..n : <<p, m + k>> \in Items
  BY LimitedQueueAssumption DEF Items
<1>. QED BY <1>1 DEF Block

\* An item is its pusher and its number.
LEMMA ItemPairs ==
  ASSUME NEW e \in Items
  PROVE  /\ e[1] \in Pusher /\ e[2] \in Nat /\ e[2] \in 1..MaxItems
         /\ \E q \in Pusher : \E k \in 1..MaxItems : e = <<q, k>>
BY LimitedQueueAssumption DEF Items

\* Concatenation is associative.
LEMMA PassageAfterPush ==
  ASSUME NEW t \in Seq(Items), NEW q \in Seq(Items), NEW b \in Seq(Items)
  PROVE  t \o (q \o b) = (t \o q) \o b
BY ConcatAssociative

\* A block that is pushed keeps the order and the numbers.
LEMMA Pushed ==
  ASSUME NEW s \in Seq(Items), NEW g \in [Pusher -> 0..MaxItems], Ordered(s), Counted(s, g),
         NEW p \in Pusher, NEW n \in Nat \ {0}, g[p] + n <= MaxItems,
         NEW d \in Seq(Items), Len(d) = Len(s) + n, \A i \in 1..Len(s) : d[i] = s[i],
         \A k \in 1..n : d[Len(s) + k] = <<p, g[p] + k>>
  PROVE  Ordered(d) /\ Counted(d, [g EXCEPT ![p] = @ + n])
<1>1. /\ Len(s) \in Nat /\ g[p] \in Nat /\ MaxItems \in Nat
      /\ \A i \in 1..Len(s) : s[i] \in Items
  BY LenProperties, ElementOfSeq, LimitedQueueAssumption
<1>2. ASSUME NEW i \in 1..Len(d), ~(i <= Len(s))
      PROVE  \E k \in 1..n : i = Len(s) + k /\ d[i] = <<p, g[p] + k>>
  <2>1. i - Len(s) \in 1..n /\ i = Len(s) + (i - Len(s))
    BY <1>1, <1>2
  <2>. QED BY <2>1
<1>3. ASSUME NEW i \in 1..Len(s), s[i][1] = p PROVE s[i][2] <= g[p]
  <2>0. s[i] \in Items
    BY <1>1
  <2>1. PICK q \in Pusher, k \in 1..MaxItems : s[i] = <<q, k>>
    BY <2>0, ItemPairs, Zenon
  <2>2. q = p
    BY <1>3, <2>1
  <2>3. k <= g[q]
    BY <2>1 DEF Counted
  <2>. QED BY <2>1, <2>2, <2>3
<1>4. Ordered(d)
  <2>. SUFFICES ASSUME NEW i \in 1..Len(d), NEW j \in 1..Len(d), i < j, d[i][1] = d[j][1]
                PROVE  d[i][2] < d[j][2]
    BY Zenon DEF Ordered
  <2>1. CASE j <= Len(s)
    <3>1. i \in 1..Len(s) /\ j \in 1..Len(s)
      BY <1>1, <2>1
    <3>. QED BY <3>1 DEF Ordered
  <2>2. CASE i <= Len(s) /\ ~(j <= Len(s))
    <3>1. i \in 1..Len(s) /\ d[i] = s[i]
      BY <1>1, <2>2
    <3>2. PICK k \in 1..n : d[j] = <<p, g[p] + k>>
      BY <1>2, <2>2
    <3>3. s[i][1] = p
      BY <3>1, <3>2
    <3>4. s[i][2] <= g[p]
      BY <1>3, <3>1, <3>3
    <3>5. s[i][2] \in Nat
      <4>1. s[i] \in Items
        BY <1>1, <3>1
      <4>. QED BY <4>1, ItemPairs
    <3>6. d[j][2] = g[p] + k
      BY <3>2
    <3>7. d[i][2] = s[i][2]
      BY <3>1
    <3>8. PICK x \in Nat, m \in Nat : x = s[i][2] /\ m = g[p]
      BY <1>1, <3>5, Zenon
    <3>9. x < m + k
      <4>1. x <= m
        BY <3>4, <3>8, Zenon
      <4>. QED BY <4>1
    <3>. QED BY <3>6, <3>7, <3>8, <3>9, Zenon
  <2>3. CASE ~(i <= Len(s))
    <3>1. ~(j <= Len(s))
      BY <1>1, <2>3
    <3>2. PICK k \in 1..n : i = Len(s) + k /\ d[i] = <<p, g[p] + k>>
      BY <1>2, <2>3
    <3>3. PICK l \in 1..n : j = Len(s) + l /\ d[j] = <<p, g[p] + l>>
      BY <1>2, <3>1
    <3>4. k < l
      BY <1>1, <3>2, <3>3
    <3>. QED BY <1>1, <3>2, <3>3, <3>4
  <2>. QED BY <2>1, <2>2, <2>3
<1>5. Counted(d, [g EXCEPT ![p] = @ + n])
  <2>. DEFINE h == [g EXCEPT ![p] = @ + n]
  <2>1. ASSUME NEW q \in Pusher, NEW k \in 1..MaxItems, k <= h[q]
        PROVE  \E i \in 1..Len(d) : d[i] = <<q, k>>
    <3>1. CASE k <= g[q]
      <4>1. PICK i \in 1..Len(s) : s[i] = <<q, k>>
        BY <3>1 DEF Counted
      <4>2. i \in 1..Len(d) /\ d[i] = s[i]
        BY <1>1
      <4>. QED BY <4>1, <4>2
    <3>2. CASE ~(k <= g[q])
      <4>1. q = p /\ h[q] = g[p] + n
        BY <2>1, <3>2
      <4>2. k - g[p] \in 1..n /\ g[p] + (k - g[p]) = k
        BY <1>1, <2>1, <3>2, <4>1
      <4>3. d[Len(s) + (k - g[p])] = <<p, g[p] + (k - g[p])>>
        BY <4>2
      <4>4. Len(s) + (k - g[p]) \in 1..Len(d)
        BY <1>1, <4>2
      <4>. QED BY <4>1, <4>2, <4>3, <4>4
    <3>. QED BY <3>1, <3>2
  <2>2. ASSUME NEW q \in Pusher, NEW k \in 1..MaxItems, NEW i \in 1..Len(d), d[i] = <<q, k>>
        PROVE  k <= h[q]
    <3>0. g[q] \in Nat /\ h[q] = IF q = p THEN g[q] + n ELSE g[q]
      OBVIOUS
    <3>1. CASE i <= Len(s)
      <4>1. i \in 1..Len(s) /\ s[i] = <<q, k>>
        BY <1>1, <2>2, <3>1
      <4>2. k <= g[q]
        BY <4>1 DEF Counted
      <4>. QED BY <3>0, <4>2
    <3>2. CASE ~(i <= Len(s))
      <4>1. PICK l \in 1..n : d[i] = <<p, g[p] + l>>
        BY <1>2, <3>2
      <4>2. q = p /\ k = g[p] + l
        BY <2>2, <4>1
      <4>. QED BY <1>1, <3>0, <4>2
    <3>. QED BY <3>1, <3>2
  <2>. HIDE DEF h
  <2>3. Counted(d, h)
    BY <2>1, <2>2 DEF Counted
  <2>. QED BY <2>3 DEF h
<1>. QED BY <1>4, <1>5

\* What is popped goes from the one sequence to the other.
LEMMA Popped ==
  ASSUME NEW t \in Seq(Items), NEW q \in Seq(Items), NEW n \in 1..Len(q)
  PROVE  /\ t \o SubSeq(q, 1, n) \in Seq(Items) /\ SubSeq(q, n + 1, Len(q)) \in Seq(Items)
         /\ (t \o SubSeq(q, 1, n)) \o SubSeq(q, n + 1, Len(q)) = t \o q
<1>1. Len(q) \in Nat /\ n \in Nat /\ \A i \in 1..Len(q) : q[i] \in Items
  BY LenProperties, ElementOfSeq
<1>2. PICK a \in Seq(Items) : a = SubSeq(q, 1, n) /\ Len(a) = n /\ \A i \in 1..n : a[i] = q[i]
  <2>1. /\ SubSeq(q, 1, n) \in Seq(Items) /\ Len(SubSeq(q, 1, n)) = n
        /\ \A i \in 1..(n - 1 + 1) : SubSeq(q, 1, n)[i] = q[1 + i - 1]
    BY <1>1, SubSeqProperties
  <2>2. \A i \in 1..n : i \in 1..(n - 1 + 1) /\ 1 + i - 1 = i
    BY <1>1
  <2>. QED BY <2>1, <2>2
<1>3. PICK b \in Seq(Items) : /\ b = SubSeq(q, n + 1, Len(q)) /\ Len(b) = Len(q) - n
                              /\ \A i \in 1..(Len(q) - n) : b[i] = q[n + i]
  <2>1. n + 1 \in 1..(Len(q) + 1) /\ \A i \in (n + 1)..Len(q) : q[i] \in Items
    BY <1>1
  <2>2. /\ SubSeq(q, n + 1, Len(q)) \in Seq(Items)
        /\ Len(SubSeq(q, n + 1, Len(q))) = (IF n + 1 <= Len(q) THEN Len(q) - (n + 1) + 1 ELSE 0)
        /\ \A i \in 1..(Len(q) - (n + 1) + 1) : SubSeq(q, n + 1, Len(q))[i] = q[n + 1 + i - 1]
    BY <1>1, <2>1, SubSeqProperties
  <2>3. \A i \in 1..(Len(q) - n) : i \in 1..(Len(q) - (n + 1) + 1) /\ n + 1 + i - 1 = n + i
    BY <1>1
  <2>4. (IF n + 1 <= Len(q) THEN Len(q) - (n + 1) + 1 ELSE 0) = Len(q) - n
    BY <1>1
  <2>. QED BY <2>2, <2>3, <2>4
<1>4. PICK c \in Seq(Items) : /\ c = a \o b /\ Len(c) = Len(q)
                              /\ \A i \in 1..Len(q) : c[i] = IF i <= n THEN a[i] ELSE b[i - n]
  <2>1. /\ a \o b \in Seq(Items) /\ Len(a \o b) = Len(a) + Len(b)
        /\ \A i \in 1..(Len(a) + Len(b)) :
              (a \o b)[i] = IF i <= Len(a) THEN a[i] ELSE b[i - Len(a)]
    BY ConcatProperties
  <2>2. Len(a) + Len(b) = Len(q) /\ Len(a) = n
    BY <1>1, <1>2, <1>3
  <2>. QED BY <2>1, <2>2
<1>5. c = q
  <2>1. \A i \in 1..Len(q) : c[i] = q[i]
    <3>. SUFFICES ASSUME NEW i \in 1..Len(q) PROVE c[i] = q[i]
      OBVIOUS
    <3>1. CASE i <= n
      BY <1>1, <1>2, <1>4, <3>1
    <3>2. CASE ~(i <= n)
      <4>1. i - n \in 1..(Len(q) - n) /\ n + (i - n) = i
        BY <1>1, <3>2
      <4>. QED BY <1>3, <1>4, <3>2, <4>1
    <3>. QED BY <3>1, <3>2
  <2>. QED BY <1>4, <2>1, SeqEqual
<1>6. (t \o a) \o b = t \o (a \o b)
  BY PassageAfterPush, Zenon
<1>7. t \o a \in Seq(Items)
  BY ConcatProperties
<1>8. t \o (a \o b) = t \o q
  BY <1>4, <1>5, Zenon
<1>9. (t \o a) \o b = t \o q
  BY <1>6, <1>8, Zenon
<1>. QED BY <1>2, <1>3, <1>7, <1>9, Zenon

LEMMA QueueStart == LimitInit => QueueInv
<1>. SUFFICES ASSUME LimitInit PROVE QueueInv
  OBVIOUS
<1>1. /\ items = <<>> /\ taken = <<>> /\ <<>> \in Seq(Items)
      /\ \A p \in Pusher : passed[p] = 0 /\ given[p] = 0
      /\ passed \in [Pusher -> Nat] /\ given \in [Pusher -> 0..MaxItems]
  BY LimitedQueueAssumption DEF LimitInit
<1>2. Passage = <<>> /\ Len(Passage) = 0
  BY <1>1 DEF Passage
<1>3. Ordered(Passage) /\ Counted(Passage, given)
  BY <1>1, <1>2 DEF Ordered, Counted
<1>. QED BY <1>1, <1>3 DEF QueueInv

LEMMA PassageTyped ==
  ASSUME QueueInv PROVE Passage \in Seq(Items)
<1>1. taken \in Seq(Items) /\ items \in Seq(Items)
  BY DEF QueueInv
<1>. QED BY <1>1, ConcatProperties DEF Passage

\* What is pushed comes last of its pusher (queue.go:25-31).
LEMMA PushStep == ASSUME QueueInv, NEW p \in Pusher, PushFrontN(p) PROVE QueueInv'
<1>1. /\ passed[p] \in Nat \ {0} /\ given[p] \in Nat /\ given[p] + passed[p] <= MaxItems
      /\ taken' = taken /\ passed' = [passed EXCEPT ![p] = 0]
      /\ given' = [given EXCEPT ![p] = @ + passed[p]]
  BY DEF QueueInv, PushFrontN
<1>2. PICK b \in Seq(Items) :
         /\ b = Block(p, given[p], passed[p]) /\ Len(b) = passed[p]
         /\ \A k \in 1..passed[p] : b[k] = <<p, given[p] + k>>
  BY <1>1, BlockTyped
<1>3. items' = items \o b
  BY <1>2, Zenon DEF PushFrontN, Block
<1>4. /\ taken \in Seq(Items) /\ items \in Seq(Items)
      /\ given \in [Pusher -> 0..MaxItems] /\ passed \in [Pusher -> Nat]
      /\ Ordered(Passage) /\ Counted(Passage, given)
  BY DEF QueueInv
<1>5. Passage \in Seq(Items) /\ Len(Passage) \in Nat
  BY PassageTyped, LenProperties
<1>6. PICK d \in Seq(Items) :
         /\ d = Passage \o b /\ Len(d) = Len(Passage) + passed[p]
         /\ \A i \in 1..Len(Passage) : d[i] = Passage[i]
         /\ \A k \in 1..passed[p] : d[Len(Passage) + k] = <<p, given[p] + k>>
  <2>1. PICK s \in Seq(Items) : s = Passage
    BY <1>5
  <2>2. /\ s \o b \in Seq(Items) /\ Len(s \o b) = Len(s) + Len(b)
        /\ \A i \in 1..(Len(s) + Len(b)) : (s \o b)[i] = IF i <= Len(s) THEN s[i] ELSE b[i - Len(s)]
    BY ConcatProperties
  <2>3. PICK d \in Seq(Items) :
           /\ d = s \o b /\ Len(d) = Len(s) + Len(b)
           /\ \A i \in 1..(Len(s) + Len(b)) : d[i] = IF i <= Len(s) THEN s[i] ELSE b[i - Len(s)]
    BY <2>2, Zenon
  <2>4. Len(s) \in Nat
    BY LenProperties
  <2>5. \A i \in 1..Len(s) : d[i] = s[i]
    BY <1>1, <1>2, <2>3, <2>4
  <2>6. \A k \in 1..passed[p] : d[Len(s) + k] = <<p, given[p] + k>>
    <3>. SUFFICES ASSUME NEW k \in 1..passed[p] PROVE d[Len(s) + k] = b[k]
      BY <1>2
    <3>1. Len(s) + k \in 1..(Len(s) + Len(b)) /\ ~(Len(s) + k <= Len(s)) /\ (Len(s) + k) - Len(s) = k
      BY <1>1, <1>2, <2>4
    <3>. QED BY <2>3, <3>1
  <2>7. d = Passage \o b
    BY <2>1, <2>3, Zenon
  <2>. QED BY <1>2, <2>1, <2>3, <2>5, <2>6, <2>7
<1>7. Ordered(d) /\ Counted(d, given')
  <2>1. given[p] + passed[p] <= MaxItems /\ passed[p] \in Nat \ {0}
    BY <1>1
  <2>2. PICK s \in Seq(Items), n \in Nat \ {0} : s = Passage /\ n = passed[p]
    BY <1>5, <2>1
  <2>3. /\ Ordered(s) /\ Counted(s, given) /\ given[p] + n <= MaxItems
        /\ Len(d) = Len(s) + n /\ \A i \in 1..Len(s) : d[i] = s[i]
        /\ \A k \in 1..n : d[Len(s) + k] = <<p, given[p] + k>>
    BY <1>4, <1>6, <2>1, <2>2, Zenon
  <2>4. Ordered(d) /\ Counted(d, [given EXCEPT ![p] = @ + n])
    BY <1>4, <2>3, Pushed
  <2>5. given' = [given EXCEPT ![p] = @ + n]
    BY <1>1, <2>2, Zenon
  <2>. QED BY <2>4, <2>5, Zenon
<1>8. Passage' = d
  <2>1. taken \o (items \o b) = (taken \o items) \o b
    BY <1>4, PassageAfterPush, Zenon
  <2>. QED BY <1>1, <1>3, <1>6, <2>1, Zenon DEF Passage
<1>9. items' \in Seq(Items)
  <2>1. items \o b \in Seq(Items)
    BY <1>4, ConcatProperties
  <2>. QED BY <1>3, <2>1, Zenon
<1>10. /\ passed' \in [Pusher -> Nat] /\ given' \in [Pusher -> 0..MaxItems]
       /\ \A q \in Pusher : passed'[q] > 0 => given'[q] + passed'[q] <= MaxItems
  <2>1. \A q \in Pusher : passed[q] > 0 => given[q] + passed[q] <= MaxItems
    BY DEF QueueInv
  <2>. QED BY <1>1, <1>4, <2>1
<1>11. Ordered(Passage') /\ Counted(Passage', given')
  BY <1>7, <1>8, Zenon
<1>. QED BY <1>1, <1>4, <1>9, <1>10, <1>11 DEF QueueInv, Ordered, Counted

\* What is popped is next (queue.go:47-69).
LEMMA PopStep == ASSUME QueueInv, NEW n \in 1..Len(items), PopBackN(n) PROVE QueueInv'
<1>1. /\ taken \in Seq(Items) /\ items \in Seq(Items) /\ given' = given /\ passed' = passed
      /\ taken' = taken \o SubSeq(items, 1, n) /\ items' = SubSeq(items, n + 1, Len(items))
  BY DEF QueueInv, PopBackN
<1>2. /\ taken \o SubSeq(items, 1, n) \in Seq(Items) /\ SubSeq(items, n + 1, Len(items)) \in Seq(Items)
      /\ (taken \o SubSeq(items, 1, n)) \o SubSeq(items, n + 1, Len(items)) = taken \o items
  BY <1>1, Popped, Zenon
<1>3. taken' \in Seq(Items) /\ items' \in Seq(Items)
  BY <1>1, <1>2, Zenon
<1>4. Passage' = Passage
  BY <1>1, <1>2, Zenon DEF Passage
<1>5. Ordered(Passage)' /\ Counted(Passage, given)'
  BY <1>1, <1>4 DEF QueueInv, Ordered, Counted
<1>. QED BY <1>1, <1>3, <1>5 DEF QueueInv

LEMMA QueueStep == QueueInv /\ [LimitNext]_queueVars => QueueInv'
<1>. SUFFICES ASSUME QueueInv, [LimitNext]_queueVars PROVE QueueInv'
  OBVIOUS
<1>0. Len(items) \in Nat
  BY LenProperties DEF QueueInv
<1>1. CASE \E p \in Pusher : PushFrontN(p)
  BY <1>1, PushStep
<1>2. ASSUME NEW p \in Pusher, NEW n \in PushSizes, TestLimit(p, n) PROVE QueueInv'
  <2>1. /\ items' = items /\ taken' = taken /\ given' = given /\ passed' = [passed EXCEPT ![p] = n]
        /\ given[p] + n <= MaxItems /\ n \in Nat
    BY <1>2, LimitedQueueAssumption DEF TestLimit
  <2>2. /\ passed' \in [Pusher -> Nat]
        /\ \A q \in Pusher : passed'[q] > 0 => given'[q] + passed'[q] <= MaxItems
    BY <2>1 DEF QueueInv
  <2>3. Passage' = Passage
    BY <2>1, Zenon DEF Passage
  <2>4. Ordered(Passage)' /\ Counted(Passage, given)'
    BY <2>1, <2>3 DEF QueueInv, Ordered, Counted
  <2>. QED BY <2>1, <2>2, <2>4 DEF QueueInv
<1>3. ASSUME NEW n \in PopSizes, PopBackN(n) PROVE QueueInv'
  <2>1. n \in 1..Len(items)
    BY <1>0, <1>3, LimitedQueueAssumption DEF PopBackN
  <2>. QED BY <1>3, <2>1, PopStep
<1>4. CASE PopBackAll
  <2>1. Len(items) \in 1..Len(items)
    BY <1>0, <1>4, EmptySeq DEF PopBackAll, QueueInv
  <2>. QED BY <1>4, <2>1, PopStep DEF PopBackAll
<1>5. CASE UNCHANGED queueVars
  BY <1>5 DEF queueVars, QueueInv, Passage, Ordered, Counted
<1>. QED BY <1>1, <1>2, <1>3, <1>4, <1>5 DEF LimitNext

\* Whoever pushes and pops in between, and whoever has passed the test of the limit, the
\* items of one pusher leave the queue in the order it pushed them, each once and none
\* lost (queue.go:18-84).
THEOREM EachKeepsItsOrder == LimitSpec => []EachInOrder
<1>1. QueueInv => EachInOrder
  <2>. SUFFICES ASSUME QueueInv PROVE EachInOrder
    OBVIOUS
  <2>1. DOMAIN Passage = 1..Len(Passage)
    BY PassageTyped, LenProperties
  <2>. QED BY <2>1 DEF QueueInv, EachInOrder, Ordered, Counted
<1>. QED BY QueueStart, QueueStep, <1>1, PTL DEF LimitSpec

(***************************************************************************)
(* How long the list can be.  Between the test and the push a pusher keeps *)
(* room for the largest push; counting those who are between the two, the  *)
(* bound is inductive.                                                     *)
(***************************************************************************)
\* Every k numbers have a bound.
Bounded(k) == \A g \in [1..k -> Nat] : \E b \in Nat : \A i \in 1..k : g[i] <= b

\* The largest of finitely many numbers.
LEMMA LargestOfFinite ==
  ASSUME NEW S \in SUBSET Nat, IsFiniteSet(S), S # {}
  PROVE  \E m \in S : \A x \in S : x <= m
<1>. DEFINE N == {k \in Nat : Bounded(k)}
<1>1. 0 \in N
  BY DEF Bounded
<1>2. ASSUME NEW k \in Nat, k \in N PROVE k + 1 \in N
  <2>0. Bounded(k)
    BY <1>2
  <2>1. ASSUME NEW g \in [1..(k + 1) -> Nat] PROVE \E c \in Nat : \A i \in 1..(k + 1) : g[i] <= c
    <3>1. [i \in 1..k |-> g[i]] \in [1..k -> Nat]
      <4>1. \A i \in 1..k : i \in 1..(k + 1)
        OBVIOUS
      <4>2. \A i \in 1..k : g[i] \in Nat
        BY <4>1
      <4>. QED BY <4>2
    <3>2. PICK h \in [1..k -> Nat] : \A i \in 1..k : h[i] = g[i]
      BY <3>1
    <3>3. PICK b \in Nat : \A i \in 1..k : h[i] <= b
      BY <2>0 DEF Bounded
    <3>4. k + 1 \in 1..(k + 1)
      OBVIOUS
    <3>5. PICK e \in Nat : e = g[k + 1]
      BY <3>4
    <3>6. PICK c \in Nat : c = b + e
      OBVIOUS
    <3>7. ASSUME NEW i \in 1..(k + 1) PROVE g[i] <= c
      <4>1. CASE i = k + 1
        <5>1. e <= c
          BY <3>6
        <5>. QED BY <4>1, <3>5, <5>1
      <4>2. CASE i \in 1..k
        <5>1. h[i] \in Nat /\ h[i] <= b /\ h[i] = g[i]
          BY <3>2, <3>3, <4>2
        <5>2. h[i] <= c
          BY <3>6, <5>1
        <5>. QED BY <5>1, <5>2
      <4>. QED BY <4>1, <4>2
    <3>. QED BY <3>7
  <2>2. Bounded(k + 1)
    BY <2>1, Zenon DEF Bounded
  <2>. QED BY <2>2
<1>3. Nat \subseteq N
  <2>. HIDE DEF N
  <2>. QED BY <1>1, <1>2, NatInSet
<1>4. PICK n \in Nat : ExistsSurjection(1..n, S)
  BY FS_NatSurjection
<1>5. PICK f \in [1..n -> S] : \A x \in S : \E i \in 1..n : f[i] = x
  BY <1>4 DEF ExistsSurjection, Surjection
<1>6. PICK b \in Nat : \A i \in 1..n : f[i] <= b
  <2>1. f \in [1..n -> Nat]
    OBVIOUS
  <2>2. n \in N => Bounded(n)
    OBVIOUS
  <2>. HIDE DEF N
  <2>3. Bounded(n)
    BY <1>3, <2>2
  <2>. QED BY <2>1, <2>3 DEF Bounded
<1>7. \A x \in S : x \in Nat /\ x <= b
  BY <1>5, <1>6
<1>. DEFINE T == {b - x : x \in S}
<1>8. T \in SUBSET Nat /\ T # {}
  <2>1. \A x \in S : b - x \in Nat
    BY <1>7
  <2>. QED BY <2>1
<1>9. PICK t \in T : \A u \in T : t <= u
  <2>. HIDE DEF T
  <2>. QED BY <1>8, LeastNatural
<1>10. PICK m \in S : t = b - m
  BY <1>9
<1>11. ASSUME NEW x \in S PROVE x <= m
  <2>1. b - m <= b - x
    BY <1>9, <1>10
  <2>. QED BY <1>7, <2>1
<1>. QED BY <1>11

LEMMA LargestPush ==
  Largest \in Nat \ {0} /\ \A n \in PushSizes : n <= Largest
<1>1. PushSizes \in SUBSET Nat /\ IsFiniteSet(PushSizes) /\ PushSizes # {}
      /\ \A n \in PushSizes : n # 0
  BY LimitedQueueAssumption
<1>2. \E m \in PushSizes : \A n \in PushSizes : n <= m
  BY <1>1, LargestOfFinite
<1>3. Largest \in PushSizes /\ \A n \in PushSizes : n <= Largest
  BY <1>2, Zenon DEF Largest
<1>. QED BY <1>1, <1>3

\* Those that have passed the test and have not pushed yet.
Passing == {p \in Pusher : passed[p] > 0}

\* There is room for what they all may push, and for as much of every other pusher.
RoomLeft ==
    Len(items) + Cardinality(Passing) * Largest <= MaxSize - 1 + Cardinality(Pusher) * Largest

LimitInv == QueueInv /\ passed \in [Pusher -> PushSizes \cup {0}] /\ RoomLeft

LEMMA PusherCount ==
  /\ IsFiniteSet(Pusher) /\ Cardinality(Pusher) \in Nat
  /\ \A T \in SUBSET Pusher : IsFiniteSet(T) /\ Cardinality(T) \in Nat
                              /\ Cardinality(T) <= Cardinality(Pusher)
BY LimitedQueueAssumption, FS_CardinalityType, FS_Subset

LEMMA LimitStart == LimitInit => LimitInv
<1>. SUFFICES ASSUME LimitInit PROVE LimitInv
  OBVIOUS
<1>1. Passing = {} /\ Len(items) = 0 /\ passed \in [Pusher -> PushSizes \cup {0}]
  BY DEF LimitInit, Passing
<1>2. Cardinality(Passing) = 0
  BY <1>1, FS_EmptySet
<1>3. Cardinality(Pusher) * Largest \in Nat /\ 0 * Largest = 0
  BY PusherCount, LargestPush, Times
<1>4. RoomLeft
  <2>1. 0 + 0 <= MaxSize - 1 + Cardinality(Pusher) * Largest
    BY <1>3, LimitedQueueAssumption
  <2>. QED BY <1>1, <1>2, <1>3, <2>1, Zenon DEF RoomLeft
<1>. QED BY <1>1, <1>4, QueueStart DEF LimitInv

\* Who passes the test finds a place free.
LEMMA RoomAtTest ==
  ASSUME LimitInv, NEW p \in Pusher, NEW n \in PushSizes, TestLimit(p, n)
  PROVE  passed' \in [Pusher -> PushSizes \cup {0}] /\ RoomLeft'
<1>1. /\ Len(items) \in Nat /\ Len(items) <= MaxSize - 1 /\ items' = items
      /\ passed' = [passed EXCEPT ![p] = n] /\ passed \in [Pusher -> PushSizes \cup {0}]
  <2>1. items \in Seq(Items) /\ ~(Len(items) >= MaxSize) /\ items' = items
        /\ passed' = [passed EXCEPT ![p] = n] /\ passed \in [Pusher -> PushSizes \cup {0}]
    BY DEF LimitInv, QueueInv, TestLimit, Full
  <2>. QED BY <2>1, LenProperties, LimitedQueueAssumption
<1>2. Passing' \in SUBSET Pusher
  BY DEF Passing
<1>3. PICK c \in Nat, d \in Nat, l \in Nat :
         /\ c = Cardinality(Passing') /\ d = Cardinality(Pusher) /\ l = Largest /\ c <= d
  BY <1>2, PusherCount, LargestPush
<1>4. c * l <= d * l /\ c * l \in Nat /\ d * l \in Nat
  BY <1>3, Times
<1>5. PICK x \in Nat, y \in Nat, z \in Nat : x = c * l /\ y = d * l /\ z = Len(items') /\ x <= y
  BY <1>1, <1>4
<1>6. z + x <= MaxSize - 1 + y
  BY <1>1, <1>5, LimitedQueueAssumption
<1>7. RoomLeft'
  BY <1>3, <1>5, <1>6, Zenon DEF RoomLeft
<1>. QED BY <1>1, <1>7

\* Who pushes takes the room that was kept.
LEMMA RoomAtPush ==
  ASSUME LimitInv, NEW p \in Pusher, PushFrontN(p)
  PROVE  passed' \in [Pusher -> PushSizes \cup {0}] /\ RoomLeft'
<1>1. /\ items \in Seq(Items) /\ passed \in [Pusher -> PushSizes \cup {0}]
      /\ passed[p] > 0 /\ passed' = [passed EXCEPT ![p] = 0]
  BY DEF LimitInv, QueueInv, PushFrontN
<1>2. PICK n \in Nat : n = passed[p] /\ n \in PushSizes /\ n <= Largest /\ n > 0
  BY <1>1, LargestPush, LimitedQueueAssumption
<1>3. given[p] \in Nat /\ given[p] + n <= MaxItems
  BY <1>1, <1>2 DEF LimitInv, QueueInv
<1>4. PICK b \in Seq(Items) : b = Block(p, given[p], n) /\ Len(b) = n
  BY <1>3, BlockTyped
<1>5. items' = items \o b
  BY <1>2, <1>4, Zenon DEF PushFrontN, Block
<1>6. Len(items') = Len(items) + n /\ Len(items) \in Nat
  <2>1. Len(items \o b) = Len(items) + Len(b) /\ Len(items) \in Nat
    BY <1>1, ConcatProperties, LenProperties
  <2>. QED BY <1>4, <1>5, <2>1, Zenon
<1>7. Passing \in SUBSET Pusher /\ p \in Passing /\ Passing' = Passing \ {p}
  BY <1>1 DEF Passing
<1>8. IsFiniteSet(Passing) /\ Cardinality(Passing) \in Nat
  BY <1>7, PusherCount
<1>9. Passing' \in SUBSET Pusher
  BY <1>7
<1>10. Cardinality(Passing') \in Nat /\ Cardinality(Passing') = Cardinality(Passing) - 1
  <2>1. Cardinality(Passing \ {p}) = Cardinality(Passing) - 1
    BY <1>7, <1>8, FS_RemoveElement
  <2>. QED BY <1>7, <1>9, <2>1, PusherCount
<1>11. PICK c \in Nat, l \in Nat, y \in Nat :
          /\ c = Cardinality(Passing') /\ c + 1 = Cardinality(Passing)
          /\ l = Largest /\ n <= l /\ y = Cardinality(Pusher) * Largest
  <2>1. Cardinality(Pusher) * Largest \in Nat
    BY PusherCount, LargestPush, Times
  <2>2. Cardinality(Passing') + 1 = Cardinality(Passing)
    BY <1>8, <1>10
  <2>. QED BY <1>2, <1>10, <2>1, <2>2, LargestPush
<1>12. PICK x \in Nat : x = c * l /\ (c + 1) * l = x + l
  BY Times
<1>13. Len(items) + (x + l) <= MaxSize - 1 + y
  BY <1>11, <1>12, Zenon DEF LimitInv, RoomLeft
<1>14. (Len(items) + n) + x <= MaxSize - 1 + y
  BY <1>6, <1>11, <1>13, LimitedQueueAssumption
<1>15. RoomLeft'
  BY <1>6, <1>11, <1>12, <1>14, Zenon DEF RoomLeft
<1>. QED BY <1>1, <1>15

\* Who pops makes room.
LEMMA RoomAtPop ==
  ASSUME LimitInv, NEW n \in 1..Len(items), PopBackN(n)
  PROVE  passed' \in [Pusher -> PushSizes \cup {0}] /\ RoomLeft'
<1>1. /\ items \in Seq(Items) /\ Len(items) \in Nat /\ items' = SubSeq(items, n + 1, Len(items))
      /\ passed' = passed /\ passed \in [Pusher -> PushSizes \cup {0}]
  BY LenProperties DEF LimitInv, QueueInv, PopBackN
<1>2. Len(items') \in Nat /\ Len(items') <= Len(items)
  <2>1. \A i \in (n + 1)..Len(items) : items[i] \in Items
    BY <1>1, ElementOfSeq
  <2>2. Len(SubSeq(items, n + 1, Len(items))) =
            IF n + 1 <= Len(items) THEN Len(items) - (n + 1) + 1 ELSE 0
    BY <1>1, <2>1, SubSeqProperties
  <2>. QED BY <1>1, <2>2
<1>3. Passing' = Passing
  BY <1>1 DEF Passing
<1>4. PICK x \in Nat, y \in Nat : x = Cardinality(Passing) * Largest /\ y = Cardinality(Pusher) * Largest
  <2>1. Passing \in SUBSET Pusher
    BY DEF Passing
  <2>2. Cardinality(Passing) \in Nat /\ Cardinality(Pusher) \in Nat /\ Largest \in Nat
    BY <2>1, PusherCount, LargestPush
  <2>. QED BY <2>2, Times
<1>5. Len(items) + x <= MaxSize - 1 + y
  BY <1>4, Zenon DEF LimitInv, RoomLeft
<1>6. Len(items') + x <= MaxSize - 1 + y
  BY <1>1, <1>2, <1>5, LimitedQueueAssumption
<1>7. RoomLeft'
  BY <1>3, <1>4, <1>6, Zenon DEF RoomLeft
<1>. QED BY <1>1, <1>7

LEMMA LimitStep == LimitInv /\ [LimitNext]_queueVars => LimitInv'
<1>. SUFFICES ASSUME LimitInv, [LimitNext]_queueVars PROVE LimitInv'
  OBVIOUS
<1>0. QueueInv /\ items \in Seq(Items) /\ Len(items) \in Nat
  BY LenProperties DEF LimitInv, QueueInv
<1>1. QueueInv'
  BY <1>0, QueueStep
<1>2. CASE \E p \in Pusher : PushFrontN(p)
  BY <1>1, <1>2, RoomAtPush DEF LimitInv
<1>3. CASE \E p \in Pusher : \E n \in PushSizes : TestLimit(p, n)
  BY <1>1, <1>3, RoomAtTest DEF LimitInv
<1>4. ASSUME NEW n \in PopSizes, PopBackN(n) PROVE LimitInv'
  <2>1. n \in 1..Len(items)
    BY <1>0, <1>4, LimitedQueueAssumption DEF PopBackN
  <2>. QED BY <1>1, <1>4, <2>1, RoomAtPop DEF LimitInv
<1>5. CASE PopBackAll
  <2>1. Len(items) \in 1..Len(items)
    BY <1>0, <1>5, EmptySeq DEF PopBackAll
  <2>2. PopBackN(Len(items))
    BY <1>5 DEF PopBackAll
  <2>. QED BY <1>1, <2>1, <2>2, RoomAtPop DEF LimitInv
<1>6. CASE UNCHANGED queueVars
  BY <1>1, <1>6 DEF queueVars, LimitInv, RoomLeft, Passing
<1>. QED BY <1>2, <1>3, <1>4, <1>5, <1>6 DEF LimitNext

\* However many push at once, the list is longer than its limit by no more than what each of
\* them may push after a test at the last free place (queue.go:113-129).
THEOREM LimitOversteppedBy == LimitSpec => []LimitTypeOK
<1>1. LimitInv => LimitTypeOK
  <2>. SUFFICES ASSUME LimitInv PROVE LimitTypeOK
    OBVIOUS
  <2>1. /\ items \in Seq(Pusher \X (1..MaxItems)) /\ taken \in Seq(Pusher \X (1..MaxItems))
        /\ passed \in [Pusher -> PushSizes \cup {0}] /\ given \in [Pusher -> 0..MaxItems]
        /\ Len(items) \in Nat
    BY LenProperties DEF LimitInv, QueueInv, Items
  <2>2. PICK x \in Nat, y \in Nat : x = Cardinality(Passing) * Largest /\ y = Cardinality(Pusher) * Largest
    <3>1. Passing \in SUBSET Pusher
      BY DEF Passing
    <3>2. Cardinality(Passing) \in Nat /\ Cardinality(Pusher) \in Nat /\ Largest \in Nat
      BY <3>1, PusherCount, LargestPush
    <3>. QED BY <3>2, Times
  <2>3. Len(items) + x <= MaxSize - 1 + y
    BY <2>2, Zenon DEF LimitInv, RoomLeft
  <2>4. Len(items) <= MaxSize - 1 + y
    BY <2>1, <2>3, LimitedQueueAssumption
  <2>. QED BY <2>1, <2>2, <2>4, Zenon DEF LimitTypeOK
<1>. QED BY LimitStart, LimitStep, <1>1, PTL DEF LimitSpec

(***************************************************************************)
(* A command that is run.  The goroutine that waits has a taker from its   *)
(* start, long before it has something to hand over; and what it has seen  *)
(* of the process and its output is final, since a process that has ended  *)
(* starts no other.                                                        *)
(***************************************************************************)
RunTyped ==
    /\ runPc \in {"split", "select", "kill", "returned"}
    /\ outcome \in {"none", "unparsable", "failed", "output", "timeout"}
    /\ process \in {"none", "running", "exited", "reaped"}
    /\ child \in [state : {"none", "running", "gone"}, inGroup : BOOLEAN, holds : BOOLEAN]
    /\ waitPc \in {"none", "wait", "copy", "send", "end"}

RunInv ==
    /\ RunTyped /\ RunSound
    /\ runPc = "split" => process = "none" /\ waitPc = "none" /\ outcome = "none"
    /\ outcome \in {"output", "timeout"} => runPc = "returned"
    /\ waitPc \in {"copy", "send", "end"} => process = "reaped"
    /\ waitPc = "send" => ~OutputHeld
    /\ waitPc \in {"wait", "copy", "send"} => runPc = "select" \/ drains

LEMMA RunStart == CommandInit => RunInv
BY DEF CommandInit, RunInv, RunTyped, RunSound, OutputHeld

LEMMA RunStep == RunInv /\ [CommandNext]_commandVars => RunInv'
<1>. SUFFICES ASSUME RunInv, [CommandNext]_commandVars PROVE RunInv'
  OBVIOUS
<1>. USE DEF RunInv, RunTyped, RunSound, OutputHeld, ReturnWith
<1>1. CASE UNCHANGED runVars
  BY <1>1 DEF runVars
<1>2. CASE RunWords
  BY <1>2 DEF RunWords
<1>3. CASE ProcessExits
  BY <1>3 DEF ProcessExits
<1>4. CASE ChildExits
  BY <1>4 DEF ChildExits
<1>5. CASE WaitProcess
  BY <1>5 DEF WaitProcess
<1>6. CASE WaitOutput
  BY <1>6 DEF WaitOutput
<1>7. ASSUME NEW inGroup \in BOOLEAN, NEW holds \in BOOLEAN, Fork(inGroup, holds) PROVE RunInv'
  BY <1>7 DEF Fork
<1>8. CASE TakeResult
  BY <1>8 DEF TakeResult
<1>9. CASE TimeOut
  BY <1>9 DEF TimeOut
<1>10. CASE KillGroup
  BY <1>10 DEF KillGroup
<1>11. CASE TakeLateResult
  BY <1>11 DEF TakeLateResult
<1>. QED
  BY <1>1, <1>2, <1>3, <1>4, <1>5, <1>6, <1>7, <1>8, <1>9, <1>10, <1>11
  DEF CommandNext, commandVars, runVars

\* Output that is returned is all there is, after a timeout nothing of the group runs, and
\* the goroutine that waits always has somebody to take its result, for every command and
\* whoever wins the select (cmd_notwindows.go:12-33).
THEOREM RunsAreSound == CommandSpec => []RunSound
<1>1. RunInv => RunSound
  BY DEF RunInv
<1>. QED BY RunStart, RunStep, <1>1, PTL DEF CommandSpec

(***************************************************************************)
(* The words of a command.  QuoteSplit reads ahead and copies a piece at a *)
(* time, the definition reads one character; the invariant says at each    *)
(* label in which state the reader is after what has been consumed.        *)
(***************************************************************************)
Readers ==
    [state : {"out", "word", "out\\", "word\\", "single", "double", "double\\"},
     word : Seq(Char), done : Seq(Seq(Char))]

NotBegun == Reading("out", <<>>, <<>>)

LEMMA ReaderOf ==
  ASSUME NEW st \in {"out", "word", "out\\", "word\\", "single", "double", "double\\"},
         NEW w \in Seq(Char), NEW d \in Seq(Seq(Char))
  PROVE  Reading(st, w, d) \in Readers
BY DEF Readers, Reading

LEMMA NotBegunTyped == NotBegun \in Readers
BY DEF Readers, Reading, NotBegun

\* The definition reads any character in any state.
LEMMA ReadTyped ==
  ASSUME NEW r \in Readers, NEW c \in Char PROVE Read(r, c) \in Readers
<1>1. r.word \in Seq(Char) /\ r.done \in Seq(Seq(Char))
  BY DEF Readers
<1>2. Append(r.word, c) \in Seq(Char) /\ Append(r.done, r.word) \in Seq(Seq(Char)) /\ <<>> \in Seq(Char)
  BY <1>1, AppendProperties
<1>3. c = "\\" \/ r.word \o <<"\\", c>> \in Seq(Char)
  <2>1. PICK e \in Char : e = "\\"
    BY DEF Char
  <2>2. <<e, c>> \in Seq(Char)
    OBVIOUS
  <2>. QED BY <1>1, <2>1, <2>2, ConcatProperties
<1>4. \A st \in {"out", "word", "out\\", "word\\", "single", "double", "double\\"} :
        [r EXCEPT !.state = st] \in Readers
  BY DEF Readers
<1>. QED BY <1>1, <1>2, <1>3, <1>4, ReaderOf DEF Read, Blank, DoubleEscape

IsReading(f, s) ==
    f = [S \in SUBSET (1..Len(s)) |-> IF S = {} THEN NotBegun ELSE Read(f[S \ {Max(S)}], s[Max(S)])]

\* The function that the fold of Shell defines exists.
LEMMA ReadingExists ==
  ASSUME NEW s \in Seq(Char)
  PROVE  \E f \in [SUBSET (1..Len(s)) -> Readers] : IsReading(f, s)
<1>. DEFINE n == Len(s)
            step == [x \in Readers \X (1..n) |-> Read(x[1], s[x[2]])]
<1>1. n \in Nat /\ NotBegun \in Readers /\ step \in [Readers \X (1..n) -> Readers]
  <2>1. ASSUME NEW r \in Readers, NEW k \in 1..n PROVE Read(r, s[k]) \in Readers
    BY ElementOfSeq, ReadTyped
  <2>2. NotBegun \in Readers
    BY NotBegunTyped
  <2>. QED BY <2>1, <2>2, LenProperties
<1>2. PICK f \in [SUBSET (1..n) -> Readers] : IsFold(f, n, NotBegun, step)
  <2>. HIDE DEF n, step
  <2>. QED BY <1>1, FoldExists DEF FoldIn
<1>3. ASSUME NEW S \in SUBSET (1..n), S # {}
      PROVE  step[<<f[S \ {Max(S)}], Max(S)>>] = Read(f[S \ {Max(S)}], s[Max(S)])
  <2>1. S \ {Max(S)} \in SUBSET (1..n) /\ Max(S) \in 1..n
    BY <1>1, <1>3, LargestIn
  <2>2. PICK v \in Readers, k \in 1..n : v = f[S \ {Max(S)}] /\ k = Max(S)
    BY <2>1
  <2>3. step[<<v, k>>] = Read(v, s[k])
    OBVIOUS
  <2>. QED BY <2>2, <2>3, Zenon
<1>4. f = [S \in SUBSET (1..n) |-> IF S = {} THEN NotBegun ELSE Read(f[S \ {Max(S)}], s[Max(S)])]
  <2>. HIDE DEF step
  <2>. QED BY <1>2, <1>3, Zenon DEF IsFold
<1>. QED BY <1>4, Zenon DEF IsReading

\* The reader after k characters of s.
ReadTo(s, k) == (CHOOSE f : IsReading(f, s))[1..k]

\* It starts with nothing and reads on,
LEMMA ReadOn ==
  ASSUME NEW s \in Seq(Char)
  PROVE  /\ ReadTo(s, 0) = NotBegun
         /\ \A k \in 1..Len(s) : ReadTo(s, k) = Read(ReadTo(s, k - 1), s[k])
<1>. DEFINE n == Len(s)
<1>0. n \in Nat
  BY LenProperties
<1>1. PICK f : f = CHOOSE g : IsReading(g, s)
  OBVIOUS
<1>2. IsReading(f, s)
  BY <1>1, ReadingExists, Zenon
<1>3. \A S \in SUBSET (1..n) : f[S] = IF S = {} THEN NotBegun ELSE Read(f[S \ {Max(S)}], s[Max(S)])
  BY <1>2, Zenon DEF IsReading
<1>4. f[1..0] = NotBegun
  <2>1. 1..0 = {} /\ {} \in SUBSET (1..n)
    OBVIOUS
  <2>. QED BY <1>3, <2>1, Zenon
<1>5. ASSUME NEW k \in 1..n PROVE f[1..k] = Read(f[1..(k - 1)], s[k])
  <2>1. 1..k \in SUBSET (1..n) /\ 1..k # {} /\ Max(1..k) = k /\ (1..k) \ {k} = 1..(k - 1)
    BY <1>0, FirstPositions
  <2>. QED BY <1>3, <2>1, Zenon
<1>. QED BY <1>1, <1>4, <1>5, Zenon DEF ReadTo

\* is always in some state,
LEMMA ReadToTyped ==
  ASSUME NEW s \in Seq(Char), NEW k \in 0..Len(s)
  PROVE  ReadTo(s, k) \in Readers
<1>. DEFINE N == {j \in Nat : j <= Len(s) => ReadTo(s, j) \in Readers}
<1>0. Len(s) \in Nat
  BY LenProperties
<1>1. 0 \in N
  BY ReadOn, NotBegunTyped
<1>2. ASSUME NEW j \in Nat, j \in N PROVE j + 1 \in N
  <2>. SUFFICES ASSUME j + 1 <= Len(s) PROVE ReadTo(s, j + 1) \in Readers
    OBVIOUS
  <2>1. ReadTo(s, j) \in Readers /\ s[j + 1] \in Char
    BY <1>0, <1>2, ElementOfSeq
  <2>2. ReadTo(s, j + 1) = Read(ReadTo(s, (j + 1) - 1), s[j + 1]) /\ (j + 1) - 1 = j
    BY <1>0, ReadOn
  <2>. QED BY <2>1, <2>2, ReadTyped
<1>3. Nat \subseteq N
  <2>. HIDE DEF N
  <2>. QED BY <1>1, <1>2, NatInSet
<1>. QED BY <1>0, <1>3

\* What the definition makes of the reader at the end.
AtEnd(r) ==
    CASE r.state = "out"               -> <<r.done, "none">>
      [] r.state = "word"              -> <<Append(r.done, r.word), "none">>
      [] r.state \in {"out\\", "word\\"} -> <<r.done, "escape">>
      [] r.state = "single"            -> <<r.done, "single">>
      [] OTHER                         -> <<r.done, "double">>

LEMMA Endings ==
  \A w, d : /\ AtEnd(Reading("out", w, d)) = <<d, "none">>
            /\ AtEnd(Reading("word", w, d)) = <<Append(d, w), "none">>
            /\ AtEnd(Reading("out\\", w, d)) = <<d, "escape">>
            /\ AtEnd(Reading("word\\", w, d)) = <<d, "escape">>
            /\ AtEnd(Reading("single", w, d)) = <<d, "single">>
            /\ AtEnd(Reading("double", w, d)) = <<d, "double">>
            /\ AtEnd(Reading("double\\", w, d)) = <<d, "double">>
BY DEF AtEnd, Reading

\* and Shell looks at it at the end.
LEMMA ShellReads ==
  ASSUME NEW s \in Seq(Char) PROVE Shell(s) = AtEnd(ReadTo(s, Len(s)))
<1>1. DOMAIN s = 1..Len(s)
  OBVIOUS
<1>2. FoldLeft(Read, NotBegun, s) = ReadTo(s, Len(s))
  BY <1>1, Zenon DEF FoldLeft, MapThenFoldSet, ReadTo, IsReading
<1>. QED BY <1>2, Zenon DEF Shell, AtEnd, NotBegun

\* t is what s has after its first k characters.
Rest(s, k, t) ==
    /\ s \in Seq(Char) /\ t \in Seq(Char) /\ k \in Nat /\ Len(s) = k + Len(t)
    /\ \A i \in 1..Len(t) : t[i] = s[k + i]

\* One character of it is read.
LEMMA ReadNext ==
  ASSUME NEW s, NEW k, NEW t, Rest(s, k, t), NEW i \in 1..Len(t)
  PROVE  ReadTo(s, k + i) = Read(ReadTo(s, k + (i - 1)), t[i])
<1>1. k + i \in 1..Len(s) /\ t[i] = s[k + i] /\ (k + i) - 1 = k + (i - 1) /\ s \in Seq(Char)
  BY LenProperties DEF Rest
<1>2. ReadTo(s, k + i) = Read(ReadTo(s, (k + i) - 1), s[k + i])
  BY <1>1, ReadOn
<1>. QED BY <1>1, <1>2, Zenon

\* From state a, character c is copied and leads to state b.
Copies(a, b, d, c) ==
    \A v \in Seq(Char) : Read(Reading(a, v, d), c) = Reading(b, Append(v, c), d)

AllCopied(t, n, d, a, b) == \A i \in 1..n : Copies(a, b, d, t[i]) /\ Copies(b, b, d, t[i])

HasRead(s, k, t, n, w, d, a, b) ==
    ReadTo(s, k + n) = Reading(IF n = 0 THEN a ELSE b, w \o SubSeq(t, 1, n), d)

\* A piece whose characters are all copied.
LEMMA ReadRun ==
  ASSUME NEW s, NEW k, NEW t, Rest(s, k, t), NEW n \in 0..Len(t), NEW w \in Seq(Char), NEW d,
         NEW a, NEW b, ReadTo(s, k) = Reading(a, w, d),
         AllCopied(t, n, d, a, b)
  PROVE  HasRead(s, k, t, n, w, d, a, b)
<1>. DEFINE st(m) == IF m = 0 THEN a ELSE b
            N == {m \in Nat : m <= n => ReadTo(s, k + m) = Reading(st(m), w \o SubSeq(t, 1, m), d)}
<1>0. t \in Seq(Char) /\ Len(t) \in Nat /\ k \in Nat
  BY LenProperties DEF Rest
<1>1. 0 \in N
  <2>1. k + 0 = k
    BY <1>0
  <2>2. w \o SubSeq(t, 1, 0) = w
    BY PieceNone
  <2>. QED BY <2>1, <2>2
<1>2. ASSUME NEW m \in Nat, m \in N PROVE m + 1 \in N
  <2>. SUFFICES ASSUME m + 1 <= n
                PROVE  ReadTo(s, k + (m + 1)) = Reading(b, w \o SubSeq(t, 1, m + 1), d)
    OBVIOUS
  <2>1. m < Len(t) /\ m + 1 \in 1..n /\ m + 1 \in 1..Len(t) /\ (m + 1) - 1 = m
    BY <1>0
  <2>2. /\ w \o SubSeq(t, 1, m) \in Seq(Char)
        /\ w \o SubSeq(t, 1, m + 1) = Append(w \o SubSeq(t, 1, m), t[m + 1])
    BY <1>0, <2>1, PieceGrows
  <2>3. PICK e \in {a, b} : ReadTo(s, k + m) = Reading(e, w \o SubSeq(t, 1, m), d)
    BY <1>2, <2>1
  <2>4. ReadTo(s, k + (m + 1)) = Read(ReadTo(s, k + m), t[m + 1])
    <3>1. ReadTo(s, k + (m + 1)) = Read(ReadTo(s, k + ((m + 1) - 1)), t[m + 1])
      BY <2>1, ReadNext
    <3>. QED BY <2>1, <3>1, Zenon
  <2>5. Read(Reading(e, w \o SubSeq(t, 1, m), d), t[m + 1])
          = Reading(b, Append(w \o SubSeq(t, 1, m), t[m + 1]), d)
    <3>1. Copies(e, b, d, t[m + 1])
      BY <2>1 DEF AllCopied
    <3>. QED BY <2>1, <2>2, <3>1, Zenon DEF Copies
  <2>. QED BY <2>2, <2>3, <2>4, <2>5, Zenon
<1>3. Nat \subseteq N
  <2>. HIDE DEF N
  <2>. QED BY <1>1, <1>2, NatInSet
<1>4. n \in Nat
  BY <1>0
<1>. QED BY <1>3, <1>4 DEF HasRead

\* What is left after n characters more.
LEMMA RestDropped ==
  ASSUME NEW s, NEW k, NEW t, Rest(s, k, t), NEW n \in 0..Len(t)
  PROVE  Rest(s, k + n, Drop(t, n))
<1>1. t \in Seq(Char) /\ Len(t) \in Nat /\ k \in Nat /\ \A i \in 1..Len(t) : t[i] \in Char
  BY LenProperties, ElementOfSeq DEF Rest
<1>2. PICK u : u = Drop(t, n)
  OBVIOUS
<1>3. /\ u \in Seq(Char) /\ Len(u) = Len(t) - n
      /\ \A i \in 1..(Len(t) - n) : u[i] = t[n + i]
  <2>1. \A i \in (n + 1)..Len(t) : t[i] \in Char
    BY <1>1
  <2>2. /\ SubSeq(t, n + 1, Len(t)) \in Seq(Char)
        /\ Len(SubSeq(t, n + 1, Len(t))) = IF n + 1 <= Len(t) THEN Len(t) - (n + 1) + 1 ELSE 0
        /\ \A i \in 1..(Len(t) - (n + 1) + 1) : SubSeq(t, n + 1, Len(t))[i] = t[n + 1 + i - 1]
    BY <1>1, <2>1, SubSeqProperties
  <2>3. u = SubSeq(t, n + 1, Len(t))
    BY <1>2 DEF Drop
  <2>4. \A i \in 1..(Len(t) - n) : i \in 1..(Len(t) - (n + 1) + 1) /\ n + 1 + i - 1 = n + i
    BY <1>1
  <2>. QED BY <1>1, <2>2, <2>3, <2>4
<1>4. ASSUME NEW i \in 1..Len(u) PROVE u[i] = s[(k + n) + i]
  <2>1. n + i \in 1..Len(t) /\ k + (n + i) = (k + n) + i /\ i \in 1..(Len(t) - n)
    BY <1>1, <1>3
  <2>2. u[i] = t[n + i] /\ t[n + i] = s[k + (n + i)]
    BY <1>3, <2>1 DEF Rest
  <2>. QED BY <2>1, <2>2
<1>5. Len(s) = (k + n) + Len(u) /\ k + n \in Nat
  BY <1>1, <1>3 DEF Rest
<1>. QED BY <1>2, <1>3, <1>4, <1>5 DEF Rest

LEMMA RestTail ==
  ASSUME NEW s, NEW k, NEW t, Rest(s, k, t), t # <<>>
  PROVE  Rest(s, k + 1, Tail(t)) /\ Head(t) = t[1] /\ Len(t) \in Nat \ {0} /\ Len(Tail(t)) = Len(t) - 1
<1>1. t \in Seq(Char) /\ Len(t) \in Nat \ {0}
  BY EmptySeq DEF Rest
<1>2. Rest(s, k + 1, Drop(t, 1))
  BY <1>1, RestDropped
<1>3. Drop(t, 1) = Tail(t)
  <2>1. Tail(t) = SubSeq(t, 2, Len(t))
    BY <1>1, TailIsSubSeq
  <2>. QED BY <2>1 DEF Drop
<1>4. Head(t) = t[1] /\ Len(Tail(t)) = Len(t) - 1
  BY <1>1, HeadTailProperties
<1>. QED BY <1>1, <1>2, <1>3, <1>4, Zenon

\* What Find finds.
LEMMA Found ==
  ASSUME NEW t \in Seq(Char), NEW chars
  PROVE  \/ Find(t, chars) = 0 /\ \A i \in 1..Len(t) : t[i] \notin chars
         \/ /\ Find(t, chars) \in 1..Len(t) /\ t[Find(t, chars)] \in chars
            /\ \A i \in 1..(Find(t, chars) - 1) : t[i] \notin chars
<1>. DEFINE I == {i \in 1..Len(t) : t[i] \in chars}
<1>1. Find(t, chars) = IF I # {} THEN Min(I) ELSE 0
  BY DEF Find, SelectInSeq
<1>2. CASE I = {}
  BY <1>1, <1>2
<1>3. CASE I # {}
  <2>1. I \in SUBSET Nat /\ Len(t) \in Nat
    BY LenProperties
  <2>2. Min(I) \in I /\ \A i \in I : Min(I) <= i
    <3>. HIDE DEF I
    <3>. QED BY <1>3, <2>1, LeastIn
  <2>3. PICK m \in I : m = Min(I) /\ \A i \in I : m <= i
    BY <2>2
  <2>4. \A i \in 1..(m - 1) : t[i] \notin chars
    BY <2>1, <2>3
  <2>. QED BY <1>1, <1>3, <2>3, <2>4
<1>. QED BY <1>2, <1>3

\* The ways to read a piece: letters in a word or before it,
LEMMA ReadLetters ==
  ASSUME NEW s, NEW k, NEW t, Rest(s, k, t), NEW n \in 0..Len(t), NEW w \in Seq(Char), NEW d,
         NEW a \in {"out", "word"}, ReadTo(s, k) = Reading(a, w, d),
         \A i \in 1..n : t[i] \notin Special
  PROVE  ReadTo(s, k + n) = Reading(IF n = 0 THEN a ELSE "word", w \o SubSeq(t, 1, n), d)
<1>1. ASSUME NEW i \in 1..n, NEW e \in {"out", "word"} PROVE Copies(e, "word", d, t[i])
  <2>1. PICK c : c = t[i] /\ c \notin {"'", "\"", "\\", " ", "nl"}
    BY DEF Special, Blank
  <2>2. Copies(e, "word", d, c)
    BY <2>1 DEF Copies, Read, Reading, Blank
  <2>. QED BY <2>1, <2>2
<1>2. PICK b : b = "word"
  OBVIOUS
<1>3. AllCopied(t, n, d, a, b)
  BY <1>1, <1>2 DEF AllCopied
<1>4. HasRead(s, k, t, n, w, d, a, b)
  BY <1>3, ReadRun
<1>. QED BY <1>2, <1>4, Zenon DEF HasRead

NoneOf(t, n, chars) == \A i \in 1..n : t[i] \notin chars

\* what stands in single quotes,
LEMMA ReadSingle ==
  ASSUME NEW s, NEW k, NEW t, Rest(s, k, t), NEW n \in 0..Len(t), NEW w \in Seq(Char), NEW d,
         ReadTo(s, k) = Reading("single", w, d), NoneOf(t, n, {"'"})
  PROVE  HasRead(s, k, t, n, w, d, "single", "single")
<1>1. PICK a : a = "single" /\ ReadTo(s, k) = Reading(a, w, d)
  OBVIOUS
<1>2. ASSUME NEW i \in 1..n PROVE Copies(a, a, d, t[i])
  <2>1. PICK c : c = t[i] /\ c # "'"
    BY DEF NoneOf
  <2>2. Copies(a, a, d, c)
    BY <1>1, <2>1 DEF Copies, Read, Reading
  <2>. QED BY <2>1, <2>2
<1>3. AllCopied(t, n, d, a, a)
  BY <1>2 DEF AllCopied
<1>4. HasRead(s, k, t, n, w, d, a, a)
  BY <1>1, <1>3, ReadRun
<1>. QED BY <1>1, <1>4, Zenon

\* and in double quotes, where an escape waits for the character behind it.
Quoted(s, k, t, w, d, m) ==
    \/ ReadTo(s, k + m) = Reading("double", w \o SubSeq(t, 1, m), d)
    \/ /\ m >= 1 /\ t[m] = "\\"
       /\ ReadTo(s, k + m) = Reading("double\\", w \o SubSeq(t, 1, m - 1), d)

NoStop(t, i) == t[i] # "\"" /\ (t[i] = "\\" /\ i < Len(t) => t[i + 1] \notin DoubleEscape)

LEMMA ReadDouble ==
  ASSUME NEW s, NEW k, NEW t, Rest(s, k, t), NEW n \in 0..Len(t), NEW w \in Seq(Char), NEW d,
         ReadTo(s, k) = Reading("double", w, d), \A i \in 1..n : NoStop(t, i)
  PROVE  Quoted(s, k, t, w, d, n)
<1>. DEFINE N == {m \in Nat : m <= n => Quoted(s, k, t, w, d, m)}
<1>0. t \in Seq(Char) /\ Len(t) \in Nat /\ k \in Nat
  BY LenProperties DEF Rest
<1>1. 0 \in N
  <2>1. k + 0 = k
    BY <1>0
  <2>2. w \o SubSeq(t, 1, 0) = w
    BY PieceNone
  <2>. QED BY <2>1, <2>2, Zenon DEF Quoted
<1>2. ASSUME NEW m \in Nat, m \in N PROVE m + 1 \in N
  <2>. SUFFICES ASSUME m + 1 <= n PROVE Quoted(s, k, t, w, d, m + 1)
    OBVIOUS
  <2>1. m < Len(t) /\ m + 1 \in 1..n /\ m + 1 \in 1..Len(t) /\ (m + 1) - 1 = m
    BY <1>0
  <2>2. /\ w \o SubSeq(t, 1, m) \in Seq(Char)
        /\ w \o SubSeq(t, 1, m + 1) = Append(w \o SubSeq(t, 1, m), t[m + 1])
    BY <1>0, <2>1, PieceGrows
  <2>3. PICK c \in Char : c = t[m + 1]
    BY <1>0, <2>1, ElementOfSeq
  <2>4. ReadTo(s, k + (m + 1)) = Read(ReadTo(s, k + m), c)
    <3>1. ReadTo(s, k + (m + 1)) = Read(ReadTo(s, k + ((m + 1) - 1)), t[m + 1])
      BY <2>1, ReadNext
    <3>. QED BY <2>1, <2>3, <3>1, Zenon
  <2>5. c # "\""
    BY <2>1, <2>3 DEF NoStop
  <2>6. Quoted(s, k, t, w, d, m)
    BY <1>2, <2>1
  <2>7. PICK v \in Seq(Char) : v = w \o SubSeq(t, 1, m)
    BY <2>2
  <2>8. CASE ReadTo(s, k + m) = Reading("double", v, d)
    <3>1. CASE c = "\\"
      <4>1. Read(Reading("double", v, d), c) = Reading("double\\", v, d)
        BY <3>1 DEF Read, Reading
      <4>2. ReadTo(s, k + (m + 1)) = Reading("double\\", w \o SubSeq(t, 1, (m + 1) - 1), d)
        BY <2>1, <2>4, <2>7, <2>8, <4>1, Zenon
      <4>3. m + 1 >= 1
        OBVIOUS
      <4>. QED BY <2>3, <3>1, <4>2, <4>3, Zenon DEF Quoted
    <3>2. CASE c # "\\"
      <4>1. Read(Reading("double", v, d), c) = Reading("double", Append(v, c), d)
        BY <2>5, <3>2 DEF Read, Reading
      <4>. QED BY <2>2, <2>3, <2>4, <2>7, <2>8, <4>1, Zenon DEF Quoted
    <3>. QED BY <3>1, <3>2
  <2>9. CASE m >= 1 /\ t[m] = "\\" /\ ReadTo(s, k + m) = Reading("double\\", w \o SubSeq(t, 1, m - 1), d)
    <3>1. c \notin DoubleEscape
      <4>1. m \in 1..n
        BY <1>0, <2>1, <2>9
      <4>2. NoStop(t, m)
        BY <4>1
      <4>. QED BY <2>1, <2>3, <2>9, <4>2 DEF NoStop
    <3>2. PICK j \in Nat : m = j + 1 /\ m - 1 = j /\ j < Len(t)
      BY <1>0, <2>1, <2>9
    <3>3. /\ w \o SubSeq(t, 1, j) \in Seq(Char)
          /\ w \o SubSeq(t, 1, m) = Append(w \o SubSeq(t, 1, j), t[m])
      BY <1>0, <3>2, PieceGrows
    <3>4. PICK u \in Seq(Char), e \in Char : u = w \o SubSeq(t, 1, j) /\ e = "\\"
      BY <3>3 DEF Char
    <3>5. Read(Reading("double\\", u, d), c) = Reading("double", u \o <<"\\", c>>, d)
      BY <3>1 DEF Read, Reading, DoubleEscape
    <3>6. u \o <<e, c>> = Append(Append(u, e), c)
      BY AppendTwo
    <3>7. ReadTo(s, k + m) = Reading("double\\", u, d)
      BY <2>9, <3>2, <3>4, Zenon
    <3>8. Append(v, c) = u \o <<e, c>>
      BY <2>7, <2>9, <3>3, <3>4, <3>6, Zenon
    <3>9. ReadTo(s, k + (m + 1)) = Reading("double", Append(v, c), d)
      BY <2>4, <3>4, <3>5, <3>7, <3>8, Zenon
    <3>. QED BY <2>2, <2>3, <2>7, <3>9, Zenon DEF Quoted
  <2>. QED BY <2>6, <2>7, <2>8, <2>9, Zenon DEF Quoted
<1>3. Nat \subseteq N
  <2>. HIDE DEF N
  <2>. QED BY <1>1, <1>2, NatInSet
<1>4. n \in Nat
  BY <1>0
<1>. QED BY <1>3, <1>4

(***************************************************************************)
(* The invariant.                                                          *)
(***************************************************************************)
Labels == {"words", "raw", "escape", "single", "double", "end"}

\* A word comes that is not yet begun.
WordAhead(t) ==
    t # <<>> /\ t[1] \notin Blank /\ (t[1] = "\\" => Len(t) > 1 /\ t[2] # "nl")

\* What label, input, word and words say of the reader r.
Agrees(l, t, w, ws, r) ==
    /\ l = "words" =>
         /\ w = <<>>
         /\ \/ r = Reading("out", <<>>, ws)
            \/ t = <<>> /\ \E v, d : r = Reading("word", v, d) /\ ws = Append(d, v)
    /\ l = "raw" =>
         \/ r = Reading("word", w, ws)
         \/ r = Reading("out", w, ws) /\ w = <<>> /\ WordAhead(t)
    /\ l = "escape" =>
         \/ r = Reading("word\\", w, ws)
         \/ r = Reading("out\\", w, ws) /\ w = <<>> /\ t # <<>> /\ t[1] # "nl"
    /\ l = "single" => r = Reading("single", w, ws)
    /\ l = "double" => r = Reading("double", w, ws)

Consumed == Len(command) - Len(input)

SplitInv ==
    /\ label \in Labels /\ word \in Seq(Char) /\ words \in Seq(Seq(Char))
    /\ Rest(command, Consumed, input)
    /\ label # "end" => err = "none" /\ Agrees(label, input, word, words, ReadTo(command, Consumed))
    /\ SplitAsShell

LEMMA SplitStart == SplitInit => SplitInv
<1>. SUFFICES ASSUME SplitInit PROVE SplitInv
  OBVIOUS
<1>1. command \in Seq(Char) /\ input = command /\ Len(command) \in Nat
  BY LenProperties DEF SplitInit
<1>2. Consumed = 0 /\ Rest(command, 0, input)
  BY <1>1 DEF Consumed, Rest
<1>3. ReadTo(command, 0) = NotBegun
  BY <1>1, ReadOn
<1>4. Agrees("words", input, <<>>, <<>>, NotBegun)
  BY DEF Agrees, NotBegun
<1>5. label = "words" /\ word = <<>> /\ words = <<>> /\ err = "none"
  BY DEF SplitInit
<1>6. label \in Labels /\ word \in Seq(Char) /\ words \in Seq(Seq(Char)) /\ label # "end"
  BY <1>5 DEF Labels
<1>. QED BY <1>2, <1>3, <1>4, <1>5, <1>6, Zenon DEF SplitInv, SplitAsShell

\* n characters have been consumed,
LEMMA Moved ==
  ASSUME SplitInv, label # "end", NEW n \in 0..Len(input), input' = Drop(input, n), command' = command,
         label' \in Labels \ {"end"}, word' \in Seq(Char), words' \in Seq(Seq(Char)), err' = err,
         Agrees(label', input', word', words', ReadTo(command, Consumed + n))
  PROVE  SplitInv'
<1>1. Rest(command, Consumed, input)
  BY DEF SplitInv
<1>2. Rest(command', Consumed + n, input')
  BY <1>1, RestDropped
<1>3. Consumed' = Consumed + n
  <2>1. /\ Len(command') = (Consumed + n) + Len(input') /\ Consumed + n \in Nat
        /\ Len(input') \in Nat /\ Len(command') \in Nat
    BY <1>2, LenProperties DEF Rest
  <2>2. PICK c, a, b : c = Len(command') /\ a = Len(input') /\ b = Consumed + n
    OBVIOUS
  <2>3. c - a = b
    BY <2>1, <2>2
  <2>4. Consumed' = c - a
    BY <2>2, Zenon DEF Consumed
  <2>. QED BY <2>2, <2>3, <2>4
<1>4. err' = "none" /\ label' \in Labels /\ label' # "end"
  BY DEF SplitInv
<1>. QED BY <1>2, <1>3, <1>4, Zenon DEF SplitInv, SplitAsShell

\* or QuoteSplit ends.
LEMMA Ended ==
  ASSUME SplitInv, label' = "end", UNCHANGED <<command, input, word, words>>,
         <<words, err'>> = Shell(command)
  PROVE  SplitInv'
BY Zenon DEF SplitInv, SplitAsShell, Consumed, Labels

\* Where it is: the reader, what is left of the input, and what is in it.
LEMMA At ==
  ASSUME SplitInv
  PROVE  /\ command \in Seq(Char) /\ input \in Seq(Char) /\ Len(input) \in Nat /\ Consumed \in Nat
         /\ Rest(command, Consumed, input) /\ Len(command) = Consumed + Len(input)
         /\ ReadTo(command, Consumed) \in Readers
         /\ \A i \in 1..Len(input) : input[i] \in Char
<1>1. /\ command \in Seq(Char) /\ input \in Seq(Char) /\ Rest(command, Consumed, input)
      /\ Consumed \in Nat /\ Len(command) = Consumed + Len(input)
  BY DEF SplitInv, Rest
<1>2. Len(input) \in Nat
  BY <1>1, LenProperties
<1>3. Consumed \in 0..Len(command)
  BY <1>1, <1>2
<1>. QED BY <1>1, <1>2, <1>3, ReadToTyped, ElementOfSeq

\* Nothing is left.
LEMMA AllRead ==
  ASSUME SplitInv, input = <<>>
  PROVE  Shell(command) = AtEnd(ReadTo(command, Consumed))
<1>1. Len(input) = 0 /\ Len(command) = Consumed
  BY At
<1>. QED BY <1>1, At, ShellReads

\* One character more.
LEMMA First ==
  ASSUME SplitInv, input # <<>>
  PROVE  /\ 1 \in 0..Len(input) /\ Tail(input) = Drop(input, 1) /\ Head(input) = input[1]
         /\ input[1] \in Char /\ Len(Drop(input, 1)) = Len(input) - 1
         /\ ReadTo(command, Consumed + 1) = Read(ReadTo(command, Consumed), input[1])
<1>1. /\ Rest(command, Consumed, input) /\ input \in Seq(Char) /\ Len(input) \in Nat /\ Consumed \in Nat
      /\ \A i \in 1..Len(input) : input[i] \in Char
  BY At
<1>2. Head(input) = input[1] /\ Len(input) \in Nat \ {0} /\ Len(Tail(input)) = Len(input) - 1
  BY <1>1, RestTail
<1>3. Tail(input) = Drop(input, 1)
  <2>1. Tail(input) = SubSeq(input, 2, Len(input))
    BY <1>1, TailIsSubSeq
  <2>. QED BY <2>1 DEF Drop
<1>4. ReadTo(command, Consumed + 1) = Read(ReadTo(command, Consumed), input[1])
  <2>1. 1 \in 1..Len(input) /\ Consumed + (1 - 1) = Consumed
    BY <1>1, <1>2
  <2>2. ReadTo(command, Consumed + 1) = Read(ReadTo(command, Consumed + (1 - 1)), input[1])
    BY <1>1, <2>1, ReadNext
  <2>. QED BY <2>1, <2>2, Zenon
<1>5. 1 \in 0..Len(input) /\ input[1] \in Char
  BY <1>1, <1>2
<1>. QED BY <1>2, <1>3, <1>4, <1>5, Zenon

\* Nothing added is nothing changed.
LEMMA AddNothing == \A w \in Seq(Char) : w \o <<>> = w
BY ConcatEmptySeq

\* Between words, with something left, nothing is open.
LEMMA NothingOpen ==
  ASSUME SplitInv, label = "words", input # <<>>
  PROVE  word = <<>> /\ err = "none" /\ ReadTo(command, Consumed) = Reading("out", <<>>, words)
BY DEF SplitInv, Agrees

\* The steps between words.
LEMMA SkipBlankStep == SplitInv /\ SkipBlank => SplitInv'
<1>. SUFFICES ASSUME SplitInv, SkipBlank PROVE SplitInv'
  OBVIOUS
<1>1. /\ label = "words" /\ input # <<>> /\ Head(input) \in Blank
      /\ input' = Tail(input) /\ label' = "words" /\ word' = word \o <<>>
      /\ command' = command /\ words' = words /\ err' = err
  BY DEF SkipBlank, GoOn
<1>2. word \in Seq(Char) /\ words \in Seq(Seq(Char)) /\ word' = word
  BY <1>1, AddNothing DEF SplitInv
<1>3. Read(Reading("out", <<>>, words), Head(input)) = Reading("out", <<>>, words)
  BY <1>1 DEF Read, Reading, Blank
<1>4. Agrees(label', input', word', words', ReadTo(command, Consumed + 1))
  BY <1>1, <1>2, <1>3, First, NothingOpen DEF Agrees
<1>. QED BY <1>1, <1>2, <1>4, First, Moved DEF Labels

LEMMA SkipEscapedNewlineStep == SplitInv /\ SkipEscapedNewline => SplitInv'
<1>. SUFFICES ASSUME SplitInv, SkipEscapedNewline PROVE SplitInv'
  OBVIOUS
<1>1. /\ label = "words" /\ input # <<>> /\ Head(input) = "\\" /\ Len(input) > 1 /\ input[2] = "nl"
      /\ input' = Drop(input, 2) /\ label' = "words" /\ word' = word \o <<>>
      /\ command' = command /\ words' = words /\ err' = err
  BY DEF SkipEscapedNewline, GoOn, EscapeAhead
<1>2. word \in Seq(Char) /\ words \in Seq(Seq(Char)) /\ word' = word
  BY <1>1, AddNothing DEF SplitInv
<1>3. Read(Read(Reading("out", <<>>, words), "\\"), "nl") = Reading("out", <<>>, words)
  BY DEF Read, Reading, Blank
<1>4. ReadTo(command, Consumed + 2) = Read(ReadTo(command, Consumed + 1), input[2])
  <2>1. /\ Rest(command, Consumed, input) /\ 2 \in 1..Len(input)
        /\ Consumed + (2 - 1) = Consumed + 1
    BY <1>1, At
  <2>2. ReadTo(command, Consumed + 2) = Read(ReadTo(command, Consumed + (2 - 1)), input[2])
    BY <2>1, ReadNext
  <2>. QED BY <2>1, <2>2, Zenon
<1>5. ReadTo(command, Consumed + 2) = Reading("out", <<>>, words)
  BY <1>1, <1>3, <1>4, First, NothingOpen, Zenon
<1>6. Agrees(label', input', word', words', ReadTo(command, Consumed + 2))
  BY <1>1, <1>2, <1>5, NothingOpen DEF Agrees
<1>7. 2 \in 0..Len(input)
  BY <1>1, At
<1>. QED BY <1>1, <1>2, <1>6, <1>7, Moved DEF Labels

LEMMA NothingEscapedStep == SplitInv /\ NothingEscaped => SplitInv'
<1>. SUFFICES ASSUME SplitInv, NothingEscaped PROVE SplitInv'
  OBVIOUS
<1>1. /\ label = "words" /\ input # <<>> /\ Head(input) = "\\" /\ Len(input) = 1
      /\ err' = "escape" /\ label' = "end" /\ UNCHANGED <<command, input, word, words>>
  BY DEF NothingEscaped, Fail, EscapeAhead
<1>2. AtEnd(Read(Reading("out", <<>>, words), "\\")) = <<words, "escape">>
  BY DEF AtEnd, Read, Reading, Blank
<1>3. Shell(command) = AtEnd(ReadTo(command, Consumed + 1))
  BY <1>1, At, ShellReads
<1>4. Shell(command) = <<words, err'>>
  BY <1>1, <1>2, <1>3, First, NothingOpen, Zenon
<1>. QED BY <1>1, <1>4, Ended

LEMMA BeginWordStep == SplitInv /\ BeginWord => SplitInv'
<1>. SUFFICES ASSUME SplitInv, BeginWord PROVE SplitInv'
  OBVIOUS
<1>1. /\ label = "words" /\ input # <<>> /\ Head(input) \notin Blank
      /\ Head(input) = "\\" => Len(input) > 1 /\ input[2] # "nl"
      /\ input' = input /\ label' = "raw" /\ word' = word \o <<>>
      /\ command' = command /\ words' = words /\ err' = err
  BY DEF BeginWord, GoOn, EscapeAhead
<1>2. word \in Seq(Char) /\ words \in Seq(Seq(Char)) /\ word' = word
  BY <1>1, AddNothing DEF SplitInv
<1>3. 0 \in 0..Len(input) /\ Consumed + 0 = Consumed /\ Drop(input, 0) = input
  <2>1. Drop(input, 0) = SubSeq(input, 1, Len(input))
    BY DEF Drop
  <2>. QED BY <2>1, At, SubSeqFull
<1>4. Agrees(label', input', word', words', ReadTo(command, Consumed + 0))
  <2>1. WordAhead(input')
    BY <1>1, First DEF WordAhead
  <2>. QED BY <1>1, <1>2, <1>3, <2>1, NothingOpen DEF Agrees
<1>. QED BY <1>1, <1>2, <1>3, <1>4, Moved DEF Labels

LEMMA SplitEndsStep == SplitInv /\ SplitEnds => SplitInv'
<1>. SUFFICES ASSUME SplitInv, SplitEnds PROVE SplitInv'
  OBVIOUS
<1>1. /\ label = "words" /\ input = <<>> /\ label' = "end"
      /\ UNCHANGED <<command, input, word, words, err>>
  BY DEF SplitEnds
<1>2. /\ err = "none"
      /\ \/ ReadTo(command, Consumed) = Reading("out", <<>>, words)
         \/ \E v, d : ReadTo(command, Consumed) = Reading("word", v, d) /\ words = Append(d, v)
  BY <1>1 DEF SplitInv, Agrees
<1>3. AtEnd(ReadTo(command, Consumed)) = <<words, "none">>
  BY <1>2, Endings, Zenon
<1>. QED BY <1>1, <1>2, <1>3, AllRead, Ended

\* What opens a quote or an escape.
LEMMA Openings ==
  \A w, d : /\ Read(Reading("out", w, d), "'") = Reading("single", w, d)
            /\ Read(Reading("word", w, d), "'") = Reading("single", w, d)
            /\ Read(Reading("out", w, d), "\"") = Reading("double", w, d)
            /\ Read(Reading("word", w, d), "\"") = Reading("double", w, d)
            /\ Read(Reading("out", w, d), "\\") = Reading("out\\", w, d)
            /\ Read(Reading("word", w, d), "\\") = Reading("word\\", w, d)
<1>. TAKE w, d
<1>1. Read(Reading("out", w, d), "'") = Reading("single", w, d)
  BY DEF Read, Reading, Blank
<1>2. Read(Reading("word", w, d), "'") = Reading("single", w, d)
  BY DEF Read, Reading, Blank
<1>3. Read(Reading("out", w, d), "\"") = Reading("double", w, d)
  BY DEF Read, Reading, Blank
<1>4. Read(Reading("word", w, d), "\"") = Reading("double", w, d)
  BY DEF Read, Reading, Blank
<1>5. Read(Reading("out", w, d), "\\") = Reading("out\\", w, d)
  BY DEF Read, Reading, Blank
<1>6. Read(Reading("word", w, d), "\\") = Reading("word\\", w, d)
  BY DEF Read, Reading, Blank
<1>. QED BY <1>1, <1>2, <1>3, <1>4, <1>5, <1>6

LEMMA Opened == Opens["'"] = "single" /\ Opens["\""] = "double" /\ Opens["\\"] = "escape"
BY DEF Opens

\* raw: a piece of letters, and what ends it.
LEMMA RawStep == SplitInv /\ Raw => SplitInv'
<1>. SUFFICES ASSUME SplitInv, Raw PROVE SplitInv'
  OBVIOUS
<1>. DEFINE i == Find(input, Special)
            piece == SubSeq(input, 1, i - 1)
<1>1. /\ label = "raw"
      /\ IF i = 0 THEN EndWord(<<>>, input)
         ELSE IF input[i] \in Blank THEN EndWord(Drop(input, i), piece)
         ELSE GoOn(Drop(input, i), Opens[input[i]], piece)
  BY Zenon DEF Raw
<1>2. /\ word \in Seq(Char) /\ words \in Seq(Seq(Char)) /\ err = "none"
      /\ Agrees("raw", input, word, words, ReadTo(command, Consumed))
  BY <1>1 DEF SplitInv
<1>3. PICK a \in {"out", "word"} :
         /\ ReadTo(command, Consumed) = Reading(a, word, words)
         /\ a = "out" => word = <<>> /\ WordAhead(input)
  BY <1>2 DEF Agrees
<1>4. \/ i = 0 /\ \A j \in 1..Len(input) : input[j] \notin Special
      \/ /\ i \in 1..Len(input) /\ input[i] \in Special
         /\ \A j \in 1..(i - 1) : input[j] \notin Special
  BY At, Found
<1>. HIDE DEF i
<1>5. CASE i = 0
  <2>1. /\ input' = <<>> /\ label' = "words" /\ word' = <<>> /\ words' = Append(words, word \o input)
        /\ command' = command /\ err' = err
    BY <1>1, <1>5 DEF EndWord
  <2>2. PICK n \in Nat : n = Len(input)
    BY At
  <2>3. ReadTo(command, Consumed + n) = Reading(IF n = 0 THEN a ELSE "word", word \o SubSeq(input, 1, n), words)
    <3>1. n \in 0..Len(input) /\ \A j \in 1..n : input[j] \notin Special
      BY <1>4, <1>5, <2>2
    <3>. QED BY <1>2, <1>3, <3>1, At, ReadLetters
  <2>4. SubSeq(input, 1, n) = input /\ Drop(input, n) = <<>>
    <3>1. SubSeq(input, n + 1, Len(input)) = <<>>
      BY <2>2, SubSeqEmpty
    <3>. QED BY <2>2, <3>1, At, SubSeqFull DEF Drop
  <2>5. n = 0 => a = "word"
    <3>1. n = 0 => input = <<>>
      BY <2>2, At, EmptySeq
    <3>. QED BY <1>3, <3>1 DEF WordAhead
  <2>6. ReadTo(command, Consumed + n) = Reading("word", word \o input, words)
    BY <2>3, <2>4, <2>5, Zenon
  <2>7. Agrees(label', input', word', words', ReadTo(command, Consumed + n))
    BY <2>1, <2>6 DEF Agrees
  <2>8. word \o input \in Seq(Char) /\ words' \in Seq(Seq(Char)) /\ word' \in Seq(Char)
    <3>1. word \o input \in Seq(Char)
      BY <1>2, At, ConcatProperties
    <3>. QED BY <1>2, <2>1, <3>1, AppendProperties
  <2>. QED BY <1>1, <2>1, <2>2, <2>4, <2>7, <2>8, Moved DEF Labels
<1>6. CASE i \in 1..Len(input) /\ input[i] \in Special /\ \A j \in 1..(i - 1) : input[j] \notin Special
  <2>1. PICK n \in Nat : n + 1 = i /\ n = i - 1 /\ n \in 0..Len(input) /\ i \in 0..Len(input) /\ i # 0
    BY <1>6, At
  <2>2. ReadTo(command, Consumed + n) = Reading(IF n = 0 THEN a ELSE "word", word \o SubSeq(input, 1, n), words)
    <3>1. \A j \in 1..n : input[j] \notin Special
      BY <1>6, <2>1
    <3>2. Rest(command, Consumed, input)
      BY At
    <3>. QED BY <1>2, <1>3, <2>1, <3>1, <3>2, ReadLetters
  <2>b. PICK b \in {"out", "word"} : b = (IF n = 0 THEN a ELSE "word")
    BY <1>3
  <2>3. PICK w, c :
           /\ b = (IF n = 0 THEN a ELSE "word") /\ w = word \o SubSeq(input, 1, n) /\ c = input[i]
    BY <2>b
  <2>4. ReadTo(command, Consumed + i) = Read(Reading(b, w, words), c)
    <3>1. ReadTo(command, Consumed + i) = Read(ReadTo(command, Consumed + (i - 1)), input[i])
      BY <1>6, At, ReadNext
    <3>. QED BY <2>1, <2>2, <2>3, <3>1, Zenon
  <2>5. piece = SubSeq(input, 1, n) /\ w \in Seq(Char)
    <3>1. SubSeq(input, 1, n) \in Seq(Char)
      <4>1. \A j \in 1..n : input[j] \in Char
        BY <2>1, At
      <4>. QED BY <4>1, SubSeqProperties
    <3>2. w \in Seq(Char)
      BY <1>2, <2>3, <3>1, ConcatProperties
    <3>. QED BY <2>1, <3>2, Zenon
  <2>6. b = "out" => n = 0 /\ i = 1 /\ c \notin Blank /\ (c = "\\" => Len(input) > 1 /\ input[2] # "nl") /\ w = <<>>
    <3>1. b = "out" => n = 0 /\ a = "out" /\ i = 1
      BY <2>1, <2>3
    <3>2. SubSeq(input, 1, 0) = <<>>
      BY SubSeqEmpty
    <3>3. <<>> \o <<>> = <<>>
      BY ConcatEmptySeq
    <3>. QED BY <1>3, <2>3, <3>1, <3>2, <3>3 DEF WordAhead
  <2>. HIDE DEF piece
  <2>7. CASE c \in Blank
    <3>1. /\ input' = Drop(input, i) /\ label' = "words" /\ word' = <<>> /\ words' = Append(words, w)
          /\ command' = command /\ err' = err
      BY <1>1, <2>1, <2>3, <2>5, <2>7 DEF EndWord
    <3>2. b = "word"
      BY <2>6, <2>7
    <3>3. Read(Reading("word", w, words), c) = Reading("out", <<>>, Append(words, w))
      BY <2>7 DEF Read, Reading, Blank
    <3>4. Agrees(label', input', word', words', ReadTo(command, Consumed + i))
      BY <2>4, <3>1, <3>2, <3>3 DEF Agrees
    <3>5. words' \in Seq(Seq(Char)) /\ word' \in Seq(Char)
      BY <1>2, <2>5, <3>1, AppendProperties
    <3>. QED BY <1>1, <2>1, <3>1, <3>4, <3>5, Moved DEF Labels
  <2>8. CASE c \notin Blank
    <3>1. /\ input' = Drop(input, i) /\ label' = Opens[c] /\ word' = w
          /\ command' = command /\ words' = words /\ err' = err
      BY <1>1, <2>1, <2>3, <2>5, <2>8 DEF GoOn
    <3>2. c \in {"'", "\"", "\\"}
      BY <1>6, <2>3, <2>8 DEF Special
    <3>3. CASE c = "'"
      <4>1. label' = "single" /\ Read(Reading(b, w, words), c) = Reading("single", w, words)
        <5>1. Read(Reading(b, w, words), "'") = Reading("single", w, words)
          <6>1. CASE b = "out"
            BY <6>1, Openings, Zenon
          <6>2. CASE b = "word"
            BY <6>2, Openings, Zenon
          <6>. QED BY <6>1, <6>2, Zenon
        <5>. QED BY <3>1, <3>3, <5>1, Opened, Zenon
      <4>2. Agrees(label', input', word', words', ReadTo(command, Consumed + i))
        BY <2>4, <3>1, <4>1 DEF Agrees
      <4>. QED BY <1>1, <1>2, <2>1, <2>5, <3>1, <4>1, <4>2, Moved DEF Labels
    <3>4. CASE c = "\""
      <4>1. label' = "double" /\ Read(Reading(b, w, words), c) = Reading("double", w, words)
        <5>1. Read(Reading(b, w, words), "\"") = Reading("double", w, words)
          <6>1. CASE b = "out"
            BY <6>1, Openings, Zenon
          <6>2. CASE b = "word"
            BY <6>2, Openings, Zenon
          <6>. QED BY <6>1, <6>2, Zenon
        <5>. QED BY <3>1, <3>4, <5>1, Opened, Zenon
      <4>2. Agrees(label', input', word', words', ReadTo(command, Consumed + i))
        BY <2>4, <3>1, <4>1 DEF Agrees
      <4>. QED BY <1>1, <1>2, <2>1, <2>5, <3>1, <4>1, <4>2, Moved DEF Labels
    <3>5. CASE c = "\\"
      <4>1. label' = "escape"
        BY <3>1, <3>5, Opened
      <4>2. /\ b = "out" => Read(Reading(b, w, words), c) = Reading("out\\", w, words)
            /\ b = "word" => Read(Reading(b, w, words), c) = Reading("word\\", w, words)
        <5>1. ASSUME b = "out" PROVE Read(Reading(b, w, words), c) = Reading("out\\", w, words)
          BY <3>5, <5>1, Openings, Zenon
        <5>2. ASSUME b = "word" PROVE Read(Reading(b, w, words), c) = Reading("word\\", w, words)
          BY <3>5, <5>2, Openings, Zenon
        <5>. QED BY <5>1, <5>2, Zenon
      <4>3. b = "out" => input' # <<>> /\ input'[1] # "nl"
        <5>. SUFFICES ASSUME b = "out" PROVE input' # <<>> /\ input'[1] # "nl"
          OBVIOUS
        <5>1. i = 1 /\ Len(input) > 1 /\ input[2] # "nl"
          BY <2>6, <3>5
        <5>2. Rest(command, Consumed + 1, Drop(input, 1)) /\ Len(Drop(input, 1)) = Len(input) - 1
          <6>1. input # <<>>
            BY <5>1, At
          <6>. QED BY <6>1, At, First, RestDropped
        <5>3. Drop(input, 1)[1] = command[(Consumed + 1) + 1] /\ input[2] = command[Consumed + 2]
          BY <5>1, <5>2, At DEF Rest
        <5>4. (Consumed + 1) + 1 = Consumed + 2
          BY At
        <5>5. Drop(input, 1)[1] = input[2]
          BY <5>3, <5>4
        <5>6. Drop(input, 1) # <<>>
          BY <5>1, <5>2, At
        <5>. QED BY <3>1, <5>1, <5>5, <5>6
      <4>4. Agrees(label', input', word', words', ReadTo(command, Consumed + i))
        BY <2>4, <2>6, <3>1, <4>1, <4>2, <4>3 DEF Agrees
      <4>. QED BY <1>1, <1>2, <2>1, <2>5, <3>1, <4>1, <4>4, Moved DEF Labels
    <3>. QED BY <3>2, <3>3, <3>4, <3>5
  <2>. QED BY <2>7, <2>8
<1>. QED BY <1>4, <1>5, <1>6

\* What an escape makes of a character.
LEMMA Escaped ==
  \A w, d, c :
     /\ c # "nl" => /\ Read(Reading("word\\", w, d), c) = Reading("word", Append(w, c), d)
                    /\ Read(Reading("out\\", w, d), c) = Reading("word", Append(w, c), d)
     /\ Read(Reading("word\\", w, d), "nl") = Reading("word", w, d)
<1>. TAKE w, d, c
<1>1. ASSUME c # "nl" PROVE Read(Reading("word\\", w, d), c) = Reading("word", Append(w, c), d)
  BY <1>1 DEF Read, Reading
<1>2. ASSUME c # "nl" PROVE Read(Reading("out\\", w, d), c) = Reading("word", Append(w, c), d)
  BY <1>2 DEF Read, Reading
<1>3. Read(Reading("word\\", w, d), "nl") = Reading("word", w, d)
  BY DEF Read, Reading
<1>. QED BY <1>1, <1>2, <1>3

\* escape: one character as it is.
LEMMA EscapeStep == SplitInv /\ Escape => SplitInv'
<1>. SUFFICES ASSUME SplitInv, Escape PROVE SplitInv'
  OBVIOUS
<1>1. /\ label = "escape" /\ word \in Seq(Char) /\ words \in Seq(Seq(Char)) /\ err = "none"
      /\ Agrees("escape", input, word, words, ReadTo(command, Consumed))
  BY DEF SplitInv, Escape
<1>2. CASE input = <<>>
  <2>1. err' = "escape" /\ label' = "end" /\ UNCHANGED <<command, input, word, words>>
    BY <1>2 DEF Escape, Fail
  <2>2. ReadTo(command, Consumed) = Reading("word\\", word, words)
    BY <1>1, <1>2 DEF Agrees
  <2>3. AtEnd(Reading("word\\", word, words)) = <<words, "escape">>
    BY Endings
  <2>4. <<words, err'>> = Shell(command)
    BY <1>2, <2>1, <2>2, <2>3, AllRead, Zenon
  <2>. QED BY <2>1, <2>4, Ended
<1>3. CASE input # <<>>
  <2>1. PICK c \in Char : c = Head(input) /\ c = input[1]
    BY <1>3, First
  <2>2. /\ input' = Drop(input, 1) /\ label' = "raw" /\ word' = word \o (IF c = "nl" THEN <<>> ELSE <<c>>)
        /\ command' = command /\ words' = words /\ err' = err
    BY <1>3, <2>1, First DEF Escape, GoOn
  <2>3. ReadTo(command, Consumed + 1) = Read(ReadTo(command, Consumed), c)
    BY <1>3, <2>1, First, Zenon
  <2>4. Append(word, c) = word \o <<c>> /\ Append(word, c) \in Seq(Char) /\ word \o <<>> = word
    BY <1>1, AppendIsConcat, AppendProperties, AddNothing
  <2>5. word' = (IF c = "nl" THEN word ELSE Append(word, c)) /\ word' \in Seq(Char)
    BY <1>1, <2>2, <2>4
  <2>6. PICK r : r = ReadTo(command, Consumed)
    OBVIOUS
  <2>7. r = Reading("word\\", word, words) \/ (r = Reading("out\\", word, words) /\ c # "nl")
    BY <1>1, <2>1, <2>6 DEF Agrees
  <2>8. Read(r, c) = Reading("word", IF c = "nl" THEN word ELSE Append(word, c), words)
    <3>1. CASE c = "nl"
      BY <2>7, <3>1, Escaped, Zenon
    <3>2. CASE c # "nl"
      <4>1. CASE r = Reading("word\\", word, words)
        BY <3>2, <4>1, Escaped, Zenon
      <4>2. CASE r = Reading("out\\", word, words)
        BY <3>2, <4>2, Escaped, Zenon
      <4>. QED BY <2>7, <4>1, <4>2
    <3>. QED BY <3>1, <3>2, Zenon
  <2>9. Agrees(label', input', word', words', ReadTo(command, Consumed + 1))
    <3>1. ReadTo(command, Consumed + 1) = Reading("word", word', words')
      BY <2>2, <2>3, <2>5, <2>6, <2>8, Zenon
    <3>. QED BY <2>2, <3>1 DEF Agrees
  <2>. QED BY <1>1, <1>3, <2>2, <2>5, <2>9, First, Moved DEF Labels
<1>. QED BY <1>2, <1>3

\* A piece of the input.
LEMMA PieceTyped ==
  ASSUME SplitInv, NEW n \in 0..Len(input)
  PROVE  SubSeq(input, 1, n) \in Seq(Char) /\ word \o SubSeq(input, 1, n) \in Seq(Char)
<1>1. \A j \in 1..n : input[j] \in Char
  BY At
<1>2. n \in Nat
  BY At
<1>3. SubSeq(input, 1, n) \in Seq(Char)
  BY <1>1, <1>2, SubSeqProperties
<1>4. word \in Seq(Char)
  BY DEF SplitInv
<1>. QED BY <1>3, <1>4, ConcatProperties

\* The whole rest of the input.
LEMMA ReadWhole ==
  ASSUME SplitInv PROVE Shell(command) = AtEnd(ReadTo(command, Consumed + Len(input)))
<1>1. command \in Seq(Char) /\ Len(command) = Consumed + Len(input)
  BY At
<1>. QED BY <1>1, ShellReads

LEMMA SingleEnds == \A w, d : Read(Reading("single", w, d), "'") = Reading("word", w, d)
BY DEF Read, Reading, Blank

\* single: up to the other quote.
LEMMA SingleStep == SplitInv /\ Single => SplitInv'
<1>. SUFFICES ASSUME SplitInv, Single PROVE SplitInv'
  OBVIOUS
<1>. DEFINE i == Find(input, {"'"})
<1>1. /\ label = "single"
      /\ IF i = 0 THEN Fail("single") ELSE GoOn(Drop(input, i), "raw", SubSeq(input, 1, i - 1))
  BY Zenon DEF Single
<1>2. /\ word \in Seq(Char) /\ words \in Seq(Seq(Char)) /\ err = "none"
      /\ ReadTo(command, Consumed) = Reading("single", word, words)
  BY <1>1 DEF SplitInv, Agrees
<1>3. \/ i = 0 /\ \A j \in 1..Len(input) : input[j] \notin {"'"}
      \/ /\ i \in 1..Len(input) /\ input[i] \in {"'"}
         /\ \A j \in 1..(i - 1) : input[j] \notin {"'"}
  BY At, Found, Zenon
<1>4. Rest(command, Consumed, input) /\ Len(input) \in Nat /\ Consumed \in Nat
  BY At
<1>. HIDE DEF i
<1>5. CASE i = 0
  <2>1. err' = "single" /\ label' = "end" /\ UNCHANGED <<command, input, word, words>>
    BY <1>1, <1>5 DEF Fail
  <2>2. PICK n \in 0..Len(input) : n = Len(input) /\ NoneOf(input, n, {"'"})
    BY <1>3, <1>4, <1>5 DEF NoneOf
  <2>3. ReadTo(command, Consumed + n) = Reading("single", word \o SubSeq(input, 1, n), words)
    <3>1. HasRead(command, Consumed, input, n, word, words, "single", "single")
      BY <1>2, <1>4, <2>2, ReadSingle
    <3>. QED BY <3>1, Zenon DEF HasRead
  <2>4. AtEnd(Reading("single", word \o SubSeq(input, 1, n), words)) = <<words, "single">>
    BY Endings
  <2>5. <<words, err'>> = Shell(command)
    BY <2>1, <2>2, <2>3, <2>4, ReadWhole, Zenon
  <2>. QED BY <2>1, <2>5, Ended
<1>6. CASE i \in 1..Len(input) /\ input[i] \in {"'"} /\ \A j \in 1..(i - 1) : input[j] \notin {"'"}
  <2>1. PICK n \in 0..Len(input) : /\ n = i - 1 /\ i # 0 /\ i \in 0..Len(input)
                                  /\ NoneOf(input, n, {"'"})
    BY <1>4, <1>6 DEF NoneOf
  <2>2. ReadTo(command, Consumed + n) = Reading("single", word \o SubSeq(input, 1, n), words)
    <3>1. HasRead(command, Consumed, input, n, word, words, "single", "single")
      BY <1>2, <1>4, <2>1, ReadSingle
    <3>. QED BY <3>1, Zenon DEF HasRead
  <2>3. ReadTo(command, Consumed + i) = Reading("word", word \o SubSeq(input, 1, n), words)
    <3>1. ReadTo(command, Consumed + i) = Read(ReadTo(command, Consumed + (i - 1)), input[i])
      BY <1>4, <1>6, ReadNext
    <3>2. input[i] = "'"
      BY <1>6
    <3>. QED BY <2>1, <2>2, <3>1, <3>2, SingleEnds, Zenon
  <2>4. /\ input' = Drop(input, i) /\ label' = "raw" /\ word' = word \o SubSeq(input, 1, n)
        /\ command' = command /\ words' = words /\ err' = err
    BY <1>1, <2>1 DEF GoOn
  <2>5. Agrees(label', input', word', words', ReadTo(command, Consumed + i))
    BY <2>3, <2>4 DEF Agrees
  <2>6. word' \in Seq(Char)
    BY <2>1, <2>4, PieceTyped
  <2>. QED BY <1>1, <1>2, <2>1, <2>4, <2>5, <2>6, Moved DEF Labels
<1>. QED BY <1>3, <1>5, <1>6

\* What ends a quoted piece.
LEMMA DoubleStops ==
  \A w, d, c : /\ Read(Reading("double", w, d), "\"") = Reading("word", w, d)
               /\ Read(Reading("double", w, d), "\\") = Reading("double\\", w, d)
               /\ Read(Reading("double\\", w, d), "nl") = Reading("double", w, d)
               /\ c \in {"\"", "\\"} => Read(Reading("double\\", w, d), c) = Reading("double", Append(w, c), d)
<1>. TAKE w, d, c
<1>1. Read(Reading("double", w, d), "\"") = Reading("word", w, d)
  BY DEF Read, Reading, Blank
<1>2. Read(Reading("double", w, d), "\\") = Reading("double\\", w, d)
  BY DEF Read, Reading, Blank
<1>3. Read(Reading("double\\", w, d), "nl") = Reading("double", w, d)
  BY DEF Read, Reading, DoubleEscape
<1>4. ASSUME c \in {"\"", "\\"} PROVE Read(Reading("double\\", w, d), c) = Reading("double", Append(w, c), d)
  BY <1>4 DEF Read, Reading, DoubleEscape
<1>. QED BY <1>1, <1>2, <1>3, <1>4

NoStops(n) == \A i \in 1..n : NoStop(input, i)

\* A place that is no stop.
LEMMA IsNoStop ==
  ASSUME NEW i \in 1..Len(input), input \in Seq(Char), i \notin Stops PROVE NoStop(input, i)
<1>1. DOMAIN input = 1..Len(input)
  OBVIOUS
<1>. QED BY <1>1 DEF Stops, NoStop

LEMMA IsStop ==
  ASSUME NEW i \in Stops, input \in Seq(Char)
  PROVE  /\ i \in 1..Len(input)
         /\ input[i] = "\"" \/ (input[i] = "\\" /\ i < Len(input) /\ input[i + 1] \in DoubleEscape)
<1>1. DOMAIN input = 1..Len(input)
  OBVIOUS
<1>. QED BY <1>1 DEF Stops

\* double, when nothing ends the quote,
LEMMA DoubleOpenStep ==
  ASSUME SplitInv, Double, Stops = {} PROVE SplitInv'
<1>1. /\ label = "double" /\ err' = "double" /\ label' = "end" /\ UNCHANGED <<command, input, word, words>>
  BY DEF Double, Fail
<1>2. /\ word \in Seq(Char) /\ words \in Seq(Seq(Char))
      /\ ReadTo(command, Consumed) = Reading("double", word, words)
  BY <1>1 DEF SplitInv, Agrees
<1>3. PICK n \in 0..Len(input) : n = Len(input)
  BY At
<1>4. NoStops(n)
  BY <1>3, At, IsNoStop DEF NoStops
<1>5. Quoted(command, Consumed, input, word, words, n)
  BY <1>2, <1>4, At, ReadDouble DEF NoStops
<1>6. AtEnd(ReadTo(command, Consumed + n)) = <<words, "double">>
  <2>1. CASE ReadTo(command, Consumed + n) = Reading("double", word \o SubSeq(input, 1, n), words)
    BY <2>1, Endings, Zenon
  <2>2. CASE ReadTo(command, Consumed + n) = Reading("double\\", word \o SubSeq(input, 1, n - 1), words)
    <3>1. AtEnd(Reading("double\\", word \o SubSeq(input, 1, n - 1), words)) = <<words, "double">>
      BY Endings
    <3>. QED BY <2>2, <3>1, Zenon
  <2>. QED BY <1>5, <2>1, <2>2, Zenon DEF Quoted
<1>7. <<words, err'>> = Shell(command)
  BY <1>1, <1>3, <1>6, ReadWhole, Zenon
<1>. QED BY <1>1, <1>7, Ended

\* and when something ends the piece.
LEMMA DoubleStopStep ==
  ASSUME SplitInv, Double, Stops # {} PROVE SplitInv'
<1>i. PICK i : i = Min(Stops)
  OBVIOUS
<1>p. PICK piece : piece = SubSeq(input, 1, i - 1)
  OBVIOUS
<1>0. Rest(command, Consumed, input) /\ Len(input) \in Nat /\ Consumed \in Nat /\ input \in Seq(Char)
  BY At
<1>1. /\ label = "double"
      /\ IF input[i] = "\"" THEN GoOn(Drop(input, i), "raw", piece)
         ELSE GoOn(Drop(input, i + 1), "double",
                   IF input[i + 1] = "nl" THEN piece ELSE Append(piece, input[i + 1]))
  BY <1>i, <1>p, Zenon DEF Double
<1>2. /\ word \in Seq(Char) /\ words \in Seq(Seq(Char))
      /\ ReadTo(command, Consumed) = Reading("double", word, words)
  BY <1>1 DEF SplitInv, Agrees
<1>3. i \in Stops /\ \A j \in Stops : i <= j
  <2>1. \A j \in Stops : j \in Nat
    <3>. SUFFICES ASSUME NEW j \in Stops PROVE j \in Nat
      OBVIOUS
    <3>1. j \in 1..Len(input)
      BY <1>0, IsStop
    <3>. QED BY <1>0, <3>1
  <2>2. Stops \in SUBSET Nat
    BY <2>1
  <2>. QED BY <1>i, <2>2, LeastIn, Zenon
<1>4. /\ i \in 1..Len(input)
      /\ input[i] = "\"" \/ (input[i] = "\\" /\ i < Len(input) /\ input[i + 1] \in DoubleEscape)
  BY <1>0, <1>3, IsStop
<1>5. PICK n \in 0..Len(input) : n = i - 1 /\ i = n + 1 /\ i \in 0..Len(input) /\ i # 0
  <2>1. i \in 1..Len(input) /\ Len(input) \in Nat
    BY <1>0, <1>4
  <2>2. i - 1 \in 0..Len(input) /\ i = (i - 1) + 1 /\ i \in 0..Len(input) /\ i # 0
    BY <2>1
  <2>. QED BY <2>2
<1>6. NoStops(n)
  <2>. SUFFICES ASSUME NEW j \in 1..n PROVE NoStop(input, j)
    BY DEF NoStops
  <2>1. j \in 1..Len(input) /\ j < i
    BY <1>0, <1>5
  <2>2. ~(i <= j)
    <3>1. i \in Nat /\ j \in Nat
      BY <1>0, <1>5
    <3>. QED BY <2>1, <3>1
  <2>3. j \notin Stops
    BY <1>3, <2>2, Zenon
  <2>. QED BY <1>0, <2>1, <2>3, IsNoStop
<1>7. ReadTo(command, Consumed + n) = Reading("double", word \o SubSeq(input, 1, n), words)
  <2>1. Quoted(command, Consumed, input, word, words, n)
    BY <1>0, <1>2, <1>6, ReadDouble DEF NoStops
  <2>2. ~(n >= 1 /\ input[n] = "\\")
    <3>. SUFFICES ASSUME n >= 1, input[n] = "\\" PROVE FALSE
      OBVIOUS
    <3>1. NoStop(input, n) /\ n < Len(input)
      BY <1>0, <1>5, <1>6 DEF NoStops
    <3>2. input[i] \notin DoubleEscape
      BY <1>5, <3>1 DEF NoStop
    <3>. QED BY <1>4, <3>2 DEF DoubleEscape
  <2>. QED BY <2>1, <2>2, Zenon DEF Quoted
<1>8. PICK w \in Seq(Char) : w = word \o SubSeq(input, 1, n) /\ w = word \o piece
  <2>1. piece = SubSeq(input, 1, n)
    BY <1>p, <1>5, Zenon
  <2>2. word \o SubSeq(input, 1, n) \in Seq(Char)
    BY PieceTyped
  <2>. QED BY <2>1, <2>2, Zenon
<1>9. ReadTo(command, Consumed + i) = Read(Reading("double", w, words), input[i])
  <2>1. ReadTo(command, Consumed + i) = Read(ReadTo(command, Consumed + (i - 1)), input[i])
    <3>1. i \in 1..Len(input)
      BY <1>4
    <3>. QED BY <1>0, <3>1, ReadNext
  <2>. QED BY <1>5, <1>7, <1>8, <2>1, Zenon
<1>10. SubSeq(input, 1, n) \in Seq(Char) /\ piece = SubSeq(input, 1, n)
  <2>1. SubSeq(input, 1, n) \in Seq(Char)
    BY PieceTyped
  <2>. QED BY <1>p, <1>5, <2>1, Zenon
<1>11. CASE input[i] = "\""
  <2>1. /\ input' = Drop(input, i) /\ label' = "raw" /\ word' = w
        /\ command' = command /\ words' = words /\ err' = err
    BY <1>1, <1>8, <1>11 DEF GoOn
  <2>2. ReadTo(command, Consumed + i) = Reading("word", w, words)
    BY <1>9, <1>11, DoubleStops, Zenon
  <2>3. Agrees(label', input', word', words', ReadTo(command, Consumed + i))
    BY <2>1, <2>2 DEF Agrees
  <2>. QED BY <1>1, <1>2, <1>5, <2>1, <2>3, Moved DEF Labels
<1>12. CASE input[i] = "\\" /\ i < Len(input) /\ input[i + 1] \in DoubleEscape
  <2>1. PICK c \in Char : c = input[i + 1] /\ i + 1 \in 1..Len(input) /\ i + 1 \in 0..Len(input)
    BY <1>0, <1>4, <1>12, At
  <2>2. /\ input' = Drop(input, i + 1) /\ label' = "double"
        /\ word' = word \o (IF c = "nl" THEN piece ELSE Append(piece, c))
        /\ command' = command /\ words' = words /\ err' = err
    BY <1>1, <1>12, <2>1 DEF GoOn
  <2>3. ReadTo(command, Consumed + (i + 1)) = Read(Reading("double\\", w, words), c)
    <3>1. ReadTo(command, Consumed + (i + 1)) = Read(ReadTo(command, Consumed + ((i + 1) - 1)), input[i + 1])
      BY <1>0, <2>1, ReadNext
    <3>2. (i + 1) - 1 = i
      BY <1>5
    <3>3. ReadTo(command, Consumed + i) = Reading("double\\", w, words)
      BY <1>9, <1>12, DoubleStops, Zenon
    <3>. QED BY <2>1, <3>1, <3>2, <3>3, Zenon
  <2>4. word \o Append(piece, c) = Append(w, c) /\ Append(w, c) \in Seq(Char)
    <3>1. PICK q \in Seq(Char) : q = piece
      BY <1>10
    <3>2. <<c>> \in Seq(Char) /\ Append(q, c) = q \o <<c>> /\ Append(w, c) = w \o <<c>>
      BY AppendIsConcat
    <3>3. Associates(word, q, <<c>>)
      BY <1>2, <3>2, ConcatThree
    <3>4. word \o Append(q, c) = Append(w, c)
      BY <1>8, <3>1, <3>2, <3>3, Zenon DEF Associates
    <3>. QED BY <3>1, <3>4, AppendProperties
  <2>5. ReadTo(command, Consumed + (i + 1)) = Reading("double", word', words) /\ word' \in Seq(Char)
    <3>1. CASE c = "nl"
      <4>1. word' = w
        BY <1>8, <2>2, <3>1
      <4>. QED BY <2>3, <3>1, <4>1, DoubleStops, Zenon
    <3>2. CASE c # "nl"
      <4>1. word' = Append(w, c)
        BY <2>2, <2>4, <3>2
      <4>2. c \in {"\"", "\\"}
        BY <1>12, <2>1, <3>2 DEF DoubleEscape
      <4>. QED BY <2>3, <2>4, <4>1, <4>2, DoubleStops, Zenon
    <3>. QED BY <3>1, <3>2
  <2>6. Agrees(label', input', word', words', ReadTo(command, Consumed + (i + 1)))
    BY <2>2, <2>5 DEF Agrees
  <2>. QED BY <1>1, <1>2, <2>1, <2>2, <2>5, <2>6, Moved DEF Labels
<1>. QED BY <1>4, <1>11, <1>12

LEMMA SplitKept == SplitInv /\ UNCHANGED splitVars => SplitInv'
BY Zenon DEF SplitInv, splitVars, SplitAsShell, Consumed

LEMMA SplitStep == SplitInv /\ [CommandNext]_commandVars => SplitInv'
<1>. SUFFICES ASSUME SplitInv, [CommandNext]_commandVars PROVE SplitInv'
  OBVIOUS
<1>1. SplitNext \/ UNCHANGED splitVars
  BY DEF CommandNext, commandVars, RunWords, ProcessExits, ChildExits, WaitProcess, WaitOutput, Fork,
         TakeResult, TimeOut, KillGroup, TakeLateResult
<1>2. CASE SplitNext
  BY <1>2, SkipBlankStep, SkipEscapedNewlineStep, NothingEscapedStep, BeginWordStep, SplitEndsStep,
     RawStep, EscapeStep, SingleStep, DoubleOpenStep, DoubleStopStep, Zenon DEF SplitNext
<1>. QED BY <1>1, <1>2, SplitKept

\* For every command, of any length, the words and the error are those that /bin/sh gives
\* it, and what runs ends whole or not at all (shellquote.go:25-160,
\* cmd_notwindows.go:12-33).
THEOREM CommandsAreSound == CommandSpec => []CommandsSound
<1>1. CommandInit => SplitInv
  BY SplitStart DEF CommandInit
<1>2. SplitInv => SplitAsShell
  BY DEF SplitInv
<1>3. CommandSpec => []SplitAsShell
  BY <1>1, <1>2, SplitStep, PTL DEF CommandSpec
<1>. QED BY <1>3, RunsAreSound, PTL DEF CommandsSound

(***************************************************************************)
(* The filters.  Compile treats the globs of a list together, by one of    *)
(* four ways; each matches what its patterns match one by one.  For the    *)
(* joined globs that is an argument about positions: what the joined text  *)
(* lets through from a position inside a glob on is what this glob lets    *)
(* through from there on.                                                  *)
(***************************************************************************)

IsGlob(m, p, s) == m = [i \in 1..(Len(p) + 1) |-> GlobStep(p, s, i, m)]

\* Two functions say the same of what is behind i.
SameBehind(p, i, a, b) == \A k \in (i + 1)..(Len(p) + 1) : a[k] = b[k]

\* A step looks at what is behind its position only,
LEMMA StepLooksBehind ==
  ASSUME NEW p \in Seq(Character), NEW s, NEW i \in 1..(Len(p) + 1), NEW a, NEW b, SameBehind(p, i, a, b)
  PROVE  GlobStep(p, s, i, a) = GlobStep(p, s, i, b)
<1>1. PICK P \in Nat : P = Len(p)
  BY LenProperties
<1>2. CASE i > P
  BY <1>1, <1>2, Zenon DEF GlobStep
<1>3. CASE ~(i > P)
  <2>0. i \in 1..P
    BY <1>1, <1>3
  <2>e. \A k \in (i + 1)..(P + 1) : a[k] = b[k]
    BY <1>1 DEF SameBehind
  <2>1. a[i + 1] = b[i + 1]
    BY <2>0, <2>e
  <2>2. \A k \in {i} \cup Separators(p, i) : a[k + 1] = b[k + 1]
    <3>1. \A k \in Separators(p, i) : k \in i..P
      BY <1>1, Zenon DEF Separators
    <3>2. ASSUME NEW k \in {i} \cup Separators(p, i) PROVE k + 1 \in (i + 1)..(P + 1)
      BY <2>0, <3>1
    <3>. QED BY <2>e, <3>2
  <2>3. {a[k + 1] : k \in {i} \cup Separators(p, i)} = {b[k + 1] : k \in {i} \cup Separators(p, i)}
    BY <2>2, Zenon
  <2>4. AfterBraces(p, i) \in (i + 1)..(P + 1)
    <3>. DEFINE shut == {k \in i..P : Depth(p)[k] < Depth(p)[i]}
    <3>1. AfterBraces(p, i) = IF shut = {} THEN P + 1 ELSE Min(shut) + 1
      BY <1>1, Zenon DEF AfterBraces
    <3>2. shut \in SUBSET Nat
      BY <2>0
    <3>3. shut # {} => Min(shut) \in shut
      BY <3>2, LeastIn, Zenon
    <3>4. shut # {} => Min(shut) \in i..P
      BY <3>3, Zenon
    <3>. HIDE DEF shut
    <3>. QED BY <2>0, <3>1, <3>4
  <2>5. a[AfterBraces(p, i)] = b[AfterBraces(p, i)]
    BY <2>e, <2>4
  <2>. QED BY <2>1, <2>3, <2>5, Zenon DEF GlobStep
<1>. QED BY <1>2, <1>3

\* so that the function of GlobMatches exists,
LEMMA GlobExists ==
  ASSUME NEW p \in Seq(Character), NEW s
  PROVE  \E m : IsGlob(m, p, s)
<1>0. PICK P \in Nat : P = Len(p)
  BY LenProperties
<1>. DEFINE Upper(n) == ((P + 1) - n)..(P + 1)
            Holds(n, f) == f = [i \in Upper(n) |-> GlobStep(p, s, i, f)]
            N == {n \in Nat : n <= P => \E f : Holds(n, f)}
<1>e. ASSUME NEW f, NEW g, NEW i \in 1..(P + 1), \A k \in (i + 1)..(P + 1) : f[k] = g[k]
      PROVE  GlobStep(p, s, i, f) = GlobStep(p, s, i, g)
  BY <1>0, <1>e, StepLooksBehind DEF SameBehind
<1>n. ASSUME NEW n \in Nat, n <= P, NEW f, NEW last,
             IF n = 0 THEN TRUE ELSE Holds(n - 1, f),
             last = GlobStep(p, s, (P + 1) - n, f)
      PROVE  \E g : Holds(n, g)
  <2>. DEFINE g == [i \in Upper(n) |-> IF i = (P + 1) - n THEN last ELSE f[i]]
  <2>0. PICK b \in 1..(P + 1) : b = (P + 1) - n
    BY <1>n
  <2>1. \A k \in (b + 1)..(P + 1) : g[k] = f[k]
    BY <2>0
  <2>2. ASSUME NEW i \in Upper(n) PROVE g[i] = GlobStep(p, s, i, g)
    <3>1. i \in 1..(P + 1) /\ i >= b
      BY <2>0
    <3>2. \A k \in (i + 1)..(P + 1) : g[k] = f[k]
      BY <2>1, <3>1
    <3>3. GlobStep(p, s, i, g) = GlobStep(p, s, i, f)
      <4>. HIDE DEF g
      <4>. QED BY <3>1, <3>2, <1>e
    <3>4. CASE i = b
      BY <1>n, <2>0, <3>3, <3>4
    <3>5. CASE i # b
      <4>1. n # 0 /\ i \in Upper(n - 1)
        BY <2>0, <3>1, <3>5
      <4>2. f[i] = GlobStep(p, s, i, f)
        BY <1>n, <4>1, Zenon
      <4>3. g[i] = f[i]
        BY <2>0, <3>5
      <4>. QED BY <3>3, <4>2, <4>3, Zenon
    <3>. QED BY <3>4, <3>5
  <2>3. g = [i \in Upper(n) |-> g[i]]
    OBVIOUS
  <2>4. Holds(n, g)
    <3>. HIDE DEF g, Upper
    <3>. QED BY <2>2, <2>3, Zenon
  <2>. QED BY <2>4, Zenon
<1>1. 0 \in N
  BY <1>n
<1>2. ASSUME NEW n \in Nat, n \in N PROVE n + 1 \in N
  <2>0. n + 1 \in Nat
    OBVIOUS
  <2>. SUFFICES ASSUME n + 1 <= P PROVE \E g : Holds(n + 1, g)
    BY <2>0, Zenon
  <2>1. n <= P
    BY <1>2
  <2>2. PICK f : Holds(n, f)
    BY <1>2, <2>1, Zenon
  <2>3. n + 1 \in Nat /\ n + 1 # 0 /\ (n + 1) - 1 = n
    OBVIOUS
  <2>4. Holds((n + 1) - 1, f)
    BY <2>2, <2>3, Zenon
  <2>. HIDE DEF Holds
  <2>. QED BY <1>n, <2>3, <2>4, Zenon
<1>3. Nat \subseteq N
  <2>. HIDE DEF N
  <2>. QED BY <1>1, <1>2, NatInSet
<1>4. PICK f : Holds(P, f)
  <2>1. P \in N /\ P <= P
    BY <1>3
  <2>. QED BY <2>1, Zenon
<1>5. Upper(P) = 1..(P + 1)
  OBVIOUS
<1>. QED BY <1>0, <1>4, <1>5, Zenon DEF IsGlob

\* and the glob matches what that says of its beginning.
LEMMA GlobValue ==
  ASSUME NEW p \in Seq(Character), NEW s
  PROVE  \E m : IsGlob(m, p, s) /\ (GlobMatches(p, s) <=> 1 \in m[1])
<1>1. GlobMatches(p, s) <=> 1 \in (CHOOSE m : IsGlob(m, p, s))[1]
  BY Zenon DEF GlobMatches, IsGlob
<1>2. \E m : IsGlob(m, p, s)
  BY GlobExists
<1>. QED BY <1>1, <1>2, Zenon

\* Nothing of a text without backslashes is escaped.
LEMMA NotEscaped ==
  ASSUME NEW p \in Seq(Character), \A i \in 1..Len(p) : p[i] # "\\", NEW i \in 1..Len(p), NEW c
  PROVE  IsMeta(p, i, c) <=> p[i] = c
<1>1. PICK P \in Nat : P = Len(p) /\ DOMAIN p = 1..P
  BY LenProperties
<1>. DEFINE Is(e) == e = [k \in DOMAIN p |-> k > 1 /\ p[k - 1] = "\\" /\ ~e[k - 1]]
            none == [k \in 1..P |-> FALSE]
<1>2. \A k \in 1..P : k > 1 => k - 1 \in 1..P
  OBVIOUS
<1>3. \A k \in 1..P : ~(k > 1 /\ p[k - 1] = "\\")
  BY <1>1, <1>2
<1>4. Is(none)
  <2>1. \A k \in 1..P : FALSE = (k > 1 /\ p[k - 1] = "\\" /\ ~none[k - 1])
    BY <1>3, Zenon
  <2>. QED BY <1>1, <2>1, Zenon
<1>5. EscapedIn(p) = CHOOSE e : Is(e)
  BY Zenon DEF EscapedIn
<1>6. Is(EscapedIn(p))
  <2>. HIDE DEF Is
  <2>. QED BY <1>4, <1>5, Zenon
<1>7. i \in 1..P /\ EscapedIn(p)[i] = (i > 1 /\ p[i - 1] = "\\" /\ ~EscapedIn(p)[i - 1])
  BY <1>1, <1>6, Zenon
<1>8. ~EscapedIn(p)[i]
  BY <1>3, <1>7, Zenon
<1>. QED BY <1>8, Zenon DEF IsMeta

\* Patterns that have nothing to which braces give a meaning.
Plain(p) == \A i \in 1..Len(p) : p[i] \notin {"{", "}", ",", "\\"}

PlainStep(p, s, i, rest) ==
    IF i > Len(p) THEN {Len(s) + 1}
    ELSE IF p[i] = "*" THEN {j \in 1..(Len(s) + 1) : \E k \in rest : j <= k}
    ELSE {j \in 1..Len(s) : (p[i] = "?" \/ p[i] = s[j]) /\ j + 1 \in rest}

LEMMA PlainSteps ==
  ASSUME NEW p \in Seq(Character), Plain(p), NEW s, NEW i \in 1..(Len(p) + 1), NEW m
  PROVE  GlobStep(p, s, i, m) = PlainStep(p, s, i, m[i + 1])
<1>1. PICK P \in Nat : P = Len(p)
  BY LenProperties
<1>2. CASE i > P
  BY <1>1, <1>2, Zenon DEF GlobStep, PlainStep
<1>3. CASE ~(i > P)
  <2>1. i \in 1..P
    BY <1>1, <1>3
  <2>2. \A c : IsMeta(p, i, c) <=> p[i] = c
    <3>1. \A k \in 1..P : p[k] # "\\"
      BY <1>1 DEF Plain
    <3>. QED BY <1>1, <2>1, <3>1, NotEscaped
  <2>3. p[i] # "{" /\ p[i] # "}" /\ p[i] # "," /\ p[i] # "\\"
    BY <1>1, <2>1 DEF Plain
  <2>4. CASE p[i] = "*"
    BY <1>1, <1>3, <2>2, <2>4, Zenon DEF GlobStep, PlainStep
  <2>5. CASE p[i] = "?"
    <3>1. p[i] # "*"
      BY <2>5
    <3>2. GlobStep(p, s, i, m) = {j \in 1..Len(s) : j + 1 \in m[i + 1]}
      BY <1>1, <1>3, <2>2, <2>5, <3>1, Zenon DEF GlobStep
    <3>. QED BY <1>1, <1>3, <2>5, <3>1, <3>2, Zenon DEF PlainStep
  <2>6. CASE p[i] # "*" /\ p[i] # "?"
    <3>1. GlobStep(p, s, i, m) = {j \in 1..Len(s) : p[i] = s[j] /\ j + 1 \in m[i + 1]}
      BY <1>1, <1>3, <2>2, <2>3, <2>6, Zenon DEF GlobStep
    <3>. QED BY <1>1, <1>3, <2>6, <3>1, Zenon DEF PlainStep
  <2>. QED BY <2>4, <2>5, <2>6
<1>. QED BY <1>2, <1>3

\* A pattern without meta characters matches from i where the text has the same rest.
SameRest(p, s, i) ==
    {j \in 1..(Len(s) + 1) : Len(p) - i = Len(s) - j /\ \A x \in i..Len(p) : p[x] = s[j + (x - i)]}

\* One character earlier,
LEMMA RestOfWord ==
  ASSUME NEW p \in Seq(Character), NEW s \in Seq(Character), ~HasMeta(p), NEW i \in 1..(Len(p) + 1)
  PROVE  PlainStep(p, s, i, SameRest(p, s, i + 1)) = SameRest(p, s, i)
<1>1. Len(p) \in Nat /\ Len(s) \in Nat /\ DOMAIN p = 1..Len(p)
  BY LenProperties
<1>2. PICK P, S : P = Len(p) /\ S = Len(s) /\ P \in Nat /\ S \in Nat
  BY <1>1
<1>3. CASE i > P
  <2>1. i = P + 1
    BY <1>2, <1>3
  <2>2. ASSUME NEW j \in 1..(S + 1)
        PROVE  (P - i = S - j /\ \A x \in i..P : p[x] = s[j + (x - i)]) <=> j = S + 1
    BY <1>2, <2>1
  <2>3. SameRest(p, s, i) = {S + 1}
    <3>1. ASSUME NEW j PROVE j \in SameRest(p, s, i) <=> j \in 1..(S + 1) /\ j = S + 1
      BY <1>2, <2>2, Zenon DEF SameRest
    <3>2. S + 1 \in 1..(S + 1)
      BY <1>2
    <3>. QED BY <3>1, <3>2, Zenon
  <2>. QED BY <1>2, <1>3, <2>3 DEF PlainStep
<1>4. CASE ~(i > P)
  <2>1. i \in 1..P
    BY <1>2, <1>4
  <2>2. p[i] # "*" /\ p[i] # "?"
    BY <1>1, <1>2, <2>1 DEF HasMeta
  <2>3. ASSUME NEW j \in 1..(S + 1)
        PROVE  (P - i = S - j /\ \A x \in i..P : p[x] = s[j + (x - i)])
                 <=> /\ j <= S /\ p[i] = s[j]
                     /\ P - (i + 1) = S - (j + 1)
                     /\ \A x \in (i + 1)..P : p[x] = s[(j + 1) + (x - (i + 1))]
    <3>1. \A x \in (i + 1)..P : (j + 1) + (x - (i + 1)) = j + (x - i) /\ x \in i..P
      BY <1>2, <2>1
    <3>2. i \in i..P /\ j + (i - i) = j /\ \A x \in i..P : x = i \/ x \in (i + 1)..P
      BY <1>2, <2>1
    <3>3. P - i = S - j <=> j <= S /\ P - (i + 1) = S - (j + 1)
      BY <1>2, <2>1
    <3>4. (\A x \in i..P : p[x] = s[j + (x - i)])
            <=> p[i] = s[j] /\ \A x \in (i + 1)..P : p[x] = s[(j + 1) + (x - (i + 1))]
      <4>1. ASSUME \A x \in i..P : p[x] = s[j + (x - i)]
            PROVE  p[i] = s[j] /\ \A x \in (i + 1)..P : p[x] = s[(j + 1) + (x - (i + 1))]
        BY <3>1, <3>2, <4>1, Zenon
      <4>2. ASSUME p[i] = s[j], \A x \in (i + 1)..P : p[x] = s[(j + 1) + (x - (i + 1))],
                   NEW x \in i..P
            PROVE  p[x] = s[j + (x - i)]
        <5>1. CASE x = i
          BY <3>2, <4>2, <5>1, Zenon
        <5>2. CASE x \in (i + 1)..P
          BY <3>1, <4>2, <5>2, Zenon
        <5>. QED BY <3>2, <5>1, <5>2, Zenon
      <4>. QED BY <4>1, <4>2, Zenon
    <3>. QED BY <3>3, <3>4, Zenon
  <2>4. ASSUME NEW j
        PROVE  j \in PlainStep(p, s, i, SameRest(p, s, i + 1)) <=> j \in SameRest(p, s, i)
    <3>1. j \in SameRest(p, s, i)
            <=> j \in 1..(S + 1) /\ P - i = S - j /\ \A x \in i..P : p[x] = s[j + (x - i)]
      BY <1>2, Zenon DEF SameRest
    <3>2. j + 1 \in SameRest(p, s, i + 1)
            <=> /\ j + 1 \in 1..(S + 1) /\ P - (i + 1) = S - (j + 1)
                /\ \A x \in (i + 1)..P : p[x] = s[(j + 1) + (x - (i + 1))]
      BY <1>2, Zenon DEF SameRest
    <3>3. j \in PlainStep(p, s, i, SameRest(p, s, i + 1))
            <=> j \in 1..S /\ p[i] = s[j] /\ j + 1 \in SameRest(p, s, i + 1)
      BY <1>2, <1>4, <2>2, Zenon DEF PlainStep
    <3>4. j \in 1..S => j \in 1..(S + 1) /\ j <= S /\ j + 1 \in 1..(S + 1)
      BY <1>2
    <3>5. j \in 1..(S + 1) /\ j <= S => j \in 1..S
      BY <1>2
    <3>. QED BY <2>3, <3>1, <3>2, <3>3, <3>4, <3>5, Zenon
  <2>. QED BY <2>4
<1>. QED BY <1>2, <1>3, <1>4

\* so that it is what the function of GlobMatches gives.
LEMMA GlobOfWord ==
  ASSUME NEW p \in Seq(Character), NEW s \in Seq(Character), ~HasMeta(p), Plain(p), NEW m, IsGlob(m, p, s)
  PROVE  m[1] = SameRest(p, s, 1)
<1>0. PICK P \in Nat : P = Len(p)
  BY LenProperties
<1>. DEFINE N == {n \in Nat : n <= P => m[(P + 1) - n] = SameRest(p, s, (P + 1) - n)}
<1>e. \A i \in 1..(P + 1) : m[i] = PlainStep(p, s, i, m[i + 1])
  <2>1. \A i \in 1..(P + 1) : m[i] = GlobStep(p, s, i, m)
    BY <1>0, Zenon DEF IsGlob
  <2>. QED BY <1>0, <2>1, PlainSteps
<1>1. 0 \in N
  <2>1. PICK i \in 1..(P + 1) : i = (P + 1) - 0 /\ i > P
    OBVIOUS
  <2>2. \A a, b : PlainStep(p, s, i, a) = PlainStep(p, s, i, b)
    BY <1>0, <2>1, Zenon DEF PlainStep
  <2>3. m[i] = PlainStep(p, s, i, SameRest(p, s, i + 1))
    BY <1>e, <2>2, Zenon
  <2>4. m[i] = SameRest(p, s, i)
    BY <1>0, <2>3, RestOfWord
  <2>. QED BY <2>1, <2>4
<1>2. ASSUME NEW n \in Nat, n \in N PROVE n + 1 \in N
  <2>. SUFFICES ASSUME n + 1 <= P PROVE m[(P + 1) - (n + 1)] = SameRest(p, s, (P + 1) - (n + 1))
    OBVIOUS
  <2>1. PICK i \in 1..(P + 1) : i = (P + 1) - (n + 1) /\ i + 1 = (P + 1) - n /\ n <= P
    OBVIOUS
  <2>2. m[i + 1] = SameRest(p, s, i + 1)
    BY <1>2, <2>1
  <2>3. m[i] = PlainStep(p, s, i, SameRest(p, s, i + 1))
    BY <1>e, <2>2, Zenon
  <2>4. m[i] = SameRest(p, s, i)
    BY <1>0, <2>3, RestOfWord
  <2>. QED BY <2>1, <2>4
<1>3. Nat \subseteq N
  <2>. HIDE DEF N
  <2>. QED BY <1>1, <1>2, NatInSet
<1>4. P \in N /\ (P + 1) - P = 1 /\ P <= P
  BY <1>3
<1>. QED BY <1>4

\* A word matches itself only.
LEMMA WordMatches ==
  ASSUME NEW p \in Seq(Character), NEW s \in Seq(Character), ~HasMeta(p), Plain(p)
  PROVE  GlobMatches(p, s) <=> p = s
<1>0. Len(p) \in Nat /\ Len(s) \in Nat
  BY LenProperties
<1>4. PICK g : IsGlob(g, p, s) /\ (GlobMatches(p, s) <=> 1 \in g[1])
  BY GlobValue
<1>5. g[1] = SameRest(p, s, 1)
  BY <1>4, GlobOfWord
<1>6. 1 \in SameRest(p, s, 1) <=> Len(p) = Len(s) /\ \A x \in 1..Len(p) : p[x] = s[x]
  <2>1. 1 \in 1..(Len(s) + 1) /\ (Len(p) - 1 = Len(s) - 1 <=> Len(p) = Len(s))
    BY <1>0
  <2>2. \A x \in 1..Len(p) : 1 + (x - 1) = x
    BY <1>0
  <2>. QED BY <2>1, <2>2, Zenon DEF SameRest
<1>7. Len(p) = Len(s) /\ (\A x \in 1..Len(p) : p[x] = s[x]) <=> p = s
  BY SeqEqual
<1>. QED BY <1>4, <1>5, <1>6, <1>7, Zenon


(***************************************************************************)
(* The joined text.  Each glob stands in it, between two marks, and behind *)
(* each mark stands a glob.                                                *)
(***************************************************************************)
Comma(t, i) == t[i] = ","

Ordinary(t, i) == t[i] \notin {"{", "}", "\\"}

Follows(t, i) == i \in 2..(Len(t) + 1) /\ (i = 2 \/ Comma(t, i - 1))

Stands(t, p, i) ==
    /\ Follows(t, i) /\ i + Len(p) <= Len(t) + 1
    /\ \A x \in 1..Len(p) : t[(i + x) - 1] = p[x]
    /\ i + Len(p) = Len(t) + 1 \/ Comma(t, i + Len(p))

BracesOpen(t) == Len(t) >= 1 /\ t[1] = "{" /\ \A i \in 2..Len(t) : Ordinary(t, i)

Shaped(t, list, H) ==
    /\ t \in Seq(Character) /\ BracesOpen(t)
    /\ \A k \in H : \E i \in Nat : Stands(t, list[k], i)
    /\ \A i \in Nat : Follows(t, i) => \E k \in H : Stands(t, list[k], i)

\* A mark before a glob
LEMMA MarkBefore ==
  ASSUME NEW a \in Character, NEW p \in Seq(Character)
  PROVE  /\ <<a>> \o p \in Seq(Character) /\ Len(<<a>> \o p) = Len(p) + 1
         /\ (<<a>> \o p)[1] = a /\ \A x \in 1..Len(p) : (<<a>> \o p)[x + 1] = p[x]
<1>1. PICK P \in Nat : P = Len(p)
  BY LenProperties
<1>2. PICK u : u = <<a>>
  OBVIOUS
<1>3. u \in Seq(Character) /\ Len(u) = 1 /\ u[1] = a
  BY <1>2
<1>4. u \o p \in Seq(Character) /\ Len(u \o p) = 1 + P
      /\ \A i \in 1..(1 + P) : (u \o p)[i] = IF i <= 1 THEN u[i] ELSE p[i - 1]
  <2>1. /\ u \o p \in Seq(Character) /\ Len(u \o p) = Len(u) + Len(p)
        /\ \A i \in 1..(Len(u) + Len(p)) : (u \o p)[i] = IF i <= Len(u) THEN u[i] ELSE p[i - Len(u)]
    BY <1>3, ConcatProperties
  <2>. QED BY <1>1, <1>3, <2>1, Zenon
<1>5. (u \o p)[1] = a
  <2>1. 1 \in 1..(1 + P) /\ 1 <= 1
    OBVIOUS
  <2>. QED BY <1>3, <1>4, <2>1, Zenon
<1>6. ASSUME NEW x \in 1..P PROVE (u \o p)[x + 1] = p[x]
  <2>1. x + 1 \in 1..(1 + P) /\ ~(x + 1 <= 1) /\ (x + 1) - 1 = x
    OBVIOUS
  <2>. QED BY <1>4, <2>1, Zenon
<1>7. 1 + P = P + 1
  OBVIOUS
<1>. QED BY <1>1, <1>2, <1>4, <1>5, <1>6, <1>7, Zenon

\* The first glob,
LEMMA ShapeOfFirst ==
  ASSUME NEW list, NEW k, list[k] \in Seq(Character), Plain(list[k])
  PROVE  Shaped(<<"{">> \o list[k], list, {k})
<1>. DEFINE p == list[k]
            t == <<"{">> \o p
<1>1. PICK P \in Nat : P = Len(p)
  BY LenProperties
<1>2. "{" \in Character
  BY FiltersAssumption, Zenon
<1>3. t \in Seq(Character) /\ Len(t) = P + 1 /\ t[1] = "{" /\ \A x \in 1..P : t[x + 1] = p[x]
  BY <1>1, <1>2, MarkBefore, Zenon
<1>4. \A x \in 2..(P + 1) : t[x] = p[x - 1] /\ x - 1 \in 1..P
  <2>. HIDE DEF t, p
  <2>1. ASSUME NEW x \in 2..(P + 1) PROVE x - 1 \in 1..P /\ (x - 1) + 1 = x
    OBVIOUS
  <2>. QED BY <1>3, <2>1, Zenon
<1>5. \A x \in 1..P : p[x] \notin {"{", "}", ",", "\\"}
  BY <1>1 DEF Plain
<1>. HIDE DEF t, p
<1>6. BracesOpen(t)
  <2>1. P + 1 >= 1
    BY <1>1
  <2>2. \A x \in 2..(P + 1) : Ordinary(t, x)
    BY <1>4, <1>5, Zenon DEF Ordinary
  <2>. QED BY <1>3, <2>1, <2>2, Zenon DEF BracesOpen
<1>7. Stands(t, p, 2)
  <2>1. \A x \in 1..P : (2 + x) - 1 \in 2..(P + 1) /\ ((2 + x) - 1) - 1 = x
    BY <1>1
  <2>2. \A x \in 1..P : t[(2 + x) - 1] = p[x]
    BY <1>4, <2>1
  <2>3. 2 \in 2..((P + 1) + 1) /\ 2 + P = (P + 1) + 1 /\ 2 + P <= (P + 1) + 1
    BY <1>1
  <2>. QED BY <1>1, <1>3, <2>2, <2>3, Zenon DEF Stands, Follows
<1>8. ASSUME NEW i \in Nat, Follows(t, i) PROVE i = 2
  <2>1. i \in 2..(P + 2) /\ (i = 2 \/ Comma(t, i - 1))
    <3>1. i \in 2..((P + 1) + 1) /\ (i = 2 \/ Comma(t, i - 1))
      BY <1>3, <1>8, Zenon DEF Follows
    <3>. QED BY <3>1
  <2>. SUFFICES ASSUME i # 2 PROVE FALSE
    OBVIOUS
  <2>2. i - 1 \in 2..(P + 1)
    BY <2>1
  <2>3. Comma(t, i - 1)
    BY <2>1
  <2>4. t[i - 1] = p[(i - 1) - 1] /\ (i - 1) - 1 \in 1..P
    BY <1>4, <2>2, Zenon
  <2>. QED BY <1>5, <2>3, <2>4, Zenon DEF Comma
<1>9. 2 \in Nat
  OBVIOUS
<1>. QED BY <1>3, <1>6, <1>7, <1>8, <1>9, Zenon DEF Shaped, t, p

\* and one that comes behind others.
LEMMA ShapeOfMore ==
  ASSUME NEW list, NEW H, NEW t, Shaped(t, list, H), \A k \in H : list[k] \in Seq(Character),
         NEW k, list[k] \in Seq(Character), Plain(list[k])
  PROVE  Shaped(t \o (<<",">> \o list[k]), list, H \cup {k})
<1>. DEFINE p == list[k]
            u == t \o (<<",">> \o p)
<1>1. PICK P \in Nat : P = Len(p)
  BY LenProperties
<1>2. t \in Seq(Character) /\ BracesOpen(t)
  BY Zenon DEF Shaped
<1>3. PICK T \in Nat : T = Len(t) /\ T >= 1
  <2>1. Len(t) \in Nat
    BY <1>2, LenProperties
  <2>. QED BY <1>2, <2>1, Zenon DEF BracesOpen
<1>4. PICK q : q = <<",">> \o p
  OBVIOUS
<1>5. q \in Seq(Character) /\ Len(q) = P + 1 /\ q[1] = "," /\ \A x \in 1..P : q[x + 1] = p[x]
  <2>1. "," \in Character
    BY FiltersAssumption, Zenon
  <2>2. PICK v : v = "," /\ v \in Character
    BY <2>1, Zenon
  <2>3. /\ <<v>> \o p \in Seq(Character) /\ Len(<<v>> \o p) = Len(p) + 1
        /\ (<<v>> \o p)[1] = v /\ \A x \in 1..Len(p) : (<<v>> \o p)[x + 1] = p[x]
    BY <2>2, MarkBefore
  <2>. QED BY <1>1, <1>4, <2>2, <2>3, Zenon
<1>6. /\ u \in Seq(Character) /\ Len(u) = T + (P + 1)
      /\ \A x \in 1..(T + (P + 1)) : u[x] = IF x <= T THEN t[x] ELSE q[x - T]
  <2>1. /\ t \o q \in Seq(Character) /\ Len(t \o q) = Len(t) + Len(q)
        /\ \A x \in 1..(Len(t) + Len(q)) : (t \o q)[x] = IF x <= Len(t) THEN t[x] ELSE q[x - Len(t)]
    BY <1>2, <1>5, ConcatProperties
  <2>. QED BY <1>3, <1>4, <1>5, <2>1, Zenon
<1>7. PICK U \in Nat : U = Len(u) /\ U = T + (P + 1)
  <2>1. T + (P + 1) \in Nat
    OBVIOUS
  <2>. QED BY <1>6, <2>1, Zenon
<1>8. \A x \in 1..T : u[x] = t[x]
  <2>1. \A x \in 1..T : x \in 1..(T + (P + 1)) /\ x <= T
    OBVIOUS
  <2>. QED BY <1>6, <2>1, Zenon
<1>9. Comma(u, T + 1)
  <2>1. T + 1 \in 1..(T + (P + 1)) /\ ~(T + 1 <= T) /\ (T + 1) - T = 1
    OBVIOUS
  <2>. QED BY <1>5, <1>6, <2>1, Zenon DEF Comma
<1>10. \A x \in 1..P : u[(T + 1) + x] = p[x]
  <2>1. \A x \in 1..P : /\ (T + 1) + x \in 1..(T + (P + 1)) /\ ~((T + 1) + x <= T)
                        /\ ((T + 1) + x) - T = x + 1
    OBVIOUS
  <2>. QED BY <1>5, <1>6, <2>1, Zenon
<1>11. \A x \in 1..P : p[x] \notin {"{", "}", ",", "\\"}
  BY <1>1, Zenon DEF Plain
<1>. HIDE DEF u, p
<1>12. BracesOpen(u)
  <2>1. ASSUME NEW i \in 2..U PROVE Ordinary(u, i)
    <3>1. CASE i <= T
      <4>1. i \in 2..T /\ i \in 1..T
        BY <3>1
      <4>2. Ordinary(t, i)
        BY <1>2, <1>3, <4>1, Zenon DEF BracesOpen
      <4>. QED BY <1>8, <4>1, <4>2, Zenon DEF Ordinary
    <3>2. CASE i = T + 1
      <4>1. "," \notin {"{", "}", "\\"}
        OBVIOUS
      <4>. QED BY <1>9, <3>2, <4>1, Zenon DEF Ordinary, Comma
    <3>3. CASE i > T + 1
      <4>1. PICK x \in 1..P : i = (T + 1) + x
        <5>1. i - (T + 1) \in 1..P /\ i = (T + 1) + (i - (T + 1))
          BY <1>7, <3>3
        <5>. QED BY <5>1
      <4>. QED BY <1>10, <1>11, <4>1, Zenon DEF Ordinary
    <3>. QED BY <3>1, <3>2, <3>3
  <2>2. U >= 1 /\ 1 \in 1..T
    BY <1>3, <1>7
  <2>3. u[1] = "{"
    BY <1>2, <1>8, <2>2, Zenon DEF BracesOpen
  <2>. QED BY <1>7, <2>1, <2>2, <2>3, Zenon DEF BracesOpen
<1>13. ASSUME NEW r \in Seq(Character), NEW i \in Nat, Stands(t, r, i) PROVE Stands(u, r, i)
  <2>1. PICK R \in Nat : R = Len(r)
    BY LenProperties
  <2>2. /\ i \in 2..(T + 1) /\ (i = 2 \/ Comma(t, i - 1)) /\ i + R <= T + 1
        /\ \A x \in 1..R : t[(i + x) - 1] = r[x]
        /\ i + R = T + 1 \/ Comma(t, i + R)
    BY <1>3, <1>13, <2>1, Zenon DEF Stands, Follows
  <2>3. i \in 2..(U + 1) /\ i - 1 \in 1..T /\ i + R <= U + 1 /\ \A x \in 1..R : (i + x) - 1 \in 1..T
    BY <1>7, <2>2
  <2>4. i = 2 \/ Comma(u, i - 1)
    BY <1>8, <2>2, <2>3, Zenon DEF Comma
  <2>5. \A x \in 1..R : u[(i + x) - 1] = r[x]
    BY <1>8, <2>2, <2>3, Zenon
  <2>6. Comma(u, i + R)
    <3>1. CASE i + R = T + 1
      BY <1>9, <3>1, Zenon
    <3>2. CASE i + R # T + 1
      <4>0. i \in 2..(T + 1) /\ i + R <= T + 1
        BY <2>2, Zenon
      <4>1. i + R \in 1..T
        BY <3>2, <4>0
      <4>. QED BY <1>8, <2>2, <3>2, <4>1, Zenon DEF Comma
    <3>. QED BY <3>1, <3>2
  <2>. QED BY <1>7, <2>1, <2>3, <2>4, <2>5, <2>6, Zenon DEF Stands, Follows
<1>14. Stands(u, p, T + 2)
  <2>1. T + 2 \in 2..(U + 1) /\ (T + 2) - 1 = T + 1 /\ (T + 2) + P = U + 1 /\ (T + 2) + P <= U + 1
    BY <1>7
  <2>2. \A x \in 1..P : ((T + 2) + x) - 1 = (T + 1) + x
    OBVIOUS
  <2>3. \A x \in 1..P : u[((T + 2) + x) - 1] = p[x]
    BY <1>10, <2>2, Zenon
  <2>. QED BY <1>1, <1>7, <1>9, <2>1, <2>3, Zenon DEF Stands, Follows
<1>15. ASSUME NEW i \in Nat, Follows(u, i) PROVE Follows(t, i) \/ i = T + 2
  <2>1. i \in 2..(U + 1) /\ (i = 2 \/ Comma(u, i - 1))
    BY <1>7, <1>15, Zenon DEF Follows
  <2>2. CASE i <= T + 1
    <3>1. i \in 2..(T + 1) /\ i - 1 \in 1..T
      BY <2>1, <2>2
    <3>. QED BY <1>3, <1>8, <2>1, <3>1, Zenon DEF Follows, Comma
  <2>3. CASE i > T + 2
    <3>1. PICK x \in 1..P : i - 1 = (T + 1) + x
      <4>1. (i - 1) - (T + 1) \in 1..P /\ i - 1 = (T + 1) + ((i - 1) - (T + 1))
        BY <1>7, <2>1, <2>3
      <4>. QED BY <4>1
    <3>2. i # 2
      BY <1>3, <2>3
    <3>3. p[x] # ","
      BY <1>11, Zenon
    <3>. QED BY <1>10, <2>1, <3>1, <3>2, <3>3, Zenon DEF Comma
  <2>. QED BY <2>1, <2>2, <2>3
<1>16. ASSUME NEW h \in H \cup {k} PROVE \E i \in Nat : Stands(u, list[h], i)
  <2>1. T + 2 \in Nat
    OBVIOUS
  <2>2. CASE h = k
    BY <1>14, <2>1, <2>2, Zenon DEF p
  <2>3. CASE h \in H
    <3>1. PICK i \in Nat : Stands(t, list[h], i)
      BY <2>3, Zenon DEF Shaped
    <3>. QED BY <1>13, <2>3, <3>1, Zenon
  <2>. QED BY <2>2, <2>3
<1>17. ASSUME NEW i \in Nat, Follows(u, i) PROVE \E h \in H \cup {k} : Stands(u, list[h], i)
  <2>1. CASE i = T + 2
    BY <1>14, <2>1, Zenon DEF p
  <2>2. CASE Follows(t, i)
    <3>1. PICK h \in H : Stands(t, list[h], i)
      BY <2>2, Zenon DEF Shaped
    <3>. QED BY <1>13, <3>1, Zenon
  <2>. QED BY <1>15, <1>17, <2>1, <2>2, Zenon
<1>18. u \in Seq(Character)
  BY <1>6, Zenon
<1>. QED BY <1>12, <1>16, <1>17, <1>18, Zenon DEF Shaped, u, p

\* The globs up to one
Marked(list, globs) ==
    [k \in DOMAIN list |-> IF k \in globs THEN <<IF k = Min(globs) THEN "{" ELSE ",">> \o list[k]
                           ELSE <<>>]

UpTo(globs, n) == globs \cap 1..n

PlainList(list, globs) == \A k \in globs : list[k] \in Seq(Character) /\ Plain(list[k])

IsClosed(p, t) == p = Append(t, "}")

LEMMA ShapeOfJoined ==
  ASSUME NEW n \in Nat, NEW list, DOMAIN list = 1..n, Len(list) = n,
         NEW globs \in SUBSET (1..n), globs # {}, PlainList(list, globs)
  PROVE  \E t : IsClosed(Joined(list, globs), t) /\ Shaped(t, list, globs)
<1>. DEFINE s == Marked(list, globs)
<1>1. Len(s) = n /\ n # 0 /\ DOMAIN s = 1..n
  <2>1. DOMAIN s = 1..n
    BY Zenon DEF Marked
  <2>2. n # 0
    <3>1. PICK g \in globs : g \in 1..n
      OBVIOUS
    <3>. QED BY <3>1
  <2>3. Len(s) = n
    BY <2>1
  <2>. QED BY <2>1, <2>2, <2>3
<1>2. PICK f : IsFlat(f, s, n) /\ FlattenSeq(s) = f[n]
  BY <1>1, FlatValue
<1>3. globs \in SUBSET Nat /\ Min(globs) \in globs /\ \A y \in globs : Min(globs) <= y
  <2>1. globs \in SUBSET Nat
    OBVIOUS
  <2>. QED BY <2>1, LeastIn
<1>. DEFINE Done(k) == IF UpTo(globs, k) = {} THEN f[k] = <<>> ELSE Shaped(f[k], list, UpTo(globs, k))
            N == {k \in Nat : k \in 1..n => Done(k)}
<1>4. ASSUME NEW k \in 1..n, k \in globs, UpTo(globs, k - 1) = {}
      PROVE  UpTo(globs, k) = {k} /\ s[k] = <<"{">> \o list[k] /\ Shaped(s[k], list, UpTo(globs, k))
  <2>1. UpTo(globs, k) = {k}
    BY <1>4 DEF UpTo
  <2>2. \A y \in globs : y >= k
    BY <1>4 DEF UpTo
  <2>3. k = Min(globs)
    <3>1. PICK m \in Nat : m = Min(globs) /\ m <= k /\ m >= k
      BY <1>3, <1>4, <2>2
    <3>. QED BY <3>1
  <2>4. s[k] = <<"{">> \o list[k]
    BY <1>4, <2>3, Zenon DEF Marked
  <2>5. list[k] \in Seq(Character) /\ Plain(list[k])
    BY <1>4, Zenon DEF PlainList
  <2>. QED BY <2>1, <2>4, <2>5, ShapeOfFirst, Zenon
<1>5. ASSUME NEW k \in 1..n, k \in globs, UpTo(globs, k - 1) # {}
      PROVE  UpTo(globs, k) = UpTo(globs, k - 1) \cup {k} /\ s[k] = <<",">> \o list[k]
  <2>1. UpTo(globs, k) = UpTo(globs, k - 1) \cup {k}
    BY <1>5 DEF UpTo
  <2>2. PICK y \in globs : y < k
    BY <1>5 DEF UpTo
  <2>3. k # Min(globs)
    <3>1. PICK m \in Nat : m = Min(globs) /\ m <= y
      BY <1>3
    <3>. QED BY <1>3, <2>2, <3>1
  <2>4. s[k] = <<",">> \o list[k]
    BY <1>5, <2>3, Zenon DEF Marked
  <2>. QED BY <2>1, <2>4
<1>6. ASSUME NEW k \in 1..n, k \notin globs
      PROVE  UpTo(globs, k) = UpTo(globs, k - 1) /\ s[k] = <<>>
  <2>1. UpTo(globs, k) = UpTo(globs, k - 1)
    BY <1>6 DEF UpTo
  <2>2. s[k] = <<>>
    BY <1>6, Zenon DEF Marked
  <2>. QED BY <2>1, <2>2
<1>7. \A k \in 1..n : f[k] = IF k = 1 THEN s[k] ELSE f[k - 1] \o s[k]
  BY <1>2, FlatEquation
<1>8. ASSUME NEW k \in Nat, k \in N PROVE k + 1 \in N
  <2>. SUFFICES ASSUME k + 1 \in 1..n PROVE Done(k + 1)
    OBVIOUS
  <2>0. (k + 1) - 1 = k /\ (k # 0 => k \in 1..n /\ k + 1 # 1)
    OBVIOUS
  <2>1. CASE k = 0
    <3>1. UpTo(globs, k) = {} /\ k + 1 = 1
      BY <2>1 DEF UpTo
    <3>2. f[k + 1] = s[k + 1]
      BY <1>7, <3>1, Zenon
    <3>3. CASE k + 1 \in globs
      BY <1>4, <2>0, <3>1, <3>2, <3>3, Zenon
    <3>4. CASE k + 1 \notin globs
      BY <1>6, <2>0, <3>1, <3>2, <3>4, Zenon
    <3>. QED BY <3>3, <3>4
  <2>2. CASE k # 0
    <3>1. Done(k)
      BY <1>8, <2>0, <2>2
    <3>2. f[k + 1] = f[k] \o s[k + 1]
      BY <1>7, <2>0, <2>2, Zenon
    <3>3. CASE UpTo(globs, k) = {}
      <4>1. f[k] = <<>>
        BY <3>1, <3>3
      <4>2. CASE k + 1 \in globs
        <5>1. Shaped(s[k + 1], list, UpTo(globs, k + 1)) /\ UpTo(globs, k + 1) # {}
          BY <1>4, <2>0, <3>3, <4>2, Zenon
        <5>2. s[k + 1] \in Seq(Character)
          BY <5>1, Zenon DEF Shaped
        <5>3. f[k + 1] = s[k + 1]
          BY <3>2, <4>1, <5>2, ConcatEmptySeq
        <5>. QED BY <5>1, <5>3, Zenon
      <4>3. CASE k + 1 \notin globs
        <5>1. s[k + 1] = <<>> /\ UpTo(globs, k + 1) = {}
          BY <1>6, <2>0, <3>3, <4>3, Zenon
        <5>2. <<>> \in Seq(Character)
          BY EmptySeq
        <5>3. f[k + 1] = <<>>
          BY <3>2, <4>1, <5>1, <5>2, ConcatEmptySeq
        <5>. QED BY <5>1, <5>3, Zenon
      <4>. QED BY <4>2, <4>3
    <3>4. CASE UpTo(globs, k) # {}
      <4>1. Shaped(f[k], list, UpTo(globs, k))
        BY <3>1, <3>4
      <4>2. CASE k + 1 \in globs
        <5>1. UpTo(globs, k + 1) = UpTo(globs, k) \cup {k + 1} /\ s[k + 1] = <<",">> \o list[k + 1]
          BY <1>5, <2>0, <3>4, <4>2, Zenon
        <5>2. list[k + 1] \in Seq(Character) /\ Plain(list[k + 1])
              /\ \A h \in UpTo(globs, k) : list[h] \in Seq(Character)
          BY <4>2, Zenon DEF PlainList, UpTo
        <5>3. Shaped(f[k + 1], list, UpTo(globs, k + 1))
          <6>1. Shaped(f[k] \o (<<",">> \o list[k + 1]), list, UpTo(globs, k) \cup {k + 1})
            BY <4>1, <5>2, ShapeOfMore
          <6>. QED BY <3>2, <5>1, <6>1, Zenon
        <5>4. UpTo(globs, k + 1) # {}
          BY <5>1
        <5>. QED BY <5>3, <5>4, Zenon
      <4>3. CASE k + 1 \notin globs
        <5>1. s[k + 1] = <<>> /\ UpTo(globs, k + 1) = UpTo(globs, k)
          BY <1>6, <2>0, <4>3, Zenon
        <5>2. f[k] \in Seq(Character)
          BY <4>1, Zenon DEF Shaped
        <5>3. f[k + 1] = f[k]
          BY <3>2, <5>1, <5>2, ConcatEmptySeq
        <5>. QED BY <3>4, <4>1, <5>1, <5>3, Zenon
      <4>. QED BY <4>2, <4>3
    <3>. QED BY <3>3, <3>4
  <2>. QED BY <2>1, <2>2
<1>9. n \in N
  <2>1. 0 \in N
    OBVIOUS
  <2>2. Nat \subseteq N
    <3>. HIDE DEF N
    <3>. QED BY <1>8, <2>1, NatInSet
  <2>. QED BY <2>2
<1>10. UpTo(globs, n) = globs /\ n \in 1..n
  <2>1. n \in 1..n
    BY <1>1
  <2>2. UpTo(globs, n) = globs
    BY DEF UpTo
  <2>. QED BY <2>1, <2>2
<1>11. Shaped(f[n], list, globs)
  BY <1>9, <1>10
<1>12. IsClosed(Joined(list, globs), FlattenSeq(s))
  BY Zenon DEF Joined, Marked, IsClosed
<1>. QED BY <1>2, <1>11, <1>12, Zenon

(***************************************************************************)
(* The glob of the joined text.                                            *)
(***************************************************************************)
LEMMA JoinedText ==
  ASSUME NEW t \in Seq(Character), BracesOpen(t), NEW p, IsClosed(p, t)
  PROVE  /\ p \in Seq(Character) /\ Len(p) = Len(t) + 1 /\ p[Len(t) + 1] = "}"
         /\ \A i \in 1..Len(t) : p[i] = t[i]
         /\ \A i \in 1..Len(p) : \A c : IsMeta(p, i, c) <=> p[i] = c
<1>1. PICK L \in Nat : L = Len(t) /\ L >= 1
  <2>1. Len(t) \in Nat
    BY LenProperties
  <2>. QED BY <2>1, Zenon DEF BracesOpen
<1>2. p \in Seq(Character) /\ Len(p) = L + 1 /\ p[L + 1] = "}" /\ \A i \in 1..L : p[i] = t[i]
  <2>1. PICK v \in Character : v = "}"
    BY FiltersAssumption, Zenon
  <2>2. /\ Append(t, v) \in Seq(Character) /\ Len(Append(t, v)) = Len(t) + 1
        /\ \A i \in 1..Len(t) : Append(t, v)[i] = t[i]
        /\ Append(t, v)[Len(t) + 1] = v
    BY AppendProperties
  <2>. QED BY <1>1, <2>1, <2>2, Zenon DEF IsClosed
<1>3. ASSUME NEW i \in 1..(L + 1) PROVE p[i] # "\\"
  <2>1. CASE i = L + 1
    <3>1. p[i] = "}"
      BY <1>2, <2>1, Zenon
    <3>. QED BY <3>1
  <2>2. CASE i = 1
    <3>1. 1 \in 1..L
      BY <1>1
    <3>2. p[i] = "{"
      BY <1>2, <2>2, <3>1, Zenon DEF BracesOpen
    <3>. QED BY <3>2
  <2>3. CASE i # 1 /\ i # L + 1
    <3>1. i \in 2..L /\ i \in 1..L
      BY <1>1, <2>3
    <3>2. Ordinary(t, i) /\ p[i] = t[i]
      BY <1>1, <1>2, <3>1, Zenon DEF BracesOpen
    <3>. QED BY <3>2, Zenon DEF Ordinary
  <2>. QED BY <2>1, <2>2, <2>3
<1>4. \A i \in 1..Len(p) : \A c : IsMeta(p, i, c) <=> p[i] = c
  BY <1>2, <1>3, NotEscaped
<1>. QED BY <1>1, <1>2, <1>4, Zenon

\* Its braces are open from the first character to the last one.
LEMMA JoinedDepth ==
  ASSUME NEW t \in Seq(Character), BracesOpen(t), NEW p, IsClosed(p, t)
  PROVE  (\A i \in 1..Len(t) : Depth(p)[i] = 1) /\ Depth(p)[Len(t) + 1] = 0
<1>1. PICK L \in Nat : L = Len(t) /\ L >= 1
  <2>1. Len(t) \in Nat
    BY LenProperties
  <2>. QED BY <2>1, Zenon DEF BracesOpen
<1>2. /\ Len(p) = L + 1 /\ p[L + 1] = "}" /\ \A i \in 1..L : p[i] = t[i]
      /\ \A i \in 1..(L + 1) : \A c : IsMeta(p, i, c) <=> p[i] = c
  <2>1. /\ p \in Seq(Character) /\ Len(p) = Len(t) + 1 /\ p[Len(t) + 1] = "}"
        /\ \A i \in 1..Len(t) : p[i] = t[i]
        /\ \A i \in 1..Len(p) : \A c : IsMeta(p, i, c) <=> p[i] = c
    BY JoinedText
  <2>. QED BY <1>1, <2>1, Zenon
<1>3. t[1] = "{" /\ \A i \in 2..L : Ordinary(t, i)
  BY <1>1, Zenon DEF BracesOpen
<1>. DEFINE D(d, i) == IF i = 0 THEN 0
                       ELSE IF IsMeta(p, i, "{") THEN d[i - 1] + 1
                       ELSE IF IsMeta(p, i, "}") /\ d[i - 1] > 0 THEN d[i - 1] - 1
                       ELSE d[i - 1]
            Is(d) == d = [i \in 0..(L + 1) |-> D(d, i)]
            e == [i \in 0..(L + 1) |-> IF i \in 1..L THEN 1 ELSE 0]
<1>4. IsMeta(p, 1, "{") /\ 1 \in 1..L /\ 1 \in 1..(L + 1)
  <2>1. 1 \in 1..L /\ 1 \in 1..(L + 1)
    BY <1>1
  <2>. QED BY <1>2, <1>3, <2>1, Zenon
<1>5. ASSUME NEW i \in 2..L PROVE ~IsMeta(p, i, "{") /\ ~IsMeta(p, i, "}")
  <2>1. i \in 1..L /\ i \in 1..(L + 1)
    OBVIOUS
  <2>2. p[i] # "{" /\ p[i] # "}"
    BY <1>2, <1>3, <2>1, Zenon DEF Ordinary
  <2>. QED BY <1>2, <2>1, <2>2, Zenon
<1>6. ~IsMeta(p, L + 1, "{") /\ IsMeta(p, L + 1, "}")
  <2>1. L + 1 \in 1..(L + 1) /\ "}" # "{"
    OBVIOUS
  <2>. QED BY <1>2, <2>1, Zenon
<1>7. ASSUME NEW d PROVE
        /\ D(d, 0) = 0 /\ D(d, 1) = d[0] + 1
        /\ \A i \in 2..L : D(d, i) = d[i - 1]
        /\ D(d, L + 1) = IF d[L] > 0 THEN d[L] - 1 ELSE d[L]
  <2>1. D(d, 0) = 0
    BY Zenon
  <2>2. D(d, 1) = d[0] + 1
    <3>1. 1 # 0 /\ 1 - 1 = 0
      OBVIOUS
    <3>. QED BY <1>4, <3>1, Zenon
  <2>3. ASSUME NEW i \in 2..L PROVE D(d, i) = d[i - 1]
    <3>1. i # 0
      OBVIOUS
    <3>. QED BY <1>5, <3>1, Zenon
  <2>4. D(d, L + 1) = IF d[L] > 0 THEN d[L] - 1 ELSE d[L]
    <3>1. L + 1 # 0 /\ (L + 1) - 1 = L
      OBVIOUS
    <3>. QED BY <1>6, <3>1, Zenon
  <2>. QED BY <2>1, <2>2, <2>3, <2>4, Zenon
<1>. HIDE DEF D
<1>8. Is(e)
  <2>1. e[0] = 0 /\ (\A i \in 1..L : e[i] = 1) /\ e[L + 1] = 0
    OBVIOUS
  <2>. HIDE DEF e
  <2>2. ASSUME NEW i \in 0..(L + 1) PROVE e[i] = D(e, i)
    <3>1. CASE i = 0
      BY <1>7, <2>1, <3>1, Zenon
    <3>2. CASE i = 1
      <4>1. 1 = 0 + 1
        OBVIOUS
      <4>. QED BY <1>4, <1>7, <2>1, <3>2, <4>1, Zenon
    <3>3. CASE i \in 2..L
      <4>1. i \in 1..L /\ i - 1 \in 1..L
        BY <3>3
      <4>. QED BY <1>7, <2>1, <3>3, <4>1, Zenon
    <3>4. CASE i = L + 1
      <4>1. e[L] = 1 /\ 1 > 0 /\ 0 = 1 - 1
        BY <1>1, <2>1
      <4>. QED BY <1>7, <2>1, <3>4, <4>1, Zenon
    <3>. QED BY <3>1, <3>2, <3>3, <3>4
  <2>3. e = [i \in 0..(L + 1) |-> e[i]]
    BY DEF e
  <2>. QED BY <2>2, <2>3, Zenon
<1>9. Is(Depth(p))
  <2>1. Depth(p) = CHOOSE d : Is(d)
    BY <1>2, Zenon DEF Depth, D
  <2>. HIDE DEF Is, e
  <2>. QED BY <1>8, <2>1, Zenon
<1>10. PICK d : d = Depth(p)
  OBVIOUS
<1>11. \A i \in 0..(L + 1) : d[i] = D(d, i)
  BY <1>9, <1>10, Zenon
<1>12. d[0] = 0 /\ d[1] = d[0] + 1 /\ (\A i \in 2..L : d[i] = d[i - 1])
       /\ d[L + 1] = IF d[L] > 0 THEN d[L] - 1 ELSE d[L]
  <2>1. 0 \in 0..(L + 1) /\ 1 \in 0..(L + 1) /\ L + 1 \in 0..(L + 1) /\ \A i \in 2..L : i \in 0..(L + 1)
    OBVIOUS
  <2>. QED BY <1>7, <1>11, <2>1, Zenon
<1>. DEFINE N == {n \in Nat : n \in 1..L => d[n] = 1}
<1>13. ASSUME NEW n \in Nat, n \in N PROVE n + 1 \in N
  <2>. SUFFICES ASSUME n + 1 \in 1..L PROVE d[n + 1] = 1
    OBVIOUS
  <2>1. CASE n = 0
    BY <1>12, <2>1
  <2>2. CASE n # 0
    <3>1. n \in 1..L /\ n + 1 \in 2..L /\ (n + 1) - 1 = n
      BY <2>2
    <3>. QED BY <1>12, <1>13, <3>1, Zenon
  <2>. QED BY <2>1, <2>2
<1>14. Nat \subseteq N
  <2>1. 0 \in N
    OBVIOUS
  <2>. HIDE DEF N
  <2>. QED BY <1>13, <2>1, NatInSet
<1>15. \A i \in 1..L : d[i] = 1
  BY <1>14
<1>16. d[L + 1] = 0
  BY <1>1, <1>12, <1>15
<1>. QED BY <1>1, <1>10, <1>15, <1>16, Zenon

\* One letter that is no mark.
LetterStep(c, s, rest) ==
    IF c = "*" THEN {j \in 1..(Len(s) + 1) : \E k \in rest : j <= k}
    ELSE {j \in 1..Len(s) : (c = "?" \/ c = s[j]) /\ j + 1 \in rest}

StepsThrough(t, p, s, m) ==
    /\ GlobStep(p, s, 1, m) = UNION {m[i] : i \in {k \in Nat : Follows(t, k)}}
    /\ \A i \in 2..Len(t) :
          IF Comma(t, i) THEN GlobStep(p, s, i, m) = m[Len(t) + 2]
          ELSE GlobStep(p, s, i, m) = LetterStep(t[i], s, m[i + 1])
    /\ GlobStep(p, s, Len(t) + 1, m) = m[Len(t) + 2]
    /\ GlobStep(p, s, Len(t) + 2, m) = {Len(s) + 1}

\* The first brace opens the way to what follows a mark, and a mark ends the glob.
LEMMA JoinedSteps ==
  ASSUME NEW t \in Seq(Character), BracesOpen(t), NEW p, IsClosed(p, t), NEW s, NEW m
  PROVE  StepsThrough(t, p, s, m)
<1>1. PICK L \in Nat : L = Len(t) /\ L >= 1
  <2>1. Len(t) \in Nat
    BY LenProperties
  <2>. QED BY <2>1, Zenon DEF BracesOpen
<1>2. /\ Len(p) = L + 1 /\ p[L + 1] = "}" /\ \A i \in 1..L : p[i] = t[i]
      /\ \A i \in 1..(L + 1) : \A c : IsMeta(p, i, c) <=> p[i] = c
  <2>1. /\ p \in Seq(Character) /\ Len(p) = Len(t) + 1 /\ p[Len(t) + 1] = "}"
        /\ \A i \in 1..Len(t) : p[i] = t[i]
        /\ \A i \in 1..Len(p) : \A c : IsMeta(p, i, c) <=> p[i] = c
    BY JoinedText
  <2>. QED BY <1>1, <2>1, Zenon
<1>3. t[1] = "{" /\ \A i \in 2..L : Ordinary(t, i)
  BY <1>1, Zenon DEF BracesOpen
<1>4. (\A i \in 1..L : Depth(p)[i] = 1) /\ Depth(p)[L + 1] = 0
  BY <1>1, JoinedDepth
<1>5. \A i \in 1..(L + 1) : ~(i > Len(p))
  <2>1. Len(p) = L + 1
    BY <1>2, Zenon
  <2>. QED BY <2>1
<1>6. \A i \in 2..(L + 1) : Inside(p, i)
  <2>1. ASSUME NEW i \in 2..(L + 1) PROVE Depth(p)[i - 1] > 0
    <3>1. i - 1 \in 1..L /\ 1 > 0
      OBVIOUS
    <3>. QED BY <1>4, <3>1, Zenon
  <2>. QED BY <2>1, Zenon DEF Inside
<1>7. ASSUME NEW i \in 2..L PROVE AfterBraces(p, i) = L + 2
  <2>1. Depth(p)[i] = 1
    <3>1. i \in 1..L
      OBVIOUS
    <3>. QED BY <1>4, <3>1, Zenon
  <2>2. ASSUME NEW k PROVE (k \in i..(L + 1) /\ Depth(p)[k] < Depth(p)[i]) <=> k = L + 1
    <3>1. k \in i..(L + 1) => k \in 1..L \/ k = L + 1
      OBVIOUS
    <3>2. k \in 1..L => Depth(p)[k] = 1 /\ ~(1 < 1)
      BY <1>4
    <3>3. L + 1 \in i..(L + 1) /\ 0 < 1
      OBVIOUS
    <3>. QED BY <1>4, <2>1, <3>1, <3>2, <3>3, Zenon
  <2>3. {k \in i..(L + 1) : Depth(p)[k] < Depth(p)[i]} = {L + 1}
    BY <2>2, Zenon
  <2>4. AfterBraces(p, i) = Min({L + 1}) + 1
    <3>1. {L + 1} # {}
      OBVIOUS
    <3>. QED BY <1>2, <2>3, <3>1, Zenon DEF AfterBraces
  <2>5. Min({L + 1}) = L + 1
    <3>1. {L + 1} \in SUBSET Nat /\ {L + 1} # {}
      OBVIOUS
    <3>2. Min({L + 1}) \in {L + 1}
      BY <3>1, LeastIn, Zenon
    <3>. QED BY <3>2
  <2>. QED BY <2>4, <2>5
<1>8. GlobStep(p, s, 1, m) = UNION {m[i] : i \in {k \in Nat : Follows(t, k)}}
  <2>0. 1 \in 1..L /\ 1 \in 1..(L + 1)
    BY <1>1
  <2>1. IsMeta(p, 1, "{") /\ ~IsMeta(p, 1, "*") /\ ~IsMeta(p, 1, "?")
    <3>1. p[1] = "{"
      BY <1>2, <1>3, <2>0, Zenon
    <3>2. "{" # "*" /\ "{" # "?"
      OBVIOUS
    <3>. QED BY <1>2, <2>0, <3>1, <3>2, Zenon
  <2>2. GlobStep(p, s, 1, m) = UNION {m[k + 1] : k \in {1} \cup Separators(p, 1)}
    BY <1>5, <2>0, <2>1, Zenon DEF GlobStep
  <2>3. ASSUME NEW k \in 1..(L + 1) PROVE k \in Separators(p, 1) <=> k \in 2..L /\ Comma(t, k)
    <3>0. Depth(p)[1] = 1
      BY <1>4, <2>0, Zenon
    <3>1. k \in Separators(p, 1) <=> /\ p[k] = ","
                                     /\ Depth(p)[k] = 1 /\ \A x \in 1..k : Depth(p)[x] >= 1
      BY <1>2, <3>0, Zenon DEF Separators
    <3>2. CASE k = 1
      <4>1. "{" # "," /\ k \notin 2..L
        BY <3>2
      <4>2. p[k] = "{"
        BY <1>2, <1>3, <2>0, <3>2, Zenon
      <4>. QED BY <3>1, <4>1, <4>2, Zenon
    <3>3. CASE k = L + 1
      <4>1. "}" # "," /\ k \notin 2..L
        BY <3>3
      <4>. QED BY <1>2, <3>1, <3>3, <4>1, Zenon
    <3>4. CASE k \in 2..L
      <4>1. k \in 1..L /\ (\A x \in 1..k : x \in 1..L) /\ 1 >= 1
        BY <3>4
      <4>2. Depth(p)[k] = 1 /\ \A x \in 1..k : Depth(p)[x] >= 1
        BY <1>4, <4>1, Zenon
      <4>. QED BY <1>2, <3>1, <3>4, <4>1, <4>2, Zenon DEF Comma
    <3>. QED BY <3>2, <3>3, <3>4
  <2>4. Separators(p, 1) \subseteq 1..(L + 1)
    BY <1>2, Zenon DEF Separators
  <2>5. ASSUME NEW k \in {1} \cup Separators(p, 1) PROVE k + 1 \in Nat /\ Follows(t, k + 1)
    <3>1. CASE k = 1
      <4>1. k + 1 = 2 /\ 2 \in Nat /\ 2 \in 2..(L + 1)
        BY <1>1, <3>1
      <4>. QED BY <1>1, <4>1, Zenon DEF Follows
    <3>2. CASE k \in Separators(p, 1)
      <4>1. k \in 2..L /\ Comma(t, k)
        BY <2>3, <2>4, <3>2
      <4>2. k + 1 \in Nat /\ k + 1 \in 2..(L + 1) /\ (k + 1) - 1 = k
        BY <4>1
      <4>. QED BY <1>1, <4>1, <4>2, Zenon DEF Follows
    <3>. QED BY <3>1, <3>2
  <2>6. ASSUME NEW i \in Nat, Follows(t, i) PROVE \E k \in {1} \cup Separators(p, 1) : i = k + 1
    <3>1. i \in 2..(L + 1) /\ (i = 2 \/ Comma(t, i - 1))
      BY <1>1, <2>6, Zenon DEF Follows
    <3>2. i - 1 \in 1..(L + 1) /\ i = (i - 1) + 1 /\ (i # 2 => i - 1 \in 2..L) /\ (i = 2 => i - 1 = 1)
      BY <3>1
    <3>3. i - 1 \in {1} \cup Separators(p, 1)
      BY <2>3, <3>1, <3>2
    <3>. QED BY <3>2, <3>3, Zenon
  <2>7. {m[k + 1] : k \in {1} \cup Separators(p, 1)} = {m[i] : i \in {k \in Nat : Follows(t, k)}}
    BY <2>5, <2>6, Zenon
  <2>. QED BY <2>2, <2>7, Zenon
<1>9. ASSUME NEW i \in 2..L, Comma(t, i) PROVE GlobStep(p, s, i, m) = m[L + 2]
  <2>1. i \in 1..L /\ i \in 1..(L + 1) /\ i \in 2..(L + 1)
    OBVIOUS
  <2>2. p[i] = ","
    BY <1>2, <1>9, <2>1, Zenon DEF Comma
  <2>3. "," # "*" /\ "," # "?" /\ "," # "{"
    OBVIOUS
  <2>4. IsMeta(p, i, ",") /\ ~IsMeta(p, i, "*") /\ ~IsMeta(p, i, "?") /\ ~IsMeta(p, i, "{")
    BY <1>2, <2>1, <2>2, <2>3, Zenon
  <2>. QED BY <1>5, <1>6, <1>7, <2>1, <2>4, Zenon DEF GlobStep
<1>10. ASSUME NEW i \in 2..L, ~Comma(t, i) PROVE GlobStep(p, s, i, m) = LetterStep(t[i], s, m[i + 1])
  <2>1. i \in 1..L /\ i \in 1..(L + 1) /\ i \in 2..(L + 1)
    OBVIOUS
  <2>2. p[i] = t[i] /\ p[i] # "," /\ p[i] # "{" /\ p[i] # "}" /\ p[i] # "\\"
    <3>1. p[i] = t[i] /\ p[i] \notin {"{", "}", "\\"}
      BY <1>2, <1>3, <2>1, Zenon DEF Ordinary
    <3>2. p[i] # ","
      BY <1>10, <3>1, Zenon DEF Comma
    <3>. QED BY <3>1, <3>2, Zenon
  <2>3. \A c : IsMeta(p, i, c) <=> p[i] = c
    BY <1>2, <2>1, Zenon
  <2>4. CASE p[i] = "*"
    BY <1>5, <2>1, <2>2, <2>3, <2>4, Zenon DEF GlobStep, LetterStep
  <2>5. CASE p[i] = "?"
    <3>1. p[i] # "*"
      BY <2>5
    <3>2. GlobStep(p, s, i, m) = {j \in 1..Len(s) : j + 1 \in m[i + 1]}
      BY <1>5, <2>1, <2>3, <2>5, <3>1, Zenon DEF GlobStep
    <3>. QED BY <2>2, <2>5, <3>1, <3>2, Zenon DEF LetterStep
  <2>6. CASE p[i] # "*" /\ p[i] # "?"
    <3>1. GlobStep(p, s, i, m) = {j \in 1..Len(s) : p[i] = s[j] /\ j + 1 \in m[i + 1]}
      BY <1>5, <2>1, <2>2, <2>3, <2>6, Zenon DEF GlobStep
    <3>. QED BY <2>2, <2>6, <3>1, Zenon DEF LetterStep
  <2>. QED BY <2>4, <2>5, <2>6
<1>11. GlobStep(p, s, L + 1, m) = m[L + 2]
  <2>1. L + 1 \in 1..(L + 1) /\ L + 1 \in 2..(L + 1) /\ (L + 1) + 1 = L + 2
    BY <1>1
  <2>2. "}" # "*" /\ "}" # "?" /\ "}" # "{" /\ "}" # ","
    OBVIOUS
  <2>3. IsMeta(p, L + 1, "}") /\ ~IsMeta(p, L + 1, "*") /\ ~IsMeta(p, L + 1, "?")
        /\ ~IsMeta(p, L + 1, "{") /\ ~IsMeta(p, L + 1, ",")
    BY <1>2, <2>1, <2>2, Zenon
  <2>. QED BY <1>5, <1>6, <2>1, <2>3, Zenon DEF GlobStep
<1>12. GlobStep(p, s, L + 2, m) = {Len(s) + 1}
  <2>1. Len(p) = L + 1 /\ L + 2 > L + 1
    <3>1. L + 2 > L + 1
      OBVIOUS
    <3>. QED BY <1>2, <3>1, Zenon
  <2>. QED BY <2>1, Zenon DEF GlobStep
<1>. QED BY <1>1, <1>8, <1>9, <1>10, <1>11, <1>12, Zenon DEF StepsThrough

\* A glob that stands in the joined text matches there what it matches alone.
LEMMA MemberMatches ==
  ASSUME NEW t \in Seq(Character), BracesOpen(t), NEW p, IsClosed(p, t), NEW s,
         NEW m, IsGlob(m, p, s),
         NEW r \in Seq(Character), Plain(r), NEW g, IsGlob(g, r, s),
         NEW i \in Nat, Stands(t, r, i)
  PROVE  m[i] = g[1]
<1>1. PICK L \in Nat : L = Len(t) /\ L >= 1
  <2>1. Len(t) \in Nat
    BY LenProperties
  <2>. QED BY <2>1, Zenon DEF BracesOpen
<1>2. PICK R \in Nat : R = Len(r)
  BY LenProperties
<1>3. /\ i \in 2..(L + 1) /\ i + R <= L + 1
      /\ \A x \in 1..R : t[(i + x) - 1] = r[x]
      /\ i + R = L + 1 \/ Comma(t, i + R)
  BY <1>1, <1>2, Zenon DEF Stands, Follows
<1>4. Len(p) = L + 1
  BY <1>1, JoinedText
<1>5. \A y \in 1..(L + 2) : m[y] = GlobStep(p, s, y, m)
  <2>1. (L + 1) + 1 = L + 2
    OBVIOUS
  <2>. QED BY <1>4, <2>1, Zenon DEF IsGlob
<1>6. \A x \in 1..(R + 1) : g[x] = PlainStep(r, s, x, g[x + 1])
  <2>1. \A x \in 1..(R + 1) : g[x] = GlobStep(r, s, x, g)
    BY <1>2, Zenon DEF IsGlob
  <2>. QED BY <1>2, <2>1, PlainSteps
<1>7. /\ \A y \in 2..L : IF Comma(t, y) THEN GlobStep(p, s, y, m) = m[L + 2]
                         ELSE GlobStep(p, s, y, m) = LetterStep(t[y], s, m[y + 1])
      /\ GlobStep(p, s, L + 1, m) = m[L + 2]
      /\ GlobStep(p, s, L + 2, m) = {Len(s) + 1}
  <2>1. StepsThrough(t, p, s, m)
    BY JoinedSteps
  <2>. QED BY <1>1, <2>1, Zenon DEF StepsThrough
<1>8. m[i + R] = {Len(s) + 1}
  <2>1. L + 2 \in 1..(L + 2) /\ L + 1 \in 1..(L + 2) /\ \A y \in 2..L : y \in 1..(L + 2)
    OBVIOUS
  <2>2. m[L + 2] = {Len(s) + 1}
    BY <1>5, <1>7, <2>1, Zenon
  <2>3. CASE i + R = L + 1
    BY <1>5, <1>7, <2>1, <2>2, <2>3, Zenon
  <2>4. CASE i + R # L + 1
    <3>0. i \in 2..(L + 1) /\ i + R <= L + 1
      BY <1>3, Zenon
    <3>1. i + R \in 2..L
      BY <2>4, <3>0
    <3>. QED BY <1>3, <1>5, <1>7, <2>1, <2>2, <2>4, <3>1, Zenon
  <2>. QED BY <2>3, <2>4
<1>9. g[R + 1] = {Len(s) + 1}
  <2>1. R + 1 \in 1..(R + 1) /\ R + 1 > R
    OBVIOUS
  <2>. QED BY <1>2, <1>6, <2>1, Zenon DEF PlainStep
<1>. DEFINE N == {n \in Nat : n <= R => m[(i + R) - n] = g[(R + 1) - n]}
<1>10. 0 \in N
  <2>1. (i + R) - 0 = i + R /\ (R + 1) - 0 = R + 1
    OBVIOUS
  <2>. QED BY <1>8, <1>9, <2>1
<1>11. ASSUME NEW n \in Nat, n \in N PROVE n + 1 \in N
  <2>. SUFFICES ASSUME n + 1 <= R PROVE m[(i + R) - (n + 1)] = g[(R + 1) - (n + 1)]
    OBVIOUS
  <2>0. i \in 2..(L + 1) /\ i + R <= L + 1
    BY <1>3, Zenon
  <2>1. PICK x \in 1..R : x = (R + 1) - (n + 1) /\ x + 1 = (R + 1) - n /\ x \in 1..(R + 1) /\ ~(x > R)
    OBVIOUS
  <2>2. PICK y \in 2..L : /\ y = (i + R) - (n + 1) /\ y + 1 = (i + R) - n /\ y = (i + x) - 1
                          /\ y \in 1..(L + 2)
    BY <2>0, <2>1
  <2>3. m[y + 1] = g[x + 1]
    <3>1. n <= R
      OBVIOUS
    <3>. QED BY <1>11, <2>1, <2>2, <3>1, Zenon
  <2>4. t[y] = r[x] /\ ~Comma(t, y)
    <3>1. t[y] = r[x]
      BY <1>3, <2>2, Zenon
    <3>2. r[x] # ","
      BY <1>2, Zenon DEF Plain
    <3>. QED BY <3>1, <3>2, Zenon DEF Comma
  <2>5. m[y] = LetterStep(r[x], s, m[y + 1])
    BY <1>5, <1>7, <2>2, <2>4, Zenon
  <2>6. g[x] = LetterStep(r[x], s, g[x + 1])
    BY <1>2, <1>6, <2>1, Zenon DEF PlainStep, LetterStep
  <2>. QED BY <2>1, <2>2, <2>3, <2>5, <2>6, Zenon
<1>12. R \in N
  <2>1. Nat \subseteq N
    <3>. HIDE DEF N
    <3>. QED BY <1>10, <1>11, NatInSet
  <2>. QED BY <2>1
<1>13. R <= R /\ (i + R) - R = i /\ (R + 1) - R = 1
  <2>1. i \in Nat
    OBVIOUS
  <2>. QED BY <2>1
<1>. QED BY <1>12, <1>13, Zenon

\* Joined globs match what one of them matches.
LEMMA JoinedMatches ==
  ASSUME NEW list, NEW globs, NEW t, Shaped(t, list, globs), PlainList(list, globs),
         IsClosed(Joined(list, globs), t), NEW s
  PROVE  GlobMatches(Joined(list, globs), s) <=> \E k \in globs : GlobMatches(list[k], s)
<1>1. t \in Seq(Character) /\ BracesOpen(t)
  BY Zenon DEF Shaped
<1>2. PICK p : p = Joined(list, globs) /\ IsClosed(p, t)
  BY Zenon
<1>3. p \in Seq(Character) /\ Len(p) = Len(t) + 1
  BY <1>1, <1>2, JoinedText
<1>4. PICK m : IsGlob(m, p, s) /\ (GlobMatches(p, s) <=> 1 \in m[1])
  BY <1>3, GlobValue
<1>5. m[1] = UNION {m[i] : i \in {k \in Nat : Follows(t, k)}}
  <2>1. GlobStep(p, s, 1, m) = UNION {m[i] : i \in {k \in Nat : Follows(t, k)}}
    <3>1. StepsThrough(t, p, s, m)
      BY <1>1, <1>2, JoinedSteps
    <3>. QED BY <3>1, Zenon DEF StepsThrough
  <2>2. 1 \in 1..(Len(p) + 1)
    <3>1. Len(p) \in Nat
      BY <1>3, LenProperties
    <3>. QED BY <3>1
  <2>3. m[1] = GlobStep(p, s, 1, m)
    BY <1>4, <2>2, Zenon DEF IsGlob
  <2>. QED BY <2>1, <2>3, Zenon
<1>6. ASSUME NEW k \in globs, NEW i \in Nat, Stands(t, list[k], i)
      PROVE  1 \in m[i] <=> GlobMatches(list[k], s)
  <2>1. list[k] \in Seq(Character) /\ Plain(list[k])
    BY Zenon DEF PlainList
  <2>2. PICK g : IsGlob(g, list[k], s) /\ (GlobMatches(list[k], s) <=> 1 \in g[1])
    BY <2>1, GlobValue
  <2>3. m[i] = g[1]
    BY <1>1, <1>2, <1>4, <1>6, <2>1, <2>2, MemberMatches
  <2>. QED BY <2>2, <2>3, Zenon
<1>7. ASSUME 1 \in m[1] PROVE \E k \in globs : GlobMatches(list[k], s)
  <2>1. PICK i \in Nat : Follows(t, i) /\ 1 \in m[i]
    <3>. DEFINE F == {k \in Nat : Follows(t, k)}
                S == {m[i] : i \in F}
    <3>1. 1 \in UNION S
      BY <1>5, <1>7, Zenon
    <3>2. PICK u \in S : 1 \in u
      <4>. HIDE DEF S
      <4>. QED BY <3>1
    <3>3. PICK i \in F : u = m[i]
      <4>. HIDE DEF F
      <4>. QED BY <3>2
    <3>. QED BY <3>2, <3>3, Zenon
  <2>2. PICK k \in globs : Stands(t, list[k], i)
    BY <2>1, Zenon DEF Shaped
  <2>. QED BY <1>6, <2>1, <2>2, Zenon
<1>8. ASSUME NEW k \in globs, GlobMatches(list[k], s) PROVE 1 \in m[1]
  <2>1. PICK i \in Nat : Stands(t, list[k], i)
    BY Zenon DEF Shaped
  <2>2. Follows(t, i)
    BY <2>1, Zenon DEF Stands
  <2>. QED BY <1>5, <1>6, <1>8, <2>1, <2>2, Zenon
<1>. QED BY <1>2, <1>4, <1>7, <1>8, Zenon

(***************************************************************************)
(* Lists.                                                                  *)
(***************************************************************************)
\* Patterns of a list are there to be compiled.
LEMMA ListTyped ==
  ASSUME NEW list \in PatternLists
  PROVE  /\ \E n \in Nat : DOMAIN list = 1..n /\ Len(list) = n
         /\ IsFiniteSet(DOMAIN list)
         /\ \A k \in DOMAIN list : list[k] \in Seq(Character)
         /\ list # <<>> <=> DOMAIN list # {}
<1>1. PICK n \in 0..MaxPatterns : list \in [1..n -> Patterns]
  BY DEF PatternLists
<1>2. n \in Nat
  <2>1. MaxPatterns \in Nat
    BY FiltersAssumption, Zenon
  <2>. QED BY <1>1, <2>1
<1>3. IsFiniteSet(1..n)
  BY <1>2, FS_Interval
<1>4. list # <<>> <=> DOMAIN list # {}
  BY <1>1, <1>2
<1>5. \A k \in DOMAIN list : list[k] \in Seq(Character)
  BY <1>1, FiltersAssumption, Zenon
<1>6. DOMAIN list = 1..n /\ Len(list) = n
  BY <1>1, <1>2
<1>. QED BY <1>2, <1>3, <1>4, <1>5, <1>6

\* The globs of a list, as FilterMatches takes them
Globs(list) == {k \in DOMAIN list : ~isRegexPattern(list[k])}

Joins(list) == Cardinality(Globs(list)) > 1 /\ \E k \in Globs(list) : HasMeta(list[k])

\* Nothing in the globs that are joined has a meaning in braces.
LEMMA JoinedArePlain ==
  ASSUME NEW list \in PatternLists, ~JoinedOtherwise(list), Joins(list)
  PROVE  PlainList(list, Globs(list))
<1>1. \A k \in Globs(list) : \A c \in {"{", "}", ",", "\\"} : ~Contains(list[k], c)
  BY Zenon DEF JoinedOtherwise, Globs, Joins
<1>2. ASSUME NEW k \in Globs(list) PROVE list[k] \in Seq(Character) /\ Plain(list[k])
  <2>1. list[k] \in Seq(Character)
    BY ListTyped, Zenon DEF Globs
  <2>2. PICK n \in Nat : n = Len(list[k]) /\ DOMAIN list[k] = 1..n
    BY <2>1, LenProperties
  <2>3. \A i \in 1..n : list[k][i] \notin {"{", "}", ",", "\\"}
    BY <1>1, <2>2, Zenon DEF Contains
  <2>. QED BY <2>1, <2>2, <2>3, Zenon DEF Plain
<1>. QED BY <1>2, Zenon DEF PlainList

\* A set of globs that is not joined has one of them or no meta characters.
LEMMA GlobsMatch ==
  ASSUME NEW list \in PatternLists, ~JoinedOtherwise(list), NEW s \in Seq(Character), Globs(list) # {}
  PROVE  GlobFilterMatches(list, Globs(list), s) <=> \E k \in Globs(list) : Matches(list[k], s)
<1>. DEFINE globs == Globs(list)
<1>1. \A k \in globs : list[k] \in Seq(Character)
  BY ListTyped, Zenon DEF Globs
<1>2. \A k \in globs : IF HasMeta(list[k]) THEN Matches(list[k], s) <=> GlobMatches(list[k], s)
                       ELSE Matches(list[k], s) <=> list[k] = s
  BY Zenon DEF Matches, Globs
<1>3. CASE ~AnyHasMeta(list, globs)
  BY <1>2, <1>3, Zenon DEF GlobFilterMatches, AnyHasMeta
<1>4. CASE AnyHasMeta(list, globs) /\ Cardinality(globs) = 1
  <2>1. \A k \in globs : HasMeta(list[k])
    <3>1. IsFiniteSet(globs)
      BY ListTyped, FS_Subset DEF Globs
    <3>2. PICK x : globs = {x}
      BY <1>4, <3>1, FS_Singleton
    <3>. QED BY <1>4, <3>2, Zenon DEF AnyHasMeta
  <2>. QED BY <1>2, <1>4, <2>1, Zenon DEF GlobFilterMatches
<1>5. CASE AnyHasMeta(list, globs) /\ Cardinality(globs) # 1
  <2>1. Joins(list)
    <3>1. IsFiniteSet(globs)
      BY ListTyped, FS_Subset DEF Globs
    <3>2. Cardinality(globs) \in Nat /\ Cardinality(globs) # 0
      BY <3>1, FS_CardinalityType, FS_EmptySet
    <3>3. Cardinality(globs) > 1
      BY <1>5, <3>2
    <3>. QED BY <1>5, <3>3, Zenon DEF Joins, AnyHasMeta
  <2>2. PlainList(list, globs)
    BY <2>1, JoinedArePlain
  <2>3. PICK t : IsClosed(Joined(list, globs), t) /\ Shaped(t, list, globs)
    <3>1. PICK n \in Nat : DOMAIN list = 1..n /\ Len(list) = n
      BY ListTyped
    <3>2. globs \in SUBSET (1..n)
      BY <3>1, Zenon DEF Globs
    <3>. HIDE DEF globs
    <3>. QED BY <2>2, <3>1, <3>2, ShapeOfJoined DEF globs
  <2>4. GlobMatches(Joined(list, globs), s) <=> \E k \in globs : GlobMatches(list[k], s)
    BY <2>2, <2>3, JoinedMatches
  <2>5. \A k \in globs : ~HasMeta(list[k]) => (GlobMatches(list[k], s) <=> list[k] = s)
    <3>1. \A k \in globs : Plain(list[k])
      BY <2>2, Zenon DEF PlainList
    <3>. QED BY <1>1, <3>1, WordMatches
  <2>6. \A k \in globs : GlobMatches(list[k], s) <=> Matches(list[k], s)
    BY <1>2, <2>5, Zenon
  <2>. QED BY <1>5, <2>4, <2>6, Zenon DEF GlobFilterMatches
<1>. QED BY <1>3, <1>4, <1>5

\* A list matches what one of its patterns matches.
LEMMA ListMatches ==
  ASSUME NEW list \in PatternLists, ~JoinedOtherwise(list), NEW s \in Seq(Character)
  PROVE  FilterMatches(list, s) <=> \E k \in DOMAIN list : Matches(list[k], s)
<1>1. FilterMatches(list, s) <=> \/ Globs(list) # {} /\ GlobFilterMatches(list, Globs(list), s)
                                 \/ \E k \in DOMAIN list \ Globs(list) : RegexMatches(list[k], s)
  BY Zenon DEF FilterMatches, Globs
<1>2. \A k \in DOMAIN list \ Globs(list) : Matches(list[k], s) <=> RegexMatches(list[k], s)
  BY Zenon DEF Matches, Globs
<1>3. Globs(list) # {} => (GlobFilterMatches(list, Globs(list), s) <=> \E k \in Globs(list) : Matches(list[k], s))
  BY GlobsMatch
<1>4. Globs(list) \subseteq DOMAIN list
  BY DEF Globs
<1>. QED BY <1>1, <1>2, <1>3, <1>4, Zenon

\* A verdict is that of the two filters.
FilterInv ==
    /\ include \in PatternLists /\ exclude \in PatternLists /\ text \in Texts
    /\ verdict \in {"open", "match", "other"}
    /\ verdict # "open" => (verdict = "match" <=> Included /\ ~Excluded)

LEMMA FilterStart == FilterInit => FilterInv
BY DEF FilterInit, FilterInv

LEMMA FilterStep == FilterInv /\ [FilterNext]_filterVars => FilterInv'
<1>. SUFFICES ASSUME FilterInv, [FilterNext]_filterVars PROVE FilterInv'
  OBVIOUS
<1>1. UNCHANGED <<include, exclude, includeDefault, excludeDefault, text>>
  BY DEF FilterNext, MatchText, filterVars
<1>2. (Included <=> Included') /\ (Excluded <=> Excluded')
  BY <1>1, Zenon DEF Included, Excluded
<1>3. CASE MatchText
  <2>1. verdict' = IF Included /\ ~Excluded THEN "match" ELSE "other"
    BY <1>3 DEF MatchText
  <2>2. PICK v \in BOOLEAN : v <=> Included /\ ~Excluded
    OBVIOUS
  <2>3. verdict' \in {"match", "other"} /\ (verdict' = "match" <=> Included /\ ~Excluded)
    BY <2>1
  <2>. QED BY <1>1, <1>2, <2>3 DEF FilterInv
<1>4. CASE UNCHANGED filterVars
  BY <1>1, <1>2, <1>4 DEF FilterInv, filterVars
<1>. QED BY <1>3, <1>4 DEF FilterNext

\* One list of patterns does what its patterns do, or what the default says.
Some(list, default) == IF list = <<>> THEN default ELSE \E k \in DOMAIN list : Matches(list[k], text)

LEMMA VerdictSound == FilterInv => FiltersSound
<1>. SUFFICES ASSUME FilterInv, verdict # "open", ~JoinedOtherwise(include), ~JoinedOtherwise(exclude)
              PROVE  verdict = "match" <=> Some(include, includeDefault) /\ ~Some(exclude, excludeDefault)
  BY Zenon DEF FiltersSound, Wanted, Some
<1>1. text \in Seq(Character) /\ include \in PatternLists /\ exclude \in PatternLists
  BY FiltersAssumption, Zenon DEF FilterInv
<1>2. Included <=> Some(include, includeDefault)
  <2>1. FilterMatches(include, text) <=> \E k \in DOMAIN include : Matches(include[k], text)
    BY <1>1, ListMatches
  <2>. QED BY <2>1, Zenon DEF Included, Some
<1>3. Excluded <=> Some(exclude, excludeDefault)
  <2>1. FilterMatches(exclude, text) <=> \E k \in DOMAIN exclude : Matches(exclude[k], text)
    BY <1>1, ListMatches
  <2>. QED BY <2>1, Zenon DEF Excluded, Some
<1>4. verdict = "match" <=> Included /\ ~Excluded
  BY DEF FilterInv
<1>. QED BY <1>2, <1>3, <1>4, Zenon

\* A filter matches a text exactly if one pattern of its list would match it alone, in both
\* roles and for any patterns, lists and texts (filter.go:36-103, 148-193), unless a glob
\* that is joined with others has a comma, a brace or a backslash of its own.
THEOREM FiltersAreSound == FilterSpec => []FiltersSound
BY FilterStart, FilterStep, VerdictSound, PTL DEF FilterSpec

(***************************************************************************)
(* The settings.  Each step of InitConfig leaves something that the later  *)
(* ones do not undo; Validate sees them as the client will use them.       *)
(***************************************************************************)
SettingsTyped ==
    /\ settings \in Config /\ env \in {NoText, "text"} /\ chain \in Seq(ModelName \cup {Gateway})
    /\ settingsPc \in {"load", "server", "gateway", "labels", "validate", "build", "built", "refused"}

\* The steps up to the one that has the next step behind it.
PastDefaults == settingsPc \in {"server", "gateway", "labels", "validate", "build", "built"}
PastServer   == settingsPc \in {"gateway", "labels", "validate", "build", "built"}
PastGateway  == settingsPc \in {"labels", "validate", "build", "built"}
PastLabels   == settingsPc \in {"validate", "build", "built"}

FinalChain ==
    IF ~settings.gateway.enabled THEN settings.priority
    ELSE (IF identity THEN <<Gateway>> ELSE <<>>)
         \o (IF settings.gateway.fallback THEN settings.priority ELSE <<>>)

SettingsInv ==
    /\ SettingsTyped
    /\ PastDefaults => settings.concurrent >= 1
    /\ PastServer /\ settings.server.enabled => settings.server.address # NoText
    /\ PastGateway /\ settings.gateway.enabled /\ settings.gateway.token = NoText =>
          settings.server.token = NoText
    /\ PastLabels /\ settings.server.enabled =>
          {"from_hostname", "from_hostip"} \subseteq settings.labels
    /\ settingsPc \in {"build", "built"} => Valid
    /\ settingsPc = "built" => settings.enabled /\ chain = FinalChain

LEMMA SettingsStart == SettingsInit => SettingsInv
BY SettingsAssumption
   DEF SettingsInit, SettingsInv, SettingsTyped, PastDefaults, PastServer, PastGateway, PastLabels

LEMMA RefuseStep == SettingsInv /\ Refuse => SettingsInv'
BY DEF Refuse, GoTo, SettingsInv, SettingsTyped, PastDefaults, PastServer, PastGateway, PastLabels

\* The parts of the settings.
LEMMA ConfigParts ==
  ASSUME NEW s \in Config
  PROVE  /\ s.enabled \in BOOLEAN /\ s.priority \in Seq(ModelName) /\ s.retries \in Int
         /\ s.models \in [ModelName -> Model \cup {Absent}] /\ s.concurrent \in Int
         /\ s.policy \in Policies
         /\ s.labels \in SUBSET {"from_hostname", "from_hostip"}
         /\ s.gateway.enabled \in BOOLEAN /\ s.gateway.fallback \in BOOLEAN
         /\ s.gateway.baseURL \in SomeText /\ s.gateway.token \in SomeText /\ s.gateway.retries \in Int
         /\ s.server.enabled \in BOOLEAN /\ s.server.address \in SomeText /\ s.server.token \in SomeText
BY DEF Config

\* A reference is resolved to a text (config.go:486-492).
LEMMA ResolvedText ==
  ASSUME env \in {NoText, "text"}, NEW t \in SomeText
  PROVE  resolveEnvRef(t) \in SomeText
BY DEF resolveEnvRef, SomeText

\* What the defaults and references make of a model.
LEMMA ResolvedTyped ==
  ASSUME env \in {NoText, "text"}, NEW m \in Model \cup {Absent}
  PROVE  ResolvedModel(m) \in Model \cup {Absent}
<1>1. \A t \in SomeText : resolveEnvRef(t) \in SomeText
  BY ResolvedText
<1>2. \A w \in Int : Defaulted(w, 1, DefaultWindow) \in Int
  BY SMT DEF Defaulted, DefaultWindow
<1>3. CASE m = Absent
  BY <1>3 DEF ResolvedModel
<1>4. CASE m \in Model /\ m # Absent
  <2>1. ResolvedModel(m) = [m EXCEPT !.key = resolveEnvRef(@), !.region = resolveEnvRef(@),
                                     !.window = Defaulted(@, 1, DefaultWindow)]
    BY <1>4, Zenon DEF ResolvedModel
  <2>. QED BY <1>1, <1>2, <1>4, <2>1 DEF Model
<1>. QED BY <1>3, <1>4

LEMMA ResolveAIStep == SettingsInv /\ ResolveAI => SettingsInv'
<1>. SUFFICES ASSUME SettingsInv, ResolveAI PROVE SettingsInv'
  OBVIOUS
<1>1. settings \in Config /\ env \in {NoText, "text"} /\ chain \in Seq(ModelName \cup {Gateway})
  BY DEF SettingsInv, SettingsTyped
<1>2. settingsPc' = "server" /\ UNCHANGED <<env, identity, chain>>
  BY DEF ResolveAI, GoTo
<1>3. PICK g \in Int, token \in SomeText, n \in Int, c \in Int, q \in Policies,
           ms \in [ModelName -> Model \cup {Absent}] :
        /\ settings' = [settings EXCEPT !.gateway.retries = g, !.gateway.token = token,
                           !.retries = n, !.concurrent = c, !.policy = q, !.models = ms]
        /\ c >= 1
  <2>. DEFINE g == IF settings.gateway.enabled /\ settings.gateway.retries = 0 THEN 1
                   ELSE settings.gateway.retries
              token == resolveEnvRef(settings.gateway.token)
              n == IF settings.enabled /\ settings.retries = 0 THEN 2 ELSE settings.retries
              c == Defaulted(settings.concurrent, 1, 3)
              q == IF settings.policy = NoText THEN "drop" ELSE settings.policy
              ms == [name \in ModelName |-> ResolvedModel(settings.models[name])]
  <2>1. g \in Int /\ n \in Int /\ c \in Int /\ c >= 1 /\ q \in Policies
    <3>1. /\ settings.gateway.retries \in Int /\ settings.retries \in Int
          /\ settings.concurrent \in Int /\ settings.policy \in Policies
      BY <1>1, ConfigParts
    <3>. QED BY <3>1 DEF Defaulted, Policies
  <2>2. token \in SomeText
    BY <1>1, ConfigParts, ResolvedText
  <2>3. ms \in [ModelName -> Model \cup {Absent}]
    <3>1. \A name \in ModelName : settings.models[name] \in Model \cup {Absent}
      BY <1>1, ConfigParts
    <3>. QED BY <1>1, <3>1, ResolvedTyped
  <2>4. settings' = [settings EXCEPT !.gateway.retries = g, !.gateway.token = token,
                        !.retries = n, !.concurrent = c, !.policy = q, !.models = ms]
    BY <1>1 DEF ResolveAI, Config
  <2>. HIDE DEF g, token, n, c, q, ms
  <2>. QED BY <2>1, <2>2, <2>3, <2>4
<1>4. settings' \in Config /\ settings'.concurrent >= 1
  BY <1>1, <1>3 DEF Config
<1>. QED BY <1>1, <1>2, <1>4
     DEF SettingsInv, SettingsTyped, PastDefaults, PastServer, PastGateway, PastLabels

LEMMA ResolveServerStep == SettingsInv /\ ResolveServer => SettingsInv'
<1>. SUFFICES ASSUME SettingsInv, ResolveServer PROVE SettingsInv'
  OBVIOUS
<1>1. settings \in Config /\ env \in {NoText, "text"} /\ chain \in Seq(ModelName \cup {Gateway})
      /\ settingsPc = "server" /\ settings.concurrent >= 1
  BY DEF SettingsInv, SettingsTyped, ResolveServer, PastDefaults
<1>2. PICK a \in SomeText, u \in SomeText :
        a = resolveEnvRef(settings.server.address) /\ u = resolveEnvRef(settings.server.token)
  BY <1>1, ConfigParts, ResolvedText
<1>3. CASE settings.server.enabled /\ a = NoText
  BY <1>2, <1>3, RefuseStep DEF ResolveServer
<1>4. CASE ~(settings.server.enabled /\ a = NoText)
  <2>1. /\ settingsPc' = "gateway" /\ UNCHANGED <<env, identity, chain>>
        /\ settings' = [settings EXCEPT !.server.address = a, !.server.token = u]
    BY <1>1, <1>2, <1>4 DEF ResolveServer, GoTo, Config
  <2>2. /\ settings' \in Config /\ settings'.concurrent >= 1
        /\ settings'.server.enabled => settings'.server.address # NoText
    BY <1>1, <1>2, <1>4, <2>1 DEF Config
  <2>. QED BY <1>1, <2>1, <2>2
       DEF SettingsInv, SettingsTyped, PastDefaults, PastServer, PastGateway, PastLabels
<1>. QED BY <1>3, <1>4

LEMMA ResolveGatewayStep == SettingsInv /\ ResolveGateway => SettingsInv'
<1>. SUFFICES ASSUME SettingsInv, ResolveGateway PROVE SettingsInv'
  OBVIOUS
<1>1. /\ settings \in Config /\ env \in {NoText, "text"} /\ chain \in Seq(ModelName \cup {Gateway})
      /\ settingsPc = "gateway" /\ settings.concurrent >= 1
      /\ settings.server.enabled => settings.server.address # NoText
  BY DEF SettingsInv, SettingsTyped, ResolveGateway, PastDefaults, PastServer
<1>2. CASE ~settings.gateway.enabled
  <2>1. settingsPc' = "labels" /\ UNCHANGED <<settings, env, identity, chain>>
    BY <1>2, Zenon DEF ResolveGateway, GoTo
  <2>. QED BY <1>1, <1>2, <2>1
       DEF SettingsInv, SettingsTyped, PastDefaults, PastServer, PastGateway, PastLabels
<1>3. CASE settings.gateway.enabled /\ Refuse
  BY <1>3, RefuseStep
<1>4. CASE settings.gateway.enabled /\ ~Refuse
  <2>1. PICK t \in SomeText, b \in SomeText :
          /\ t = IF settings.gateway.token = NoText THEN settings.server.token ELSE settings.gateway.token
          /\ settings' = [settings EXCEPT !.gateway.token = t, !.gateway.baseURL = b]
          /\ settingsPc' = "labels" /\ UNCHANGED <<env, identity, chain>>
    BY <1>1, <1>4 DEF ResolveGateway, GoTo, Config
  <2>2. /\ settings' \in Config /\ settings'.concurrent >= 1
        /\ settings'.server = settings.server
        /\ settings'.gateway.token = NoText => settings'.server.token = NoText
    BY <1>1, <2>1 DEF Config
  <2>. QED BY <1>1, <2>1, <2>2
       DEF SettingsInv, SettingsTyped, PastDefaults, PastServer, PastGateway, PastLabels
<1>. QED BY <1>2, <1>3, <1>4

LEMMA SettingsStep == SettingsInv /\ [SettingsNext]_settingsVars => SettingsInv'
<1>. SUFFICES ASSUME SettingsInv, [SettingsNext]_settingsVars PROVE SettingsInv'
  OBVIOUS
<1>1. CASE ResolveAI
  BY <1>1, ResolveAIStep
<1>2. CASE ResolveServer
  BY <1>2, ResolveServerStep
<1>3. CASE ResolveGateway
  BY <1>3, ResolveGatewayStep
<1>4. CASE Labelled
  <2>1. CASE Refuse
    BY <2>1, RefuseStep
  <2>2. CASE ~Refuse
    <3>1. /\ settingsPc = "labels" /\ settingsPc' = "validate"
          /\ UNCHANGED <<settings, env, identity, chain>>
          /\ settings.server.enabled => {"from_hostname", "from_hostip"} \subseteq settings.labels
      BY <1>4, <2>2, Zenon DEF Labelled, GoTo
    <3>. QED BY <3>1 DEF SettingsInv, SettingsTyped, PastDefaults, PastServer, PastGateway, PastLabels
  <2>. QED BY <2>1, <2>2
<1>5. CASE Validate
  <2>1. /\ settingsPc = "validate" /\ UNCHANGED <<settings, env, identity, chain>>
        /\ settingsPc' = IF Valid THEN "build" ELSE "refused"
    BY <1>5, Zenon DEF Validate, GoTo
  <2>2. Valid' <=> Valid
    BY <2>1 DEF Valid, LocalModelsValid, requireLocalModels, HasLocalModels, ModelOf
  <2>. QED BY <2>1, <2>2
       DEF SettingsInv, SettingsTyped, PastDefaults, PastServer, PastGateway, PastLabels
<1>6. CASE Build
  <2>1. /\ settingsPc = "build" /\ settings.enabled /\ settingsPc' = "built" /\ chain' = FinalChain
        /\ UNCHANGED <<settings, env, identity>>
    BY <1>6, Zenon DEF Build, FinalChain
  <2>2. (Valid' <=> Valid) /\ FinalChain' = FinalChain
    BY <2>1 DEF Valid, LocalModelsValid, requireLocalModels, HasLocalModels, ModelOf, FinalChain
  <2>3. FinalChain \in Seq(ModelName \cup {Gateway})
    <3>1. settings.priority \in Seq(ModelName \cup {Gateway})
      BY ConfigParts DEF SettingsInv, SettingsTyped
    <3>2. <<>> \in Seq(ModelName \cup {Gateway}) /\ <<Gateway>> \in Seq(ModelName \cup {Gateway})
      OBVIOUS
    <3>3. PICK s \in Seq(ModelName \cup {Gateway}) : s = (IF identity THEN <<Gateway>> ELSE <<>>)
      BY <3>2
    <3>4. PICK t \in Seq(ModelName \cup {Gateway}) :
            t = (IF settings.gateway.fallback THEN settings.priority ELSE <<>>)
      BY <3>1, <3>2
    <3>5. s \o t \in Seq(ModelName \cup {Gateway})
      OBVIOUS
    <3>6. FinalChain = settings.priority \/ FinalChain = s \o t
      BY <3>3, <3>4, Zenon DEF FinalChain
    <3>. QED BY <3>1, <3>5, <3>6
  <2>. QED BY <2>1, <2>2, <2>3
       DEF SettingsInv, SettingsTyped, PastDefaults, PastServer, PastGateway, PastLabels
<1>7. CASE UNCHANGED settingsVars
  <2>1. UNCHANGED <<settings, env, identity, settingsPc, chain>>
    BY <1>7 DEF settingsVars
  <2>2. (Valid' <=> Valid) /\ FinalChain' = FinalChain
    BY <2>1 DEF Valid, LocalModelsValid, requireLocalModels, HasLocalModels, ModelOf, FinalChain
  <2>. QED BY <2>1, <2>2
       DEF SettingsInv, SettingsTyped, PastDefaults, PastServer, PastGateway, PastLabels
<1>. QED BY <1>1, <1>2, <1>3, <1>4, <1>5, <1>6, <1>7 DEF SettingsNext

\* The chain holds the gateway, models of the list, or both.
LEMMA ChainOf ==
  ASSUME settings \in Config
  PROVE  /\ \A i \in DOMAIN FinalChain :
               \/ FinalChain[i] = Gateway /\ settings.gateway.enabled
               \/ /\ \E j \in DOMAIN settings.priority : FinalChain[i] = settings.priority[j]
                  /\ ~settings.gateway.enabled \/ settings.gateway.fallback
         /\ FinalChain = <<>> =>
               \/ ~settings.gateway.enabled /\ settings.priority = <<>>
               \/ /\ settings.gateway.enabled /\ ~identity
                  /\ ~settings.gateway.fallback \/ settings.priority = <<>>
<1>1. PICK p \in Seq(ModelName \cup {Gateway}) : p = settings.priority
  BY ConfigParts
<1>2. CASE ~settings.gateway.enabled
  BY <1>1, <1>2 DEF FinalChain
<1>3. CASE settings.gateway.enabled
  <2>1. PICK s \in {<<Gateway>>, <<>>} :
          s = (IF identity THEN <<Gateway>> ELSE <<>>) /\ (s = <<>> => ~identity)
    OBVIOUS
  <2>2. PICK t \in {p, <<>>} :
          t = (IF settings.gateway.fallback THEN p ELSE <<>>)
          /\ (t = <<>> => ~settings.gateway.fallback \/ p = <<>>)
          /\ (t # <<>> => settings.gateway.fallback /\ t = p)
    OBVIOUS
  <2>3. FinalChain = s \o t
    BY <1>1, <1>3, <2>1, <2>2, Zenon DEF FinalChain
  <2>4. /\ s \in Seq(ModelName \cup {Gateway}) /\ t \in Seq(ModelName \cup {Gateway})
        /\ \A i \in 1..Len(s) : s[i] = Gateway
    <3>1. <<>> \in Seq(ModelName \cup {Gateway}) /\ <<Gateway>> \in Seq(ModelName \cup {Gateway})
      OBVIOUS
    <3>2. (\A i \in 1..Len(<<Gateway>>) : <<Gateway>>[i] = Gateway)
          /\ (\A i \in 1..Len(<<>>) : <<>>[i] = Gateway)
      OBVIOUS
    <3>3. s \in Seq(ModelName \cup {Gateway}) /\ t \in Seq(ModelName \cup {Gateway})
      BY <3>1
    <3>4. \A i \in 1..Len(s) : s[i] = Gateway
      BY <3>2, Zenon
    <3>. QED BY <3>3, <3>4
  <2>5. ASSUME NEW i \in DOMAIN (s \o t)
        PROVE  \/ (s \o t)[i] = Gateway
               \/ (t # <<>> /\ \E j \in DOMAIN t : (s \o t)[i] = t[j])
    BY <2>4
  <2>6. s \o t = <<>> => s = <<>> /\ t = <<>>
    <3>1. Len(s \o t) = Len(s) + Len(t) /\ Len(s) \in Nat /\ Len(t) \in Nat
      BY <2>4, ConcatProperties, LenProperties
    <3>2. s \o t = <<>> => Len(s) = 0 /\ Len(t) = 0
      BY <3>1
    <3>. QED BY <2>4, <3>2, EmptySeq
  <2>7. PICK c : c = s \o t /\ FinalChain = c
    BY <2>3
  <2>8. ASSUME NEW i \in DOMAIN c
        PROVE  c[i] = Gateway \/ (settings.gateway.fallback /\ \E j \in DOMAIN p : c[i] = p[j])
    BY <2>2, <2>5, <2>7
  <2>9. c = <<>> => ~identity /\ (~settings.gateway.fallback \/ p = <<>>)
    BY <2>1, <2>2, <2>6, <2>7
  <2>. QED BY <1>1, <1>3, <2>7, <2>8, <2>9, Zenon
<1>. QED BY <1>2, <1>3

\* Settings that are accepted make a client that can work, for any models, order of models,
\* gateway, server and numbers (config.go:506-553, failover.go:33-88).
THEOREM AcceptedSettingsAreUsable == SettingsSpec => []AcceptedIsUsable
<1>1. SettingsInv => AcceptedIsUsable
  <2>. SUFFICES ASSUME SettingsInv, settingsPc = "built" PROVE AcceptedIsUsable
    BY DEF AcceptedIsUsable
  <2>1. settings \in Config /\ Valid /\ settings.enabled /\ chain = FinalChain
    BY DEF SettingsInv, SettingsTyped
  <2>2. requireLocalModels =>
          /\ settings.priority # <<>> /\ HasLocalModels
          /\ \A j \in DOMAIN settings.priority :
                settings.models[settings.priority[j]] # Absent /\ Complete(ModelOf(settings.priority[j]))
    BY <2>1 DEF Valid, LocalModelsValid
  <2>3. ~settings.gateway.enabled \/ settings.gateway.fallback \/ HasLocalModels => requireLocalModels
    BY DEF requireLocalModels
  <2>4. ASSUME NEW i \in DOMAIN chain, chain[i] # Gateway
        PROVE  settings.models[chain[i]] # Absent /\ Complete(ModelOf(chain[i]))
    <3>1. PICK j \in DOMAIN settings.priority : chain[i] = settings.priority[j]
      BY <2>1, <2>4, ChainOf
    <3>2. ~settings.gateway.enabled \/ settings.gateway.fallback
      BY <2>1, <2>4, ChainOf
    <3>3. /\ settings.models[settings.priority[j]] # Absent
          /\ Complete(ModelOf(settings.priority[j]))
      BY <2>2, <2>3, <3>2
    <3>. QED BY <3>1, <3>3, Zenon
  <2>5. Contains(chain, Gateway) => settings.gateway.enabled
    <3>1. chain \in Seq(ModelName \cup {Gateway})
      BY DEF SettingsInv, SettingsTyped
    <3>2. ASSUME Contains(chain, Gateway) PROVE \E i \in DOMAIN chain : chain[i] = Gateway
      BY <3>1, <3>2 DEF Contains
    <3>3. settings.priority \in Seq(ModelName)
      BY <2>1 DEF Config
    <3>4. \A j \in DOMAIN settings.priority : settings.priority[j] # Gateway
      BY <3>3, SettingsAssumption
    <3>. QED BY <2>1, <3>2, <3>4, ChainOf
  <2>6. settings.gateway.enabled => settings.gateway.baseURL # NoText /\ settings.gateway.retries \in 0..2
    BY <2>1 DEF Valid
  <2>7. settings.gateway.enabled /\ settings.gateway.token = NoText => settings.server.token = NoText
    BY DEF SettingsInv, PastGateway
  <2>8. chain = <<>> => settings.gateway.enabled /\ ~settings.gateway.fallback /\ ~identity
    BY <2>1, <2>2, <2>3, ChainOf
  <2>9. settings.gateway.enabled \/ settings.retries >= 0 => Attempts >= 1
    <3>1. settings.retries \in Int
      BY <2>1, ConfigParts
    <3>2. CASE settings.gateway.enabled
      BY <2>6, <3>2 DEF Attempts
    <3>3. CASE ~settings.gateway.enabled
      BY <3>1, <3>3 DEF Attempts
    <3>. QED BY <3>2, <3>3
  <2>10. HasLocalModels /\ ModelOf(Head(settings.priority)).window # 1 => ContextWindowLimit > 0
    <3>. SUFFICES ASSUME HasLocalModels, ModelOf(Head(settings.priority)).window # 1
                  PROVE  ContextWindowLimit > 0
      OBVIOUS
    <3>1. settings.priority # <<>> /\ settings.models[Head(settings.priority)] # Absent
      <4>1. settings.priority # <<>>
        BY <2>2, <2>3
      <4>2. 1 \in DOMAIN settings.priority /\ Head(settings.priority) = settings.priority[1]
        BY <2>1, <4>1 DEF Config
      <4>. QED BY <2>2, <2>3, <4>1, <4>2
    <3>2. PICK w \in Int : w = ModelOf(Head(settings.priority)).window
      <4>1. Head(settings.priority) \in ModelName
        BY <2>1, <3>1 DEF Config
      <4>2. settings.models[Head(settings.priority)] \in Model
        BY <2>1, <3>1, <4>1 DEF Config
      <4>. QED BY <3>1, <4>2 DEF ModelOf, Model
    <3>3. (Defaulted(w, 1, DefaultWindow) * 80) \div 100 > 0
      BY <3>2, SMT DEF Defaulted, DefaultWindow
    <3>4. ContextWindowLimit = (Defaulted(w, 1, DefaultWindow) * 80) \div 100
      BY <3>1, <3>2, Zenon DEF ContextWindowLimit
    <3>. QED BY <3>3, <3>4, Zenon
  <2>11. /\ settings.concurrent >= 1
         /\ settings.server.enabled =>
              settings.server.address # NoText /\ {"from_hostname", "from_hostip"} \subseteq settings.labels
    BY DEF SettingsInv, PastDefaults, PastServer, PastLabels
  <2>. QED BY <2>4, <2>5, <2>6, <2>7, <2>8, <2>9, <2>10, <2>11 DEF AcceptedIsUsable
<1>. QED BY <1>1, SettingsStart, SettingsStep, PTL DEF SettingsSpec
=============================================================================
