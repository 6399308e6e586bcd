--------------------------- MODULE AgentIdentity ---------------------------
(***************************************************************************)
(* LoadOrCreateAgentID (config/agentid.go): the identity is read from a    *)
(* file, and drawn and written when there is none that can be read.  Its   *)
(* callers are the connection to the server, each time it connects, and    *)
(* the clients of the AI gateway; nothing keeps two of them apart.  The    *)
(* program may end between any two steps and start again.                  *)
(***************************************************************************)
EXTENDS Integers, FiniteSets

CONSTANTS
    Caller,      \* goroutines that ask for the identity
    MaxDrawn     \* bound: identities that are drawn

ASSUME IdentityAssumption == IsFiniteSet(Caller) /\ MaxDrawn \in Nat

VARIABLES
    idFile,      \* the identity in the file; 0 when it is missing or empty
    loadPc,      \* Caller -> "idle", "drawn" or "truncated"
    drawn,       \* Caller -> the identity it has drawn last
    lastDrawn,   \* each identity that is drawn is new
    told,        \* the identities the server was told
    raced        \* history: two callers have drawn one at the same time

identityVars == <<idFile, loadPc, drawn, lastDrawn, told, raced>>

IdentityInit ==
    /\ idFile = 0 /\ lastDrawn = 0 /\ told = {} /\ raced = FALSE
    /\ loadPc = [c \in Caller |-> "idle"] /\ drawn = [c \in Caller |-> 0]

\* A file that can be parsed has the identity.
ReadIdentity(c) ==
    /\ loadPc[c] = "idle" /\ idFile > 0
    /\ told' = told \cup {idFile}
    /\ UNCHANGED <<idFile, loadPc, drawn, lastDrawn, raced>>

\* Otherwise one is drawn; a file that another caller has truncated reads as empty.
DrawIdentity(c) ==
    /\ loadPc[c] = "idle" /\ idFile = 0 /\ lastDrawn < MaxDrawn
    /\ lastDrawn' = lastDrawn + 1 /\ drawn' = [drawn EXCEPT ![c] = lastDrawn']
    /\ loadPc' = [loadPc EXCEPT ![c] = "drawn"]
    /\ raced' = (raced \/ \E d \in Caller : loadPc[d] # "idle")
    /\ UNCHANGED <<idFile, told>>

\* WriteFile truncates the file,
TruncateFile(c) ==
    /\ loadPc[c] = "drawn" /\ loadPc' = [loadPc EXCEPT ![c] = "truncated"] /\ idFile' = 0
    /\ UNCHANGED <<drawn, lastDrawn, told, raced>>

\* ... and writes its few bytes at once.
WriteIdentity(c) ==
    /\ loadPc[c] = "truncated" /\ loadPc' = [loadPc EXCEPT ![c] = "idle"]
    /\ idFile' = drawn[c] /\ told' = told \cup {drawn[c]}
    /\ UNCHANGED <<drawn, lastDrawn, raced>>

\* Fault: an identity that could not be written is used all the same.
UseUnwritten(c) ==
    /\ loadPc[c] # "idle" /\ loadPc' = [loadPc EXCEPT ![c] = "idle"]
    /\ told' = told \cup {drawn[c]}
    /\ UNCHANGED <<idFile, drawn, lastDrawn, raced>>

\* The directory or the file cannot be made, or the write fails: the caller gets an error.
IdentityFails(c) ==
    /\ loadPc[c] # "idle" /\ loadPc' = [loadPc EXCEPT ![c] = "idle"]
    /\ UNCHANGED <<idFile, drawn, lastDrawn, told, raced>>

\* The program ends and starts again.
ProgramEnds ==
    /\ loadPc' = [c \in Caller |-> "idle"]
    /\ UNCHANGED <<idFile, drawn, lastDrawn, told, raced>>

IdentityNext ==
    \/ ProgramEnds
    \/ \E c \in Caller :
         \/ ReadIdentity(c) \/ DrawIdentity(c) \/ TruncateFile(c)
         \/ WriteIdentity(c) \/ IdentityFails(c)

IdentitySpec == IdentityInit /\ [][IdentityNext]_identityVars

-----------------------------------------------------------------------------
(***************************************************************************)
(* Properties.                                                             *)
(***************************************************************************)

\* However often writing it fails or the program ends, the server is told one identity,
\* and it is the one in the file (agentid.go:23-38), unless two callers ever made one at
\* the same time.  Without that condition the model shows two identities that are told.
OneIdentity == ~raced => told \subseteq {idFile}
=============================================================================
