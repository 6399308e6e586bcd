----------------------------- MODULE StateStore -----------------------------
(***************************************************************************)
(* Persistence of the diagnose state (diagnose/state.go): Save, called at  *)
(* the end of every diagnosis, and Load, at the start of the program.      *)
(*                                                                         *)
(* Save marshals under the lock and then works on two file names without   *)
(* it; all savers use the same temporary name.  A process that has opened  *)
(* a file keeps writing to that file, whatever name it has by then, so     *)
(* files (Inode) and names are told apart.                                 *)
(*                                                                         *)
(* The state is abstracted to the number of diagnoses it accounts for.  A  *)
(* file holds such a number, nothing (Empty), or what no JSON parser       *)
(* accepts (Torn).  The program may crash at any time; files stay.         *)
(*                                                                         *)
(* Nothing keeps the savers apart: alerts are diagnosed as many at a time  *)
(* as there are slots, and inspections take no slot at all.                *)
(***************************************************************************)
EXTENDS Integers

CONSTANTS
    Saver,          \* goroutines of diagnoses and inspections
    Inode,          \* files: one more than the savers, for what the others have open,
                    \* the state file and a new one
    None,
    Empty, Torn,    \* contents that are no state
    MaxRuns         \* bound: diagnoses accounted for

ASSUME StoreAssumption ==
    /\ MaxRuns \in Nat
    /\ None \notin Inode
    /\ Empty # Torn /\ {Empty, Torn} \cap Nat = {}

VARIABLES
    runs,      \* diagnoses in the state in memory
    content,   \* Inode -> what the file holds
    path,      \* the file called diagnose_state.json, or None
    tmp,       \* the file called diagnose_state.json.tmp, or None
    pc,        \* position of each saver
    due,       \* what the state accounted for when Save was called
    snapshot,  \* what Save has marshalled
    fd,        \* the file a saver has open
    \* history
    saved,     \* the most that a completed Save was called with
    crowded,   \* the savers that are, or were during their Save, not alone
    contended  \* Saves have overlapped since the last one that was alone

storeVars == <<runs, content, path, tmp, pc, due, snapshot, fd, saved, crowded, contended>>
files == <<content, path, tmp>>
company == <<crowded, contended>>

StoreInit ==
    /\ runs = 0 /\ saved = 0 /\ crowded = {} /\ contended = FALSE
    /\ content = [i \in Inode |-> Empty]
    /\ path = None /\ tmp = None
    /\ pc = [s \in Saver |-> "idle"]
    /\ due = [s \in Saver |-> 0] /\ snapshot = [s \in Saver |-> 0]
    /\ fd = [s \in Saver |-> None]

Step(s, from, to) == pc[s] = from /\ pc' = [pc EXCEPT ![s] = to]
Active == {s \in Saver : pc[s] # "idle"}

\* RunDiagnose accounts for its run, AddTokens and UpdateCooldown, and calls Save,
\* whoever else is saving.
Account(s) ==
    /\ runs < MaxRuns
    /\ Step(s, "idle", "marshal")
    /\ IF Active = {} THEN UNCHANGED company
       ELSE crowded' = Active \cup {s} /\ contended' = TRUE
    /\ runs' = runs + 1
    /\ due' = [due EXCEPT ![s] = runs + 1]
    /\ UNCHANGED <<files, snapshot, fd, saved>>

Marshal(s) ==
    /\ Step(s, "marshal", "open")
    /\ snapshot' = [snapshot EXCEPT ![s] = runs]
    /\ UNCHANGED <<runs, files, due, fd, saved, company>>

Free == Inode \ ({path, tmp} \cup {fd[s] : s \in Saver})

\* Fault: the state file itself is opened, if there is one.
OpenInPlace(s) ==
    /\ Step(s, "open", "write")
    /\ \E i \in IF path = None THEN Free ELSE {path} :
         /\ fd' = [fd EXCEPT ![s] = i] /\ tmp' = IF path = None THEN i ELSE None
         /\ content' = [content EXCEPT ![i] = Empty]
    /\ UNCHANGED <<runs, path, due, snapshot, saved, company>>

\* WriteFile opens the temporary file: an existing one is truncated, whoever else
\* is writing to it.
Open(s) ==
    /\ Step(s, "open", "write")
    /\ \E i \in IF tmp = None THEN Free ELSE {tmp} :
         /\ fd' = [fd EXCEPT ![s] = i] /\ tmp' = i
         /\ content' = [content EXCEPT ![i] = Empty]
    /\ UNCHANGED <<runs, path, due, snapshot, saved, company>>

\* It writes from the start of the file.  Of another saver's longer text the end
\* remains; which is longer, the model leaves open.
Write(s) ==
    /\ Step(s, "write", "rename")
    /\ \E c \in IF content[fd[s]] = Empty THEN {snapshot[s]} ELSE {snapshot[s], Torn} :
         content' = [content EXCEPT ![fd[s]] = c]
    /\ fd' = [fd EXCEPT ![s] = None]
    /\ UNCHANGED <<runs, path, tmp, due, snapshot, saved, company>>

\* A full disk: Save gives up and leaves the temporary file.
WriteFails(s) ==
    /\ Step(s, "write", "idle")
    /\ \E c \in {content[fd[s]], Torn} : content' = [content EXCEPT ![fd[s]] = c]
    /\ fd' = [fd EXCEPT ![s] = None] /\ crowded' = crowded \ {s}
    /\ UNCHANGED <<runs, path, tmp, due, snapshot, saved, contended>>

\* Rename moves what has the temporary name by now; it fails when another saver has
\* moved it already.
Rename(s) ==
    /\ Step(s, "rename", "idle")
    /\ IF tmp # None THEN path' = tmp /\ tmp' = None ELSE UNCHANGED <<path, tmp>>
    /\ saved' = IF tmp = None \/ (s \in crowded /\ due[s] < saved) THEN saved ELSE due[s]
    /\ contended' = (contended /\ s \in crowded) /\ crowded' = crowded \ {s}
    /\ UNCHANGED <<runs, content, due, snapshot, fd>>

\* Load: a missing file or one that does not parse counts for nothing.
Loaded == IF path = None \/ content[path] \in {Empty, Torn} THEN 0 ELSE content[path]

\* The process ends anywhere, in the middle of a write too, and starts again.
Crash ==
    /\ pc' = [s \in Saver |-> "idle"] /\ fd' = [s \in Saver |-> None]
    /\ \E torn \in SUBSET {fd[s] : s \in {t \in Saver : pc[t] = "write"}} :
         content' = [i \in Inode |-> IF i \in torn THEN Torn ELSE content[i]]
    /\ due' = [s \in Saver |-> 0] /\ snapshot' = [s \in Saver |-> 0]
    /\ crowded' = {}
    /\ UNCHANGED <<path, tmp, saved, contended>>
    /\ runs' = Loaded'

StoreNext ==
    \/ \E s \in Saver : \/ Account(s) \/ Marshal(s) \/ Open(s)
                        \/ Write(s) \/ WriteFails(s) \/ Rename(s)
    \/ Crash

StoreSpec == StoreInit /\ [][StoreNext]_storeVars

-----------------------------------------------------------------------------
(***************************************************************************)
(* Properties.                                                             *)
(***************************************************************************)

\* Type invariant: no file has both names.
StoreTypeOK ==
    /\ runs \in 0..MaxRuns /\ saved \in 0..MaxRuns
    /\ content \in [Inode -> 0..MaxRuns \cup {Empty, Torn}]
    /\ path \in Inode \cup {None} /\ tmp \in (Inode \ {path}) \cup {None}
    /\ pc \in [Saver -> {"idle", "marshal", "open", "write", "rename"}]
    /\ due \in [Saver -> 0..MaxRuns] /\ snapshot \in [Saver -> 0..MaxRuns]
    /\ fd \in [Saver -> Inode \cup {None}]
    /\ crowded \subseteq Active /\ contended \in BOOLEAN

\* The state file is always one that Save has written completely, whenever the
\* program ends (state.go:102, "Save atomically writes state to disk").
SavedAtomically == path # None => content[path] \notin {Empty, Torn}

\* Two savers that overlap break this; but a file that is not whole means that Saves
\* have overlapped since the last one that was alone: no crash and no failed write
\* does it, and the next Save that is alone repairs it, whatever temporary file, files
\* still open and older snapshots the overlap has left (state.go:102-128).
TornByOverlapOnly == ~contended => SavedAtomically

\* The store is a register that survives every end of the program and every failure
\* to write: a Save that is alone stores all that was accounted for, so that no budget
\* that was used up comes back (state.go:15-16, "for restart resilience", 102-128).
\* Overlapping Saves may leave something older, and only until the next that is alone.
Durable == INSTANCE DurableRegister WITH value <- runs, stored <- Loaded, promised <- saved

RegisterSpec == Durable!Spec

\* Both of what is stored and of how: after every step, of savers, failures and crashes,
\* the file is as it should be (state.go:102-128).
StoreSound == RegisterSpec /\ [][TornByOverlapOnly']_storeVars
=============================================================================
