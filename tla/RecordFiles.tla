---------------------------- MODULE RecordFiles ----------------------------
(***************************************************************************)
(* The files of diagnosis records: DiagnoseRecord.Save (record.go), and    *)
(* CleanupRecords (cleanup.go), which one goroutine calls now and then     *)
(* while diagnoses end.                                                    *)
(*                                                                         *)
(* Every record has a name of its own.  A crash is the end of the program; *)
(* what it has written stays written.                                      *)
(***************************************************************************)
EXTENDS Integers, FiniteSets, Sequences, SequencesExt

CONSTANTS
    Record,       \* diagnoses that end in a behaviour
    MaxCounts,    \* values of diagnose_max_count; 0 is none
    Retentions,   \* values of diagnose_retention; 0 is none
    MaxTime       \* bound: the clock

ASSUME RecordAssumption ==
    IsFiniteSet(Record) /\ MaxCounts \cup Retentions \subseteq Nat /\ MaxTime \in Nat

VARIABLES
    maxCount, retention,
    clock,
    file,       \* Record -> "none", "tmp", "saved" or "removed"
    whole,      \* the records whose file has been written to its end
    modTime,    \* Record -> when its .tmp was written
    saving,     \* the records whose Save is under way
    doomed,     \* what the cleanup has still to remove
    listed      \* the records the cleanup has found, {} when there is none under way

recordVars == <<maxCount, retention, clock, file, whole, modTime, saving, doomed, listed>>

FilesInit ==
    /\ maxCount \in MaxCounts /\ retention \in Retentions /\ clock = 0
    /\ file = [r \in Record |-> "none"] /\ modTime = [r \in Record |-> 0]
    /\ whole = {} /\ saving = {} /\ doomed = {} /\ listed = {}

Elapse ==
    /\ clock < MaxTime /\ clock' = clock + 1
    /\ UNCHANGED <<maxCount, retention, file, whole, modTime, saving, doomed, listed>>

\* Save: the temporary file is created,
CreateTmp(r) ==
    /\ file[r] = "none" /\ r \notin saving
    /\ saving' = saving \cup {r} /\ file' = [file EXCEPT ![r] = "tmp"]
    /\ UNCHANGED <<maxCount, retention, clock, whole, modTime, doomed, listed>>

\* ... written,
WriteTmp(r) ==
    /\ r \in saving \ whole
    /\ whole' = whole \cup {r} /\ modTime' = [modTime EXCEPT ![r] = clock]
    /\ UNCHANGED <<maxCount, retention, clock, file, saving, doomed, listed>>

\* ... and renamed.
RenameTmp(r) ==
    /\ r \in saving \cap whole
    /\ file' = [file EXCEPT ![r] = "saved"] /\ saving' = saving \ {r}
    /\ UNCHANGED <<maxCount, retention, clock, whole, modTime, doomed, listed>>

\* The write fails and the .tmp stays, or the renaming does and the .tmp is removed.
SaveFails(r) ==
    /\ r \in saving /\ saving' = saving \ {r}
    /\ file' = [file EXCEPT ![r] = IF r \in whole THEN "removed" ELSE "tmp"]
    /\ UNCHANGED <<maxCount, retention, clock, whole, modTime, doomed, listed>>

Saved == {r \in Record : file[r] = "saved"}

\* Fault: the oldest first.
OldestFirst(rs) ==
    {order \in SetToSeqs(rs) :
        \A i, j \in 1..Cardinality(rs) : i < j => modTime[order[i]] <= modTime[order[j]]}

\* The order of the cleanup: the newest first, those of one time in any order.
NewestFirst(rs) ==
    {order \in SetToSeqs(rs) :
        \A i, j \in 1..Cardinality(rs) : i < j => modTime[order[i]] >= modTime[order[j]]}

\* The record at this place of the order is to be removed.
Exceeds(order, i) ==
    \/ maxCount > 0 /\ i > maxCount
    \/ retention > 0 /\ clock - modTime[order[i]] > retention

\* CleanupRecords, up to the decision.
ListRecords ==
    /\ listed = {} /\ Saved # {} /\ listed' = Saved
    /\ \E order \in NewestFirst(Saved) :
         doomed' = {order[i] : i \in {i \in DOMAIN order : Exceeds(order, i)}}
    /\ UNCHANGED <<maxCount, retention, clock, file, whole, modTime, saving>>

RemoveRecord(r) ==
    /\ r \in doomed /\ doomed' = doomed \ {r}
    /\ file' = [file EXCEPT ![r] = "removed"]
    /\ UNCHANGED <<maxCount, retention, clock, whole, modTime, saving, listed>>

\* The record stays, and the cleanup has no more to do with it.
RemoveFails(r) ==
    /\ r \in doomed /\ doomed' = doomed \ {r} /\ listed' = listed \ {r}
    /\ UNCHANGED <<maxCount, retention, clock, file, whole, modTime, saving>>

CleanupEnds ==
    /\ listed # {} /\ doomed = {} /\ listed' = {}
    /\ UNCHANGED <<maxCount, retention, clock, file, whole, modTime, saving, doomed>>

\* The program ends and starts again: a .tmp stays behind for good.
CrashAgent ==
    /\ saving # {} \/ listed # {}
    /\ saving' = {} /\ doomed' = {} /\ listed' = {}
    /\ UNCHANGED <<maxCount, retention, clock, file, whole, modTime>>

FilesNext ==
    \/ Elapse \/ ListRecords \/ CleanupEnds \/ CrashAgent
    \/ \E r \in Record :
         \/ CreateTmp(r) \/ WriteTmp(r) \/ RenameTmp(r) \/ SaveFails(r)
         \/ RemoveRecord(r) \/ RemoveFails(r)

FilesSpec == FilesInit /\ [][FilesNext]_recordVars

-----------------------------------------------------------------------------
(***************************************************************************)
(* Properties.                                                             *)
(***************************************************************************)

\* Type invariant.
FilesTypeOK ==
    /\ maxCount \in MaxCounts /\ retention \in Retentions /\ clock \in 0..MaxTime
    /\ file \in [Record -> {"none", "tmp", "saved", "removed"}]
    /\ modTime \in [Record -> 0..MaxTime]
    /\ \A r \in saving : file[r] = "tmp"
    /\ whole \subseteq Record
    /\ listed \subseteq Record /\ doomed \subseteq listed \cap Saved

\* What has the name of a record was written to its end, whenever the program ended
\* (record.go:50-56).
RecordsWhole == Saved \subseteq whole

\* A record is removed only when it is older than the retention, or the maximum number
\* of records that are as new is there besides: never one of the newest, whatever is
\* saved while the cleanup runs (cleanup.go:49-75).
OldestRemoved ==
    [][\A r \in Record : file[r] = "saved" /\ file'[r] = "removed" =>
          \/ retention > 0 /\ clock - modTime[r] > retention
          \/ /\ maxCount > 0
             /\ Cardinality({q \in Saved \ {r} : modTime[q] >= modTime[r]}) >= maxCount]_recordVars

\* A cleanup leaves no more of the records it has found, and could remove, than the maximum
\* (cleanup.go:57-63).
CountKept == listed # {} /\ doomed = {} /\ maxCount > 0 => Cardinality(listed \cap Saved) <= maxCount

\* Records are complete, and the cleanup takes those that are too many or too old and no
\* other (record.go:37-57, cleanup.go:16-81).
CleanupExact == []RecordsWhole /\ OldestRemoved /\ []CountKept
=============================================================================
