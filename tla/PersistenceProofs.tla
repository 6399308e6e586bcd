-------------------------- MODULE PersistenceProofs --------------------------
(***************************************************************************)
(* Proofs about what the agent keeps: the store of the diagnose state      *)
(* (StateStore), the records of diagnoses (RecordFiles), its identity      *)
(* (AgentIdentity), and in memory the identity of its host (HostIdentity). *)
(***************************************************************************)
EXTENDS StateStore, RecordFiles, AgentIdentity, HostIdentity,
        FiniteSetTheorems, FunctionTheorems, SequenceTheorems, TLAPS

(***************************************************************************)
(* The store, for any number of savers.                                    *)
(***************************************************************************)
WritersHaveFile == \A s \in Saver : pc[s] = "write" => fd[s] # None

StoreTyped == StoreTypeOK /\ WritersHaveFile

\* What the file is loaded as is a number of diagnoses.
LEMMA LoadedType == StoreTypeOK => Loaded \in 0..MaxRuns
BY StoreAssumption DEF StoreTypeOK, Loaded

LEMMA LoadedTypeNext == StoreTypeOK' => Loaded' \in 0..MaxRuns
BY StoreAssumption DEF StoreTypeOK, Loaded

LEMMA StoreInitTyped == StoreInit => StoreTyped
<1>. SUFFICES ASSUME StoreInit PROVE StoreTyped
  OBVIOUS
<1>. USE StoreAssumption DEF StoreInit
<1>1. runs \in 0..MaxRuns /\ saved \in 0..MaxRuns
      /\ due \in [Saver -> 0..MaxRuns] /\ snapshot \in [Saver -> 0..MaxRuns]
  OBVIOUS
<1>2. content \in [Inode -> 0..MaxRuns \cup {Empty, Torn}]
  OBVIOUS
<1>3. path \in Inode \cup {None} /\ tmp \in (Inode \ {path}) \cup {None}
  OBVIOUS
<1>4. /\ pc \in [Saver -> {"idle", "marshal", "open", "write", "rename"}]
      /\ fd \in [Saver -> Inode \cup {None}]
  OBVIOUS
<1>5. crowded \subseteq Active /\ contended \in BOOLEAN
  OBVIOUS
<1>6. WritersHaveFile
  BY DEF WritersHaveFile
<1>. QED BY <1>1, <1>2, <1>3, <1>4, <1>5, <1>6 DEF StoreTyped, StoreTypeOK

LEMMA StoreStepTyped == StoreTyped /\ [StoreNext]_storeVars => StoreTyped'
<1>. SUFFICES ASSUME StoreTyped, [StoreNext]_storeVars PROVE StoreTyped'
  OBVIOUS
<1>. USE StoreAssumption DEF StoreTyped, StoreTypeOK, WritersHaveFile, Step, files, company, Active
<1>1. ASSUME NEW s \in Saver, Account(s) PROVE StoreTyped'
  <2>1. crowded' \subseteq Active' /\ contended' \in BOOLEAN
    <3>1. CASE Active = {}
      BY <1>1, <3>1 DEF Account
    <3>2. CASE Active # {}
      BY <1>1, <3>2 DEF Account
    <3>. QED BY <3>1, <3>2
  <2>2. /\ runs' \in 0..MaxRuns /\ due' \in [Saver -> 0..MaxRuns]
        /\ pc' \in [Saver -> {"idle", "marshal", "open", "write", "rename"}]
        /\ UNCHANGED <<content, path, tmp, snapshot, fd, saved>> /\ WritersHaveFile'
    BY <1>1 DEF Account
  <2>. QED BY <2>1, <2>2
<1>2. ASSUME NEW s \in Saver, Marshal(s) PROVE StoreTyped'
  BY <1>2 DEF Marshal
<1>3. ASSUME NEW s \in Saver, Open(s) PROVE StoreTyped'
  BY <1>3 DEF Open, Free
<1>4. ASSUME NEW s \in Saver, Write(s) PROVE StoreTyped'
  BY <1>4 DEF Write
<1>5. ASSUME NEW s \in Saver, WriteFails(s) PROVE StoreTyped'
  BY <1>5 DEF WriteFails
<1>6. ASSUME NEW s \in Saver, Rename(s) PROVE StoreTyped'
  BY <1>6 DEF Rename
<1>7. CASE Crash
  <2>1. content' \in [Inode -> 0..MaxRuns \cup {Empty, Torn}] /\ path' \in Inode \cup {None}
    BY <1>7 DEF Crash
  <2>2. runs' \in 0..MaxRuns
    BY <1>7, <2>1 DEF Crash, Loaded
  <2>. QED BY <1>7, <2>1, <2>2 DEF Crash
<1>8. CASE UNCHANGED storeVars
  BY <1>8 DEF storeVars
<1>. QED BY <1>1, <1>2, <1>3, <1>4, <1>5, <1>6, <1>7, <1>8 DEF StoreNext

(***************************************************************************)
(* Savers and their company.  A saver that is alone finds at each step     *)
(* what it left: what was marshalled is all that there is, and the         *)
(* temporary file is its own.  One that is not alone may have its file     *)
(* renamed, or truncated by another; but no number comes into a file which *)
(* the program has not reached.                                            *)
(***************************************************************************)
CompanyKnown ==
    /\ \A s \in crowded : contended
    /\ \A s \in Active \ crowded : Active = {s}

SaveUndisturbed ==
    \A s \in Active \ crowded :
        /\ due[s] = runs
        /\ pc[s] \in {"open", "write", "rename"} => snapshot[s] = runs
        /\ pc[s] = "write" => fd[s] = tmp /\ content[tmp] = Empty
        /\ pc[s] = "rename" => tmp # None /\ content[tmp] = runs

NoMore(i) == content[i] \in {Empty, Torn} \/ content[i] <= runs

NothingInvented ==
    /\ \A s \in Saver : /\ due[s] <= runs /\ snapshot[s] <= runs
                        /\ fd[s] # None => pc[s] = "write" /\ NoMore(fd[s])
                        /\ pc[s] \in {"write", "rename"} /\ tmp # None => NoMore(tmp)
    /\ path # None => NoMore(path)

StoreInv == /\ StoreTyped /\ CompanyKnown /\ SaveUndisturbed /\ NothingInvented
            /\ TornByOverlapOnly /\ Durable!Kept

LEMMA StoreInitInv == StoreInit => StoreInv
<1>. SUFFICES ASSUME StoreInit PROVE StoreInv
  OBVIOUS
<1>1. CompanyKnown /\ SaveUndisturbed /\ NothingInvented /\ TornByOverlapOnly
  BY DEF StoreInit, CompanyKnown, SaveUndisturbed, NothingInvented, TornByOverlapOnly,
         SavedAtomically, Active
<1>2. Durable!Kept
  BY DEF StoreInit, Durable!Kept, Loaded
<1>. QED BY <1>1, <1>2, StoreInitTyped DEF StoreInv

LEMMA CompanyStep == StoreInv /\ [StoreNext]_storeVars => CompanyKnown'
<1>. SUFFICES ASSUME StoreInv, [StoreNext]_storeVars PROVE CompanyKnown'
  OBVIOUS
<1>. USE DEF StoreInv, StoreTyped, StoreTypeOK, CompanyKnown, Active, Step, company
<1>1. ASSUME NEW s \in Saver, Account(s) PROVE CompanyKnown'
  <2>1. CASE Active = {}
    BY <1>1, <2>1 DEF Account
  <2>2. CASE Active # {}
    <3>1. contended' /\ crowded' = Active \cup {s} /\ Active' = Active \cup {s}
      BY <1>1, <2>2 DEF Account
    <3>. QED BY <3>1
  <2>. QED BY <2>1, <2>2
<1>2. ASSUME NEW s \in Saver, Marshal(s) \/ Open(s) \/ Write(s) PROVE CompanyKnown'
  <2>1. Active' = Active /\ crowded' = crowded /\ contended' = contended
    BY <1>2 DEF Marshal, Open, Write
  <2>. QED BY <2>1
<1>3. ASSUME NEW s \in Saver, WriteFails(s) \/ Rename(s) PROVE CompanyKnown'
  <2>1. Active' = Active \ {s} /\ crowded' = crowded \ {s} /\ s \in Active
    BY <1>3 DEF WriteFails, Rename
  <2>2. CASE s \in crowded
    <3>1. contended' = contended
      BY <1>3, <2>2 DEF WriteFails, Rename
    <3>2. \A t \in Active \ crowded : FALSE
      BY <2>1, <2>2
    <3>. QED BY <2>1, <2>2, <3>1, <3>2
  <2>3. CASE s \notin crowded
    <3>1. Active = {s} /\ crowded = {}
      BY <2>1, <2>3
    <3>. QED BY <2>1, <3>1
  <2>. QED BY <2>2, <2>3
<1>4. CASE Crash
  BY <1>4 DEF Crash
<1>5. CASE UNCHANGED storeVars
  BY <1>5 DEF storeVars
<1>. QED BY <1>1, <1>2, <1>3, <1>4, <1>5 DEF StoreNext

\* A Save that is alone finds at each step what it left (state.go:102-128).
LEMMA UndisturbedStep == StoreInv /\ [StoreNext]_storeVars => SaveUndisturbed'
<1>. SUFFICES ASSUME StoreInv, [StoreNext]_storeVars PROVE SaveUndisturbed'
  OBVIOUS
<1>. USE StoreAssumption DEF StoreInv, StoreTyped, WritersHaveFile, StoreTypeOK, CompanyKnown,
                            SaveUndisturbed, Active, Step, files, company
<1>1. ASSUME NEW s \in Saver, Account(s) PROVE SaveUndisturbed'
  BY <1>1 DEF Account
<1>2. ASSUME NEW s \in Saver, Marshal(s) PROVE SaveUndisturbed'
  BY <1>2 DEF Marshal
<1>3. ASSUME NEW s \in Saver, Open(s) PROVE SaveUndisturbed'
  BY <1>3 DEF Open, Free
<1>4. ASSUME NEW s \in Saver, Write(s) PROVE SaveUndisturbed'
  BY <1>4 DEF Write
<1>5. ASSUME NEW s \in Saver, WriteFails(s) PROVE SaveUndisturbed'
  BY <1>5 DEF WriteFails
<1>6. ASSUME NEW s \in Saver, Rename(s) PROVE SaveUndisturbed'
  BY <1>6 DEF Rename
<1>7. CASE Crash \/ UNCHANGED storeVars
  BY <1>7 DEF Crash, storeVars
<1>. QED BY <1>1, <1>2, <1>3, <1>4, <1>5, <1>6, <1>7 DEF StoreNext

\* The named file is that of a writer only when savers are not alone.
LEMMA PathIsSafe ==
  ASSUME StoreInv, NEW s \in Saver, pc[s] = "write", fd[s] = path
  PROVE  contended
BY StoreAssumption DEF StoreInv, StoreTyped, WritersHaveFile, StoreTypeOK, CompanyKnown,
                       SaveUndisturbed, Active

\* No saver, alone or not, writes a number that was not reached.
LEMMA InventedStep == StoreInv /\ [StoreNext]_storeVars => NothingInvented'
<1>. SUFFICES ASSUME StoreInv, [StoreNext]_storeVars PROVE NothingInvented'
  OBVIOUS
<1>. USE StoreAssumption DEF StoreInv, StoreTyped, WritersHaveFile, StoreTypeOK,
                            NothingInvented, NoMore, Step, files
<1>1. ASSUME NEW s \in Saver, Account(s) PROVE NothingInvented'
  <2>1. runs' = runs + 1 /\ UNCHANGED <<content, path, tmp, snapshot, fd>>
    BY <1>1 DEF Account
  <2>2. \A i \in Inode : NoMore(i) => NoMore(i)'
    BY <2>1
  <2>3. \A t \in Saver : /\ due'[t] <= runs' /\ snapshot'[t] <= runs'
                         /\ fd'[t] # None => pc'[t] = "write" /\ fd[t] # None /\ fd'[t] = fd[t]
                         /\ pc'[t] \in {"write", "rename"} => pc[t] \in {"write", "rename"}
    BY <1>1, <2>1 DEF Account
  <2>. HIDE DEF NoMore
  <2>. QED BY <2>1, <2>2, <2>3
<1>2. ASSUME NEW s \in Saver, Marshal(s) PROVE NothingInvented'
  BY <1>2 DEF Marshal
<1>3. ASSUME NEW s \in Saver, Open(s) PROVE NothingInvented'
  BY <1>3 DEF Open, Free
<1>4. ASSUME NEW s \in Saver, Write(s) PROVE NothingInvented'
  <2>1. PICK c \in {snapshot[s], Torn} : content' = [content EXCEPT ![fd[s]] = c]
    BY <1>4 DEF Write
  <2>2. /\ fd[s] \in Inode /\ runs' = runs /\ UNCHANGED <<path, tmp, due, snapshot>>
        /\ fd' = [fd EXCEPT ![s] = None] /\ pc' = [pc EXCEPT ![s] = "rename"] /\ pc[s] = "write"
    BY <1>4 DEF Write
  <2>3. \A i \in Inode : NoMore(i) => NoMore(i)'
    BY <2>1, <2>2
  <2>. QED BY <2>2, <2>3
<1>5. ASSUME NEW s \in Saver, WriteFails(s) PROVE NothingInvented'
  <2>1. PICK c \in {content[fd[s]], Torn} : content' = [content EXCEPT ![fd[s]] = c]
    BY <1>5 DEF WriteFails
  <2>2. /\ fd[s] \in Inode /\ runs' = runs /\ UNCHANGED <<path, tmp, due, snapshot>>
        /\ fd' = [fd EXCEPT ![s] = None] /\ pc' = [pc EXCEPT ![s] = "idle"] /\ pc[s] = "write"
    BY <1>5 DEF WriteFails
  <2>3. \A i \in Inode : NoMore(i) => NoMore(i)'
    BY <2>1, <2>2
  <2>. QED BY <2>2, <2>3
<1>6. ASSUME NEW s \in Saver, Rename(s) PROVE NothingInvented'
  BY <1>6 DEF Rename
<1>7. CASE Crash
  <2>1. path' = path /\ content' \in [Inode -> 0..MaxRuns \cup {Empty, Torn}]
    BY <1>7 DEF Crash
  <2>2. path' # None => NoMore(path)'
    <3>1. ASSUME path' # None, content'[path'] \notin {Empty, Torn}
          PROVE  content'[path'] <= runs'
      <4>1. Loaded' = content'[path']
        BY <3>1 DEF Loaded
      <4>2. runs' = Loaded'
        BY <1>7 DEF Crash
      <4>3. content'[path'] \in 0..MaxRuns
        BY <2>1, <3>1
      <4>. QED BY <4>1, <4>2, <4>3
    <3>. QED BY <3>1
  <2>3. runs' \in Nat
    <3>1. StoreTyped'
      BY <1>7, StoreStepTyped DEF StoreNext
    <3>. QED BY <3>1
  <2>. QED BY <1>7, <2>2, <2>3 DEF Crash
<1>8. CASE UNCHANGED storeVars
  BY <1>8 DEF storeVars
<1>. QED BY <1>1, <1>2, <1>3, <1>4, <1>5, <1>6, <1>7, <1>8 DEF StoreNext

\* What is loaded is a number that was reached.
LEMMA LoadedReached == StoreInv => Loaded \in 0..runs
<1>. SUFFICES ASSUME StoreInv PROVE Loaded \in 0..runs
  OBVIOUS
<1>1. Loaded \in 0..MaxRuns /\ runs \in 0..MaxRuns
  BY LoadedType DEF StoreInv, StoreTyped, StoreTypeOK
<1>2. Loaded <= runs
  <2>1. CASE path = None \/ content[path] \in {Empty, Torn}
    BY <1>1, <2>1 DEF Loaded
  <2>2. CASE ~(path = None \/ content[path] \in {Empty, Torn})
    BY <2>2 DEF Loaded, StoreInv, NothingInvented, NoMore
  <2>. QED BY <2>1, <2>2
<1>. QED BY <1>1, <1>2, StoreAssumption

\* What each step does to the register, and to the file that has the name.
LEMMA RegisterStep ==
  ASSUME StoreInv, [StoreNext]_storeVars
  PROVE  TornByOverlapOnly' /\ (~contended' => saved' <= Loaded') /\
         [Durable!Next]_(Durable!registerVars)
<1>. USE StoreAssumption DEF Step, files, company
<1>. DEFINE Goal == /\ TornByOverlapOnly' /\ (~contended' => saved' <= Loaded')
                    /\ [Durable!Next]_(Durable!registerVars)
<1>0. /\ StoreTypeOK /\ Loaded \in 0..runs /\ runs \in 0..MaxRuns /\ saved \in 0..MaxRuns
      /\ ~contended => SavedAtomically /\ saved <= Loaded
      /\ contended \in BOOLEAN
  BY LoadedReached DEF StoreInv, StoreTyped, StoreTypeOK, TornByOverlapOnly, Durable!Kept
<1>1. ASSUME path' = path, path # None => content'[path] = content[path]
      PROVE  Loaded' = Loaded /\ (SavedAtomically => SavedAtomically')
  BY <1>1 DEF Loaded, SavedAtomically
<1>2. ASSUME NEW s \in Saver, Account(s) PROVE Goal
  <2>1. /\ path' = path /\ content' = content /\ runs' = runs + 1 /\ saved' = saved
        /\ contended' \in {contended, TRUE} /\ (contended => contended')
    BY <1>2 DEF Account
  <2>2. Durable!Grow
    BY <1>1, <2>1 DEF Durable!Grow
  <2>. QED BY <1>0, <1>1, <2>1, <2>2 DEF Durable!Next, TornByOverlapOnly
<1>3. ASSUME NEW s \in Saver, Marshal(s) \/ Open(s) PROVE Goal
  <2>1. /\ path' = path /\ runs' = runs /\ saved' = saved /\ contended' = contended
        /\ path # None => content'[path] = content[path]
    BY <1>0, <1>3 DEF Marshal, Open, Free, StoreTypeOK
  <2>. QED BY <1>0, <1>1, <2>1 DEF Durable!registerVars, TornByOverlapOnly
<1>4. ASSUME NEW s \in Saver, Write(s) \/ WriteFails(s) PROVE Goal
  <2>1. /\ path' = path /\ runs' = runs /\ saved' = saved /\ contended' = contended
        /\ pc[s] = "write"
    BY <1>4 DEF Write, WriteFails
  <2>2. CASE fd[s] # path
    <3>1. path # None => content'[path] = content[path]
      BY <1>0, <1>4, <2>2 DEF Write, WriteFails, StoreTypeOK
    <3>. QED BY <1>0, <1>1, <2>1, <3>1 DEF Durable!registerVars, TornByOverlapOnly
  <2>3. CASE fd[s] = path
    <3>1. contended
      BY <2>1, <2>3, PathIsSafe
    <3>2. Loaded' \in 0..runs
      <4>1. NothingInvented'
        BY InventedStep
      <4>2. Loaded' \in 0..MaxRuns
        BY StoreStepTyped, LoadedTypeNext DEF StoreInv, StoreTyped
      <4>3. Loaded' <= runs
        BY <2>1, <4>1, <4>2, <1>0 DEF Loaded, NothingInvented, NoMore
      <4>. QED BY <4>2, <4>3, <1>0
    <3>3. Durable!SaveAmongOthers
      BY <2>1, <3>1, <3>2 DEF Durable!SaveAmongOthers, Durable!Disturbed
    <3>. QED BY <2>1, <3>1, <3>3 DEF Durable!Next, TornByOverlapOnly
  <2>. QED BY <2>2, <2>3
<1>5. ASSUME NEW s \in Saver, Rename(s) PROVE Goal
  <2>1. runs' = runs /\ content' = content /\ pc[s] = "rename" /\ s \in Active
    BY <1>5 DEF Rename, Active
  <2>2. CASE s \notin crowded
    <3>1. due[s] = runs /\ tmp # None /\ content[tmp] = runs
      BY <2>1, <2>2 DEF StoreInv, SaveUndisturbed
    <3>2. path' = tmp /\ saved' = runs /\ contended' = FALSE
      BY <1>5, <2>2, <3>1 DEF Rename
    <3>3. Loaded' = runs /\ SavedAtomically'
      BY <1>0, <2>1, <3>1, <3>2 DEF Loaded, SavedAtomically
    <3>4. Durable!SaveAlone
      BY <2>1, <3>2, <3>3 DEF Durable!SaveAlone
    <3>. QED BY <1>0, <3>2, <3>3, <3>4 DEF Durable!Next, TornByOverlapOnly
  <2>3. CASE s \in crowded
    <3>1. contended /\ contended' = contended
      BY <1>5, <2>3 DEF Rename, StoreInv, CompanyKnown
    <3>2. saved' \in {saved} \cup saved..runs
      BY <1>0, <1>5, <2>3 DEF Rename, StoreInv, NothingInvented, StoreTypeOK
    <3>3. Loaded' \in 0..runs
      <4>1. NothingInvented' /\ StoreTypeOK'
        BY InventedStep, StoreStepTyped DEF StoreInv, StoreTyped
      <4>2. Loaded' \in 0..MaxRuns
        BY StoreStepTyped, LoadedTypeNext DEF StoreInv, StoreTyped
      <4>3. Loaded' <= runs
        BY <2>1, <4>1, <4>2, <1>0 DEF Loaded, NothingInvented, NoMore
      <4>. QED BY <4>2, <4>3, <1>0
    <3>4. Durable!SaveAmongOthers
      BY <2>1, <3>1, <3>2, <3>3 DEF Durable!SaveAmongOthers, Durable!Disturbed
    <3>. QED BY <3>1, <3>4 DEF Durable!Next, TornByOverlapOnly
  <2>. QED BY <2>2, <2>3
<1>6. CASE Crash
  <2>1. path' = path /\ saved' = saved /\ contended' = contended /\ runs' = Loaded'
    BY <1>6 DEF Crash
  <2>2. PICK torn \in SUBSET {fd[s] : s \in {t \in Saver : pc[t] = "write"}} :
           content' = [i \in Inode |-> IF i \in torn THEN Torn ELSE content[i]]
    BY <1>6 DEF Crash
  <2>3. CASE path \notin torn
    <3>1. path # None => content'[path] = content[path]
      BY <1>0, <2>2, <2>3 DEF StoreTypeOK
    <3>2. Loaded' = Loaded /\ (SavedAtomically => SavedAtomically')
      BY <1>1, <2>1, <3>1
    <3>3. Durable!Restart
      BY <2>1, <3>2 DEF Durable!Restart, Durable!Disturbed
    <3>. QED BY <1>0, <2>1, <3>2, <3>3 DEF Durable!Next, TornByOverlapOnly
  <2>4. CASE path \in torn
    <3>1. contended
      BY <2>4, PathIsSafe
    <3>2. path \in Inode
      BY <1>0, <2>4 DEF StoreTypeOK, StoreInv, StoreTyped, WritersHaveFile
    <3>3. content'[path'] = Torn
      BY <2>1, <2>2, <2>4, <3>2
    <3>4. Loaded' = 0
      BY <3>3 DEF Loaded
    <3>5. Durable!Restart
      BY <1>0, <2>1, <3>1, <3>4 DEF Durable!Restart, Durable!Disturbed
    <3>. QED BY <2>1, <3>1, <3>5 DEF Durable!Next, TornByOverlapOnly
  <2>. QED BY <2>3, <2>4
<1>7. CASE UNCHANGED storeVars
  <2>1. Loaded' = Loaded /\ (SavedAtomically => SavedAtomically')
    BY <1>1, <1>7 DEF storeVars
  <2>. QED BY <1>0, <1>7, <2>1 DEF storeVars, Durable!registerVars, TornByOverlapOnly
<1>. QED BY <1>2, <1>3, <1>4, <1>5, <1>6, <1>7 DEF StoreNext

LEMMA StoreInvariance == StoreSpec => []StoreInv
<1>1. StoreInv /\ [StoreNext]_storeVars => StoreInv'
  <2>. SUFFICES ASSUME StoreInv, [StoreNext]_storeVars PROVE StoreInv'
    OBVIOUS
  <2>1. StoreTyped' /\ CompanyKnown' /\ SaveUndisturbed' /\ NothingInvented'
    BY StoreStepTyped, CompanyStep, UndisturbedStep, InventedStep DEF StoreInv
  <2>2. TornByOverlapOnly' /\ (~contended' => saved' <= Loaded')
    BY RegisterStep
  <2>3. Loaded' <= runs'
    <3>1. Loaded' \in 0..MaxRuns /\ runs' \in 0..MaxRuns
      BY <2>1, LoadedTypeNext DEF StoreTyped, StoreTypeOK
    <3>2. CASE path' = None \/ content'[path'] \in {Empty, Torn}
      BY <3>1, <3>2, StoreAssumption DEF Loaded
    <3>3. CASE ~(path' = None \/ content'[path'] \in {Empty, Torn})
      BY <2>1, <3>3 DEF Loaded, NothingInvented, NoMore
    <3>. QED BY <3>2, <3>3
  <2>. QED BY <2>1, <2>2, <2>3 DEF StoreInv, Durable!Kept
<1>. QED BY StoreInitInv, <1>1, PTL DEF StoreSpec

\* The store keeps its types for any number of savers; no file ever has both names,
\* whatever the savers and the crashes do to each other.
THEOREM StoreTypeCorrect == StoreSpec => []StoreTypeOK
<1>1. StoreTyped => StoreTypeOK
  BY DEF StoreTyped
<1>. QED BY StoreInitTyped, StoreStepTyped, <1>1, PTL DEF StoreSpec

\* For any number of savers at any time: the state file is complete, also when the program
\* ends, unless Saves have overlapped since the last that was alone (state.go:102-128).
THEOREM FileIsWhole == StoreSpec => []TornByOverlapOnly
<1>1. StoreInv => TornByOverlapOnly
  BY DEF StoreInv
<1>. QED BY StoreInvariance, <1>1, PTL

\* ... it then is at least as new as every completed Save, and in any case it counts
\* nothing that did not happen.
THEOREM SavedIsKept == StoreSpec => []Durable!Kept
<1>1. StoreInv => Durable!Kept
  BY DEF StoreInv
<1>. QED BY StoreInvariance, <1>1, PTL

\* Save, Load and crashes implement the register: a Save that is alone stores all that
\* there is, whatever overlapping ones have left behind.
THEOREM ImplementsRegister == StoreSpec => RegisterSpec
<1>1. StoreInit => Durable!Init
  BY DEF StoreInit, Durable!Init, Loaded
<1>2. StoreInv /\ [StoreNext]_storeVars => [Durable!Next]_(Durable!registerVars)
  BY RegisterStep
<1>. QED
  BY <1>1, <1>2, StoreInvariance, PTL DEF StoreSpec, RegisterSpec, Durable!Spec

\* Both together: what is stored, and in how whole a file (state.go:102-128).
THEOREM StoreIsSound == StoreSpec => StoreSound
BY ImplementsRegister, FileIsWhole, PTL DEF StoreSound

-----------------------------------------------------------------------------
(***************************************************************************)
(* The record files.  What a cleanup has decided must stay right until the *)
(* last file is removed, whatever is saved in the meantime: DoomedExceed   *)
(* counts only newer records that are not to be removed themselves.        *)
(***************************************************************************)
TooOld(r) == retention > 0 /\ clock - modTime[r] > retention

NewerKept(r) == {q \in Saved \ doomed : modTime[q] >= modTime[r]}

DoomedExceed ==
    \A r \in doomed : TooOld(r) \/ (maxCount > 0 /\ Cardinality(NewerKept(r)) >= maxCount)

KeptInTime ==
    listed # {} /\ maxCount > 0 => Cardinality((listed \cap Saved) \ doomed) <= maxCount

FilesTyped ==
    /\ FilesTypeOK /\ saving \subseteq Record
    /\ \A r \in listed : file[r] \in {"saved", "removed"}

FilesInv == FilesTyped /\ RecordsWhole /\ DoomedExceed /\ KeptInTime

\* The limits of the cleanup are numbers.
LEMMA RecordNumbers ==
  /\ \A n \in MaxCounts \cup Retentions : n \in Nat
  /\ MaxTime \in Nat /\ IsFiniteSet(Record)
BY RecordAssumption

\* Sets of records are finite.
LEMMA SomeRecords ==
  ASSUME NEW rs \in SUBSET Record
  PROVE  IsFiniteSet(rs) /\ Cardinality(rs) \in Nat
BY RecordNumbers, FS_Subset, FS_CardinalityType

\* An order names each record once.
LEMMA OrderIsOnto ==
  ASSUME NEW rs \in SUBSET Record, NEW order \in NewestFirst(rs)
  PROVE  /\ order \in [1..Cardinality(rs) -> rs]
         /\ \A i, j \in 1..Cardinality(rs) : order[i] = order[j] => i = j
         /\ \A r \in rs : \E i \in 1..Cardinality(rs) : order[i] = r
<1>1. /\ order \in [1..Cardinality(rs) -> rs]
      /\ \A i, j \in 1..Cardinality(rs) : order[i] = order[j] => i = j
  BY DEF NewestFirst, SetToSeqs
<1>2. order \in Injection(1..Cardinality(rs), rs)
  BY <1>1, Fun_IsInj
<1>3. Cardinality(1..Cardinality(rs)) = Cardinality(rs)
  BY SomeRecords, FS_Interval
<1>4. order \in Surjection(1..Cardinality(rs), rs)
  BY <1>2, <1>3, SomeRecords, FS_Injection
<1>5. \A r \in rs : \E i \in 1..Cardinality(rs) : order[i] = r
  BY <1>4 DEF Surjection
<1>. QED BY <1>1, <1>5

\* The first k of them are k records.
LEMMA FirstAreMany ==
  ASSUME NEW rs \in SUBSET Record, NEW order \in NewestFirst(rs),
         NEW k \in 0..Cardinality(rs)
  PROVE  Cardinality({order[i] : i \in 1..k}) = k
<1>. DEFINE first == [i \in 1..k |-> order[i]]
            image == {order[i] : i \in 1..k}
<1>1. k \in Nat /\ Cardinality(rs) \in Nat
  BY SomeRecords
<1>2. first \in [1..k -> image]
  OBVIOUS
<1>3. \A a, b \in 1..k : first[a] = first[b] => a = b
  BY <1>1, OrderIsOnto
<1>4. \A t \in image : \E a \in 1..k : first[a] = t
  OBVIOUS
<1>5. first \in Bijection(1..k, image)
  <2>. HIDE DEF first, image
  <2>. QED BY <1>2, <1>3, <1>4, Fun_IsBij
<1>6. IsFiniteSet(1..k) /\ Cardinality(1..k) = k
  BY <1>1, FS_Interval
<1>. HIDE DEF first, image
<1>7. ExistsBijection(1..k, image)
  BY <1>5 DEF ExistsBijection
<1>8. Cardinality(image) = k
  BY <1>6, <1>7, FS_Bijection
<1>. QED BY <1>8 DEF image

LEMMA FilesInitInv == FilesInit => FilesInv
<1>. SUFFICES ASSUME FilesInit PROVE FilesInv
  OBVIOUS
<1>. QED BY RecordNumbers DEF FilesInit, FilesInv, FilesTyped, FilesTypeOK, RecordsWhole, Saved,
                             DoomedExceed, KeptInTime

LEMMA FilesStepTyped == FilesInv /\ [FilesNext]_recordVars => FilesTyped' /\ RecordsWhole'
<1>. SUFFICES ASSUME FilesInv, [FilesNext]_recordVars PROVE FilesTyped' /\ RecordsWhole'
  OBVIOUS
<1>. DEFINE Goal == FilesTyped' /\ RecordsWhole'
<1>. USE RecordNumbers DEF FilesInv, FilesTyped, FilesTypeOK, RecordsWhole, Saved
<1>1. CASE Elapse
  BY <1>1 DEF Elapse
<1>2. ASSUME NEW r \in Record, CreateTmp(r) PROVE Goal
  BY <1>2 DEF CreateTmp
<1>3. ASSUME NEW r \in Record, WriteTmp(r) PROVE Goal
  BY <1>3 DEF WriteTmp
<1>4. ASSUME NEW r \in Record, RenameTmp(r) PROVE Goal
  BY <1>4 DEF RenameTmp
<1>5. ASSUME NEW r \in Record, SaveFails(r) PROVE Goal
  BY <1>5 DEF SaveFails
<1>6. CASE ListRecords
  <2>1. PICK order \in NewestFirst(Saved) :
          doomed' = {order[i] : i \in {i \in DOMAIN order : Exceeds(order, i)}}
    BY <1>6 DEF ListRecords
  <2>2. order \in [1..Cardinality(Saved) -> Saved]
    BY OrderIsOnto
  <2>3. doomed' \subseteq Saved
    BY <2>1, <2>2
  <2>. QED BY <1>6, <2>3 DEF ListRecords
<1>7. ASSUME NEW r \in Record, RemoveRecord(r) PROVE Goal
  BY <1>7 DEF RemoveRecord
<1>8. ASSUME NEW r \in Record, RemoveFails(r) PROVE Goal
  BY <1>8 DEF RemoveFails
<1>9. CASE CleanupEnds \/ CrashAgent \/ UNCHANGED recordVars
  BY <1>9 DEF CleanupEnds, CrashAgent, recordVars
<1>. QED BY <1>1, <1>2, <1>3, <1>4, <1>5, <1>6, <1>7, <1>8, <1>9 DEF FilesNext

\* A listing decides for the right records: the first of the order that are not too
\* old stay, and those are as many as may stay.
LEMMA ListingIsRight ==
  ASSUME FilesInv, ListRecords PROVE DoomedExceed' /\ KeptInTime'
<1>. USE RecordNumbers DEF FilesInv, FilesTyped, FilesTypeOK
<1>1. PICK order \in NewestFirst(Saved) :
        doomed' = {order[i] : i \in {i \in DOMAIN order : Exceeds(order, i)}}
  BY DEF ListRecords
<1>. DEFINE n == Cardinality(Saved)
            first(k) == {order[i] : i \in 1..k}
<1>2. Saved \in SUBSET Record /\ n \in Nat
  BY SomeRecords DEF Saved
<1>3. /\ order \in [1..n -> Saved]
      /\ \A i, j \in 1..n : order[i] = order[j] => i = j
      /\ \A r \in Saved : \E i \in 1..n : order[i] = r
  BY <1>2, OrderIsOnto
<1>4. \A i, j \in 1..n : i < j => modTime[order[i]] >= modTime[order[j]]
  BY DEF NewestFirst
<1>5. /\ Saved' = Saved /\ listed' = Saved /\ maxCount' = maxCount
      /\ retention' = retention /\ clock' = clock /\ modTime' = modTime
  BY DEF ListRecords, Saved
<1>6. \A r \in doomed' : \E i \in 1..n : order[i] = r /\ Exceeds(order, i)
  BY <1>1, <1>3
<1>7. maxCount \in Nat /\ retention \in Nat /\ clock \in Nat /\ \A r \in Record : modTime[r] \in Nat
  OBVIOUS
<1>8. \A k \in 0..n : Cardinality(first(k)) = k
  BY <1>2, FirstAreMany
<1>9. DoomedExceed'
  <2>. SUFFICES ASSUME NEW r \in doomed', ~TooOld(r)
                PROVE  maxCount > 0 /\ Cardinality(NewerKept(r)') >= maxCount
    BY <1>5 DEF DoomedExceed, TooOld
  <2>1. PICK i \in 1..n : order[i] = r /\ Exceeds(order, i)
    BY <1>6
  <2>2. maxCount > 0 /\ i > maxCount /\ maxCount \in 0..n
    BY <1>2, <1>7, <2>1 DEF TooOld, Exceeds
  <2>3. \A j \in 1..maxCount : order[j] \notin doomed' /\ modTime[order[j]] >= modTime[r]
    <3>. SUFFICES ASSUME NEW j \in 1..maxCount
                  PROVE  order[j] \notin doomed' /\ modTime[order[j]] >= modTime[r]
      OBVIOUS
    <3>1. j \in 1..n /\ j < i
      BY <1>2, <1>7, <2>2
    <3>2. modTime[order[j]] >= modTime[r]
      BY <1>4, <2>1, <3>1
    <3>3. ~Exceeds(order, j)
      <4>1. order[j] \in Record /\ r \in Record
        BY <1>2, <1>3, <2>1, <3>1
      <4>2. ~TooOld(order[j])
        BY <1>7, <3>2, <4>1 DEF TooOld
      <4>. QED BY <1>7, <4>2 DEF Exceeds, TooOld
    <3>. QED BY <1>3, <1>6, <3>1, <3>2, <3>3
  <2>4. first(maxCount) \subseteq NewerKept(r)'
    <3>. SUFFICES ASSUME NEW j \in 1..maxCount PROVE order[j] \in NewerKept(r)'
      OBVIOUS
    <3>1. order[j] \in Saved
      BY <1>2, <1>3, <2>2
    <3>. QED BY <1>5, <2>3, <3>1 DEF NewerKept
  <2>5. NewerKept(r)' \in SUBSET Record
    BY <1>2, <1>5 DEF NewerKept
  <2>6. Cardinality(first(maxCount)) = maxCount
    BY <1>8, <2>2
  <2>. HIDE DEF first
  <2>7. IsFiniteSet(NewerKept(r)') /\ Cardinality(NewerKept(r)') \in Nat
    BY <2>5, SomeRecords
  <2>. QED BY <2>2, <2>4, <2>6, <2>7, FS_Subset
<1>10. KeptInTime'
  <2>. SUFFICES ASSUME maxCount > 0 PROVE Cardinality(Saved \ doomed') <= maxCount
    BY <1>5 DEF KeptInTime
  <2>. DEFINE k == IF n <= maxCount THEN n ELSE maxCount
  <2>1. k \in 0..n /\ k <= maxCount
    BY <1>2, <1>7
  <2>2. Saved \ doomed' \subseteq first(k)
    <3>. SUFFICES ASSUME NEW r \in Saved \ doomed' PROVE r \in first(k)
      OBVIOUS
    <3>1. PICK i \in 1..n : order[i] = r
      BY <1>3
    <3>2. ~Exceeds(order, i)
      BY <1>1, <1>3, <3>1
    <3>. QED BY <1>2, <1>7, <3>1, <3>2 DEF Exceeds
  <2>3. first(k) \in SUBSET Record
    BY <1>2, <1>3, <2>1
  <2>4. Cardinality(first(k)) = k
    BY <1>8, <2>1
  <2>. HIDE DEF first, k
  <2>5. Cardinality(Saved \ doomed') <= k /\ Cardinality(Saved \ doomed') \in Nat
    BY <1>2, <2>2, <2>3, <2>4, SomeRecords, FS_Subset
  <2>6. k \in Nat
    BY <2>1, <1>2
  <2>. QED BY <1>7, <2>1, <2>5, <2>6
<1>. QED BY <1>9, <1>10

\* What has been decided stays right.
LEMMA DecisionsStay ==
  ASSUME FilesInv, [FilesNext]_recordVars, ~ListRecords
  PROVE  DoomedExceed' /\ KeptInTime'
<1>. USE RecordNumbers DEF FilesInv, FilesTyped, FilesTypeOK
<1>. DEFINE Goal == DoomedExceed' /\ KeptInTime'
<1>1. ASSUME doomed' \subseteq doomed, maxCount' = maxCount, retention' = retention,
             clock' >= clock, clock' \in Nat, \A r \in doomed : modTime'[r] = modTime[r],
             \A r \in doomed : NewerKept(r) \subseteq NewerKept(r)',
             \A r \in doomed : NewerKept(r)' \in SUBSET Record
      PROVE  DoomedExceed'
  <2>. SUFFICES ASSUME NEW r \in doomed'
                PROVE  TooOld(r)' \/ (maxCount > 0 /\ Cardinality(NewerKept(r)') >= maxCount)
    BY <1>1 DEF DoomedExceed
  <2>1. r \in doomed /\ r \in Record
    BY <1>1
  <2>2. TooOld(r) => TooOld(r)'
    BY <1>1, <2>1 DEF TooOld
  <2>3. /\ Cardinality(NewerKept(r)) <= Cardinality(NewerKept(r)')
        /\ Cardinality(NewerKept(r)) \in Nat /\ Cardinality(NewerKept(r)') \in Nat
    BY <1>1, <2>1, SomeRecords, FS_Subset
  <2>. QED BY <2>1, <2>2, <2>3 DEF DoomedExceed
<1>2. ASSUME maxCount' = maxCount, listed' = {} \/ listed # {},
             (listed' \cap Saved') \ doomed' \subseteq (listed \cap Saved) \ doomed
      PROVE  KeptInTime'
  <2>1. Cardinality((listed' \cap Saved') \ doomed') <= Cardinality((listed \cap Saved) \ doomed)
    BY <1>2, SomeRecords, FS_Subset
  <2>2. /\ Cardinality((listed' \cap Saved') \ doomed') \in Nat
        /\ Cardinality((listed \cap Saved) \ doomed) \in Nat
    BY <1>2, SomeRecords
  <2>. QED BY <1>2, <2>1, <2>2 DEF KeptInTime
<1>3. CASE Elapse
  BY <1>1, <1>2, <1>3 DEF Elapse, NewerKept, Saved
<1>4. ASSUME NEW r \in Record, CreateTmp(r) PROVE Goal
  <2>1. Saved' = Saved
    BY <1>4 DEF CreateTmp, Saved
  <2>. QED BY <1>1, <1>2, <1>4, <2>1 DEF CreateTmp, NewerKept, Saved
<1>5. ASSUME NEW r \in Record, WriteTmp(r) PROVE Goal
  <2>1. Saved' = Saved /\ r \notin Saved
    BY <1>5 DEF WriteTmp, Saved
  <2>2. \A q \in Saved : modTime'[q] = modTime[q]
    BY <1>5, <2>1 DEF WriteTmp, Saved
  <2>3. \A q \in doomed : NewerKept(q)' = NewerKept(q) /\ q \in Saved
    BY <1>5, <2>1, <2>2 DEF WriteTmp, NewerKept
  <2>4. \A q \in doomed : NewerKept(q) \in SUBSET Record
    BY DEF NewerKept, Saved
  <2>. QED BY <1>1, <1>2, <1>5, <2>1, <2>2, <2>3, <2>4 DEF WriteTmp
<1>6. ASSUME NEW r \in Record, RenameTmp(r) PROVE Goal
  <2>1. Saved' = Saved \cup {r} /\ r \notin listed
    BY <1>6 DEF RenameTmp, Saved
  <2>. QED BY <1>1, <1>2, <1>6, <2>1 DEF RenameTmp, NewerKept, Saved
<1>7. ASSUME NEW r \in Record, SaveFails(r) PROVE Goal
  <2>1. Saved' = Saved
    BY <1>7 DEF SaveFails, Saved
  <2>. QED BY <1>1, <1>2, <1>7, <2>1 DEF SaveFails, NewerKept, Saved
<1>8. ASSUME NEW r \in Record, RemoveRecord(r) PROVE Goal
  <2>1. Saved' = Saved \ {r} /\ Saved' \ doomed' = Saved \ doomed
    BY <1>8 DEF RemoveRecord, Saved
  <2>2. \A q : NewerKept(q)' = NewerKept(q) /\ NewerKept(q) \in SUBSET Record
    BY <1>8, <2>1 DEF RemoveRecord, NewerKept, Saved
  <2>. QED BY <1>1, <1>2, <1>8, <2>1, <2>2 DEF RemoveRecord
<1>9. ASSUME NEW r \in Record, RemoveFails(r) PROVE Goal
  <2>1. Saved' = Saved /\ Saved \in SUBSET Record
    BY <1>9 DEF RemoveFails, Saved
  <2>2. \A q : NewerKept(q) \subseteq NewerKept(q)' /\ NewerKept(q)' \in SUBSET Record
    BY <1>9, <2>1 DEF RemoveFails, NewerKept
  <2>. QED BY <1>1, <1>2, <1>9, <2>1, <2>2 DEF RemoveFails
<1>10. CASE CleanupEnds \/ CrashAgent
  BY <1>10 DEF CleanupEnds, CrashAgent, DoomedExceed, KeptInTime
<1>11. CASE UNCHANGED recordVars
  BY <1>11 DEF recordVars, DoomedExceed, KeptInTime, TooOld, NewerKept, Saved
<1>. QED BY <1>3, <1>4, <1>5, <1>6, <1>7, <1>8, <1>9, <1>10, <1>11 DEF FilesNext

LEMMA FilesStepInv == FilesInv /\ [FilesNext]_recordVars => FilesInv'
BY FilesStepTyped, ListingIsRight, DecisionsStay DEF FilesInv

\* A step that removes a record removes one that has been decided on.
LEMMA RemovalIsRight ==
  ASSUME FilesInv, [FilesNext]_recordVars,
         NEW r \in Record, file[r] = "saved", file'[r] = "removed"
  PROVE  \/ retention > 0 /\ clock - modTime[r] > retention
         \/ /\ maxCount > 0
            /\ Cardinality({q \in Saved \ {r} : modTime[q] >= modTime[r]}) >= maxCount
<1>. USE RecordNumbers DEF FilesInv, FilesTyped, FilesTypeOK
<1>1. r \in doomed
  BY DEF FilesNext, Elapse, ListRecords, CleanupEnds, CrashAgent, CreateTmp, WriteTmp, RenameTmp,
         SaveFails, RemoveRecord, RemoveFails, recordVars
<1>2. CASE TooOld(r)
  BY <1>2 DEF TooOld
<1>3. CASE maxCount > 0 /\ Cardinality(NewerKept(r)) >= maxCount
  <2>. DEFINE newer == {q \in Saved \ {r} : modTime[q] >= modTime[r]}
  <2>1. NewerKept(r) \subseteq newer /\ newer \in SUBSET Record
    BY <1>1 DEF NewerKept, Saved
  <2>. HIDE DEF newer
  <2>2. NewerKept(r) \in SUBSET newer /\ NewerKept(r) \in SUBSET Record
    BY <2>1
  <2>3. IsFiniteSet(newer) /\ Cardinality(newer) \in Nat /\ Cardinality(NewerKept(r)) \in Nat
    BY <2>1, <2>2, SomeRecords
  <2>4. Cardinality(NewerKept(r)) <= Cardinality(newer)
    BY <2>2, <2>3, FS_Subset
  <2>5. maxCount > 0 /\ Cardinality(newer) >= maxCount
    BY <1>3, <2>3, <2>4
  <2>. QED BY <2>5 DEF newer
<1>. QED BY <1>1, <1>2, <1>3 DEF DoomedExceed

\* Whenever the program ends, what has the name of a record was written to its end;
\* a removal takes only records that are too old, or have as many others that are as new
\* as may stay; and after a cleanup no more than that are left of those it could remove.
THEOREM CleanupIsExact == FilesSpec => CleanupExact
<1>1. FilesSpec => []FilesInv
  BY FilesInitInv, FilesStepInv, PTL DEF FilesSpec
<1>2. FilesInv => RecordsWhole /\ CountKept
  <2>. SUFFICES ASSUME FilesInv, listed # {}, doomed = {}, maxCount > 0
                PROVE  Cardinality(listed \cap Saved) <= maxCount
    BY DEF FilesInv, CountKept
  <2>1. (listed \cap Saved) \ doomed = listed \cap Saved
    OBVIOUS
  <2>. QED BY <2>1 DEF FilesInv, KeptInTime
<1>3. FilesInv /\ [FilesNext]_recordVars =>
        [\A r \in Record : file[r] = "saved" /\ file'[r] = "removed" =>
            \/ retention > 0 /\ clock - modTime[r] > retention
            \/ /\ maxCount > 0
               /\ Cardinality({q \in Saved \ {r} : modTime[q] >= modTime[r]}) >= maxCount]_recordVars
  BY RemovalIsRight
<1>. QED
  BY <1>1, <1>2, <1>3, PTL DEF FilesSpec, CleanupExact, OldestRemoved

-----------------------------------------------------------------------------
(***************************************************************************)
(* The identity of the agent.  While one caller at a time draws, there is  *)
(* no identity in the file and none has been told: nothing is overwritten. *)
(***************************************************************************)
IdentityTyped ==
    /\ idFile \in Nat /\ lastDrawn \in Nat /\ raced \in BOOLEAN
    /\ loadPc \in [Caller -> {"idle", "drawn", "truncated"}]
    /\ drawn \in [Caller -> Nat]
    /\ \A c \in Caller : loadPc[c] # "idle" => drawn[c] > 0

DrawsAlone ==
    ~raced => /\ \A c, d \in Caller : loadPc[c] # "idle" /\ loadPc[d] # "idle" => c = d
              /\ \A c \in Caller : loadPc[c] # "idle" => idFile = 0
              /\ told \subseteq {idFile} \ {0}

IdentityInv == IdentityTyped /\ DrawsAlone

LEMMA IdentityStepInv == IdentityInv /\ [IdentityNext]_identityVars => IdentityInv'
<1>. SUFFICES ASSUME IdentityInv, [IdentityNext]_identityVars PROVE IdentityInv'
  OBVIOUS
<1>. USE DEF IdentityInv, IdentityTyped, DrawsAlone
<1>1. CASE ProgramEnds
  BY <1>1 DEF ProgramEnds
<1>2. ASSUME NEW c \in Caller, ReadIdentity(c) PROVE IdentityInv'
  BY <1>2 DEF ReadIdentity
<1>3. ASSUME NEW c \in Caller, DrawIdentity(c) PROVE IdentityInv'
  <2>1. raced' = (raced \/ \E d \in Caller : loadPc[d] # "idle")
    BY <1>3 DEF DrawIdentity
  <2>2. raced' \in BOOLEAN /\ (~raced' => ~raced /\ \A d \in Caller : loadPc[d] = "idle")
    BY <2>1, Zenon
  <2>3. IdentityTyped'
    BY <1>3, <2>2 DEF DrawIdentity
  <2>4. DrawsAlone'
    BY <1>3, <2>2 DEF DrawIdentity
  <2>. QED BY <2>3, <2>4
<1>4. ASSUME NEW c \in Caller, TruncateFile(c) PROVE IdentityInv'
  BY <1>4 DEF TruncateFile
<1>5. ASSUME NEW c \in Caller, WriteIdentity(c) PROVE IdentityInv'
  BY <1>5 DEF WriteIdentity
<1>6. ASSUME NEW c \in Caller, IdentityFails(c) PROVE IdentityInv'
  BY <1>6 DEF IdentityFails
<1>7. CASE UNCHANGED identityVars
  BY <1>7 DEF identityVars
<1>. QED BY <1>1, <1>2, <1>3, <1>4, <1>5, <1>6, <1>7 DEF IdentityNext

\* However many identities are drawn, and wherever writing one fails or the program ends,
\* the server is told one, the one in the file, as long as no two callers draw at once
\* (agentid.go:23-38).
THEOREM IdentityIsOne == IdentitySpec => []OneIdentity
<1>1. IdentityInit => IdentityInv
  <2>. SUFFICES ASSUME IdentityInit PROVE IdentityInv
    OBVIOUS
  <2>1. raced \in BOOLEAN
    BY Zenon DEF IdentityInit
  <2>2. IdentityTyped /\ DrawsAlone
    BY <2>1 DEF IdentityInit, IdentityTyped, DrawsAlone
  <2>. QED BY <2>2 DEF IdentityInv
<1>2. IdentityInv => OneIdentity
  BY DEF IdentityInv, DrawsAlone, OneIdentity
<1>. QED BY <1>1, <1>2, IdentityStepInv, PTL DEF IdentitySpec

-----------------------------------------------------------------------------
(***************************************************************************)
(* The identity of the host.  What is detected or kept names the host only *)
(* as it was at most MaxSlow before the detection was kept; a label that   *)
(* is not detected never names it.                                         *)
(***************************************************************************)
NamesNoHost(v) == \A h \in Host : v # <<h>>

Names == Seq(Host \cup {"fixed", "env", "web", "longer"})

HostTyped ==
    /\ time \in Nat /\ host \in Host /\ lastTrue \in [Host -> Int]
    /\ raw \in RawLabels /\ envSet \in BOOLEAN
    /\ resolved \in Names /\ cached \in Names /\ seen \in Names
    /\ cachedAt \in Int /\ seenAt \in Nat
    /\ askPc \in [Asker -> {"idle", "waiting", "detecting", "told"}]
    /\ answer \in [Asker -> [value : Names, age : Int, detected : BOOLEAN]]

\* One asker is under the mutex; what it was told is not older than its detection.
DetectionIsFresh ==
    /\ lastTrue[host] = time /\ \A h \in Host : lastTrue[h] <= time
    /\ \A c, d \in Asker : askPc[c] = "detecting" /\ askPc[d] = "detecting" => c = d
    /\ Asked => time <= seenAt + MaxSlow /\ \A h \in Host : seen = <<h>> => lastTrue[h] >= seenAt

KeptIsFresh ==
    /\ \A h \in Host : cached = <<h>> => lastTrue[h] >= cachedAt - MaxSlow
    /\ ~needsAutoDetect => NamesNoHost(resolved)

HostInv == HostTyped /\ DetectionIsFresh /\ KeptIsFresh /\ FreshIdentity

\* Times are numbers, and names are told from words.
LEMMA HostNumbers ==
  /\ TTL \in Nat /\ TTL > 0 /\ MaxSlow \in Nat /\ MaxClock \in Nat
  /\ RawLabels \subseteq {"missing", "fixed", "var", "composite", "longer"}
  /\ \A h \in Host : h \notin {"fixed", "env", "web", "longer"}
BY HostIdentityAssumption

\* The age of a name of the host, and of a text that is none.
LEMMA AgeIsKnown ==
  ASSUME NEW v
  PROVE  /\ \A h \in Host : v = <<h>> => Age(v) = time - lastTrue[h]
         /\ (\A h \in Host : v # <<h>>) => Age(v) = 0
BY DEF Age

\* Texts of one word.
LEMMA OneWord ==
  /\ <<>> \in Names /\ NamesNoHost(<<>>)
  /\ \A h, v : <<h>> = <<v>> => h = v
  /\ \A h \in Host : <<h>> \in Names
  /\ \A w \in {"fixed", "env", "web", "longer"} : <<w>> \in Names /\ NamesNoHost(<<w>>)
<1>1. \A h, v : <<h>> = <<v>> => h = v
  OBVIOUS
<1>2. \A h : <<h>> # <<>>
  OBVIOUS
<1>. QED BY <1>1, <1>2, HostNumbers DEF Names, NamesNoHost

\* web- before any text names no host.
LEMMA WebNamesNoHost ==
  ASSUME NEW v \in Names PROVE <<"web">> \o v \in Names /\ NamesNoHost(<<"web">> \o v)
<1>1. <<"web">> \in Names /\ Len(<<"web">>) = 1 /\ <<"web">>[1] = "web"
  BY OneWord
<1>2. Len(v) \in Nat
  BY LenProperties DEF Names
<1>3. <<"web">> \o v \in Names /\ (<<"web">> \o v)[1] = "web"
  BY <1>1, <1>2, ConcatProperties DEF Names
<1>4. \A h \in Host : <<h>>[1] # "web"
  BY HostNumbers
<1>. QED BY <1>3, <1>4 DEF NamesNoHost

\* The label resolved with what the host says, or with nothing.
LEMMA ResolvedText ==
  ASSUME raw \in RawLabels, envSet \in BOOLEAN, NEW d \in Names
  PROVE  /\ resolveConfigured(d) \in Names
         /\ ~needsAutoDetect => NamesNoHost(resolveConfigured(d))
         /\ \A h \in Host : resolveConfigured(d) = <<h>> => d = <<h>>
<1>. DEFINE variable == IF envSet THEN <<"env">> ELSE d
<1>1. variable \in Names /\ (envSet => NamesNoHost(variable))
  BY OneWord
<1>2. CASE raw = "composite"
  BY <1>1, <1>2, WebNamesNoHost DEF resolveConfigured, needsAutoDetect, NamesNoHost
<1>3. CASE raw = "var"
  BY <1>1, <1>3 DEF resolveConfigured, needsAutoDetect, NamesNoHost
<1>4. CASE raw \in {"missing", "fixed", "longer"}
  BY <1>4, OneWord DEF resolveConfigured, NamesNoHost
<1>. QED BY <1>2, <1>3, <1>4, HostNumbers

\* A detection finds the name that the host has, or none.
LEMMA DetectionsAreNames ==
  ASSUME host \in Host, NEW d \in Detections
  PROVE  d \in Names /\ \A h \in Host : d = <<h>> => h = host
<1>1. d = <<host>> \/ d = <<>>
  BY DEF Detections
<1>. QED BY <1>1, OneWord DEF NamesNoHost

LEMMA HostInitInv == HostInit => HostInv
<1>. SUFFICES ASSUME HostInit PROVE HostInv
  OBVIOUS
<1>. USE HostNumbers
<1>1. PICK d \in Detections :
        resolved = resolveConfigured(d) /\ cached = IF needsAutoDetect THEN resolved ELSE <<>>
  BY DEF HostInit
<1>2. /\ resolved \in Names /\ (~needsAutoDetect => NamesNoHost(resolved))
      /\ \A h \in Host : resolved = <<h>> => h = host
  BY <1>1, ResolvedText, DetectionsAreNames DEF HostInit
<1>3. lastTrue \in [Host -> Int] /\ lastTrue[host] = 0
  BY DEF HostInit
<1>4. HostTyped
  <2>1. cached \in Names
    BY <1>1, <1>2, OneWord
  <2>2. NoAnswer \in [value : Names, age : Int, detected : BOOLEAN] /\ <<>> \in Names
    BY DEF NoAnswer, Names
  <2>3. cachedAt \in Int
    BY DEF HostInit
  <2>. QED BY <1>2, <1>3, <2>1, <2>2, <2>3 DEF HostTyped, HostInit
<1>5. DetectionIsFresh
  <2>1. \A h \in Host : lastTrue[h] <= 0
    BY DEF HostInit
  <2>. QED BY <1>3, <2>1 DEF HostInit, DetectionIsFresh, Asked
<1>6. KeptIsFresh
  <2>1. \A h \in Host : cached = <<h>> => lastTrue[h] >= cachedAt - MaxSlow
    <3>. SUFFICES ASSUME NEW h \in Host, cached = <<h>> PROVE lastTrue[h] >= cachedAt - MaxSlow
      OBVIOUS
    <3>1. needsAutoDetect /\ h = host
      BY <1>1, <1>2
    <3>. QED BY <1>3, <3>1 DEF HostInit
  <2>. QED BY <1>2, <2>1 DEF KeptIsFresh
<1>7. FreshIdentity
  BY DEF HostInit, FreshIdentity, NoAnswer
<1>. QED BY <1>4, <1>5, <1>6, <1>7 DEF HostInv

\* An asker is told a text that names the host as it was lately, or names no host.
LEMMA ToldIsFresh ==
  ASSUME HostInv, NEW c \in Asker, NEW v \in Names, NEW detected \in BOOLEAN,
         Tell(c, v, detected), v = <<>> => detected,
         \A h \in Host : v = <<h>> => time - lastTrue[h] < TTL + MaxSlow
  PROVE  /\ FreshIdentity'
         /\ askPc' = [askPc EXCEPT ![c] = "told"]
         /\ answer' \in [Asker -> [value : Names, age : Int, detected : BOOLEAN]]
<1>. USE HostNumbers DEF HostInv, HostTyped
<1>1. Age(v) \in Int /\ Age(v) < TTL + MaxSlow
  <2>1. CASE \E h \in Host : v = <<h>>
    BY <2>1, AgeIsKnown
  <2>2. CASE \A h \in Host : v # <<h>>
    BY <2>2, AgeIsKnown
  <2>. QED BY <2>1, <2>2
<1>2. answer' = [answer EXCEPT ![c] = [value |-> v, age |-> Age(v), detected |-> detected]]
  BY DEF Tell
<1>3. answer' \in [Asker -> [value : Names, age : Int, detected : BOOLEAN]]
  BY <1>1, <1>2
<1>4. FreshIdentity'
  BY <1>1, <1>2 DEF FreshIdentity
<1>. QED BY <1>3, <1>4 DEF Tell

LEMMA AskStepInv ==
  ASSUME HostInv, NEW c \in Asker, AskSteps(c) \/ UseAnswer(c)
  PROVE  HostInv'
<1>. USE HostNumbers DEF HostInv, HostTyped, DetectionIsFresh, KeptIsFresh, needsAutoDetect, NamesNoHost
<1>1. CASE TellLabel(c)
  <2>1. FreshIdentity' /\ askPc' = [askPc EXCEPT ![c] = "told"]
        /\ answer' \in [Asker -> [value : Names, age : Int, detected : BOOLEAN]]
    BY <1>1, ToldIsFresh DEF TellLabel
  <2>. QED BY <1>1, <2>1 DEF TellLabel, Asked
<1>2. CASE AskHost(c)
  BY <1>2 DEF AskHost, Asked, FreshIdentity
<1>3. CASE TellCached(c)
  <2>1. \A h \in Host : cached = <<h>> => time - lastTrue[h] < TTL + MaxSlow
    BY <1>3 DEF TellCached, CacheHolds
  <2>2. FreshIdentity' /\ askPc' = [askPc EXCEPT ![c] = "told"]
        /\ answer' \in [Asker -> [value : Names, age : Int, detected : BOOLEAN]]
    BY <1>3, <2>1, ToldIsFresh DEF TellCached, CacheHolds
  <2>. QED BY <1>3, <2>2 DEF TellCached, Asked
<1>4. CASE Detect(c)
  <2>1. seen' \in Names /\ \A h \in Host : seen' = <<h>> => h = host
    BY <1>4, DetectionsAreNames DEF Detect
  <2>. QED BY <1>4, <2>1 DEF Detect, Asked, FreshIdentity
<1>5. CASE TellDetected(c)
  <2>1. Asked
    BY <1>5 DEF TellDetected, Asked
  <2>2. \A h \in Host : seen = <<h>> => time - lastTrue[h] <= MaxSlow /\ time - lastTrue[h] < TTL + MaxSlow
    BY <2>1
  <2>6. Tell(c, seen, TRUE)
    BY <1>5 DEF TellDetected
  <2>3. FreshIdentity' /\ askPc' = [askPc EXCEPT ![c] = "told"]
        /\ answer' \in [Asker -> [value : Names, age : Int, detected : BOOLEAN]]
    BY ONLY HostInv, <2>2, <2>6, seen \in Names, ToldIsFresh
  <2>4. ~Asked'
    BY <1>5, <2>3 DEF TellDetected, Asked
  <2>5. seen' = <<>> /\ seenAt' = 0 /\ seen' \in Names
    BY <1>5, OneWord DEF TellDetected
  <2>. QED BY <1>5, <2>2, <2>3, <2>4, <2>5 DEF TellDetected
<1>6. CASE UseAnswer(c)
  <2>1. NoAnswer \in [value : Names, age : Int, detected : BOOLEAN]
    BY OneWord DEF NoAnswer
  <2>2. FreshIdentity'
    BY <1>6 DEF UseAnswer, FreshIdentity, NoAnswer
  <2>. QED BY <1>6, <2>1, <2>2 DEF UseAnswer, Asked
<1>. QED BY <1>1, <1>2, <1>3, <1>4, <1>5, <1>6 DEF AskSteps

LEMMA HostStepInv == HostInv /\ [HostNext]_hostVars => HostInv'
<1>. SUFFICES ASSUME HostInv, [HostNext]_hostVars PROVE HostInv'
  OBVIOUS
<1>. USE HostNumbers DEF HostInv, HostTyped, DetectionIsFresh, KeptIsFresh, needsAutoDetect, NamesNoHost
<1>1. CASE Second
  <2>1. time' = time + 1 /\ lastTrue' = [lastTrue EXCEPT ![host] = time + 1]
    BY <1>1 DEF Second
  <2>2. \A h \in Host : lastTrue'[h] \in Int /\ lastTrue'[h] >= lastTrue[h]
    BY <2>1
  <2>3. Asked' = Asked /\ (Asked => time' <= seenAt + MaxSlow)
    BY <1>1, <2>1 DEF Second, Asked
  <2>. QED BY <1>1, <2>1, <2>2, <2>3 DEF Second, FreshIdentity
<1>2. CASE HostChanges
  <2>1. host' \in Host /\ lastTrue' = [lastTrue EXCEPT ![host'] = time]
    BY <1>2 DEF HostChanges
  <2>2. \A h \in Host : lastTrue'[h] \in Int /\ lastTrue'[h] >= lastTrue[h]
    BY <2>1
  <2>. QED BY <1>2, <2>1, <2>2 DEF HostChanges, Asked, FreshIdentity
<1>3. CASE UNCHANGED hostVars
  BY <1>3 DEF hostVars, Asked, FreshIdentity
<1>. QED BY <1>1, <1>2, <1>3, AskStepInv DEF HostNext

\* However askers, changes of the host and failures interleave, an answer that names the
\* host was true less than a minute and a detection ago, and no answer is empty unless
\* this very call has failed to detect one (config.go:337-367).
THEOREM IdentityIsFresh == HostSpec => []FreshIdentity
<1>1. HostInv => FreshIdentity
  BY DEF HostInv
<1>. QED BY HostInitInv, HostStepInv, <1>1, PTL DEF HostSpec
=============================================================================
