------------------------ MODULE CheckpointFilesProofs ------------------------
(***************************************************************************)
(* Proofs about CheckpointFiles.  The inductive invariant is about every    *)
(* directory whose names a power loss may leave, not only the current one:   *)
(* in each of them both checkpoint files refer to a snapshot that is there,  *)
(* and was synced or is doubted, and the training checkpoint continues what  *)
(* the last returned save stored.                                            *)
(***************************************************************************)
EXTENDS CheckpointFiles, TLAPS

FilesTypeOK ==
    /\ dir \in Directory /\ survivors \subseteq Directory
    /\ synced \subseteq Journals /\ doubted \subseteq Journals
    /\ journal \in Journals /\ saving \in Journals /\ returned \in Journals
    /\ pc \in {"idle", "snapshot", "copying", "fsync", "temporary", "replace", "sync"}
    /\ target \in {"training", "archive"} /\ up \in BOOLEAN

\* The snapshot is there under its name, and its contents are synced or doubted.
Refers(d, file, safe, unsafe) ==
    file.exists => file.ref \in d.whole \cup d.partial /\ file.ref \in safe \cup unsafe

\* A directory that has kept its checkpoints.
Sound(d, safe, unsafe, saved) ==
    /\ Refers(d, d.training, safe, unsafe) /\ Refers(d, d.archive, safe, unsafe)
    /\ safe \cap d.partial = {} /\ d.whole \cap d.partial = {}
    /\ Extends(d.training.ref, saved)

\* Where save_checkpoint is and what it has achieved by then.
SaveInv ==
    /\ pc # "idle" => up /\ saving = journal
    /\ pc = "copying" => saving \in dir.partial
    /\ pc = "fsync" => saving \in dir.whole /\ \A d \in survivors : saving \notin d.partial
    /\ pc \in {"copying", "fsync"} => saving \notin synced \cup doubted
    /\ pc \in {"temporary", "replace"} => saving \in dir.whole /\ saving \in synced \cup doubted
    /\ pc = "sync" /\ target = "training" => dir.training.ref = saving

\* Synced snapshots are whole, doubted ones may be cut short by now.
ContentsInv ==
    /\ synced \subseteq dir.whole /\ doubted \subseteq dir.whole \cup dir.partial
    /\ doubted \cap synced = {}

FilesInv ==
    /\ FilesTypeOK /\ SaveInv /\ ContentsInv
    /\ dir \in survivors /\ \A d \in survivors : Sound(d, synced, doubted, returned)
    /\ up => Extends(journal, returned)

\* A journal continues itself.
LEMMA ExtendsItself == ASSUME NEW s \in Journals PROVE Extends(s, s)
  BY DEF Extends, Journals

\* Only rows are added.
LEMMA AppendExtends ==
  ASSUME NEW s \in Journals, NEW r \in Journals, NEW row \in Rows, Extends(s, r)
  PROVE  Append(s, row) \in Journals /\ Extends(Append(s, row), r)
  BY DEF Extends, Journals

\* Completing a snapshot touches nothing but its contents.
LEMMA CompleteFields ==
  ASSUME NEW d \in Directory, saving \in Journals, d.whole \cap d.partial = {}
  PROVE  /\ Complete(d) \in Directory
         /\ Complete(d).training = d.training /\ Complete(d).archive = d.archive
         /\ Complete(d).partial = d.partial \ {saving}
         /\ d.whole \subseteq Complete(d).whole /\ Complete(d).whole \subseteq d.whole \cup {saving}
         /\ saving \in d.partial => saving \in Complete(d).whole
         /\ Complete(d).whole \cap Complete(d).partial = {}
  BY DEF Complete, Directory

\* A power loss that cuts snapshots short leaves every name.
LEMMA LossFields ==
  ASSUME NEW d \in Directory, NEW cut \in SUBSET d.whole
  PROVE  /\ AfterLoss(d, cut) \in Directory
         /\ AfterLoss(d, cut).training = d.training /\ AfterLoss(d, cut).archive = d.archive
         /\ AfterLoss(d, cut).whole = d.whole \ cut
         /\ AfterLoss(d, cut).partial = d.partial \cup cut
  BY DEF AfterLoss, Directory

\* No snapshot, no checkpoint, no journal.
LEMMA InitFilesInv == Init => FilesInv
<1> SUFFICES ASSUME Init PROVE FilesInv
  OBVIOUS
<1>1. <<>> \in Journals /\ Empty \in Directory
  BY DEF Journals, Empty, NoFile, Directory
<1>2. FilesTypeOK /\ SaveInv /\ ContentsInv
  BY <1>1 DEF Init, FilesTypeOK, SaveInv, ContentsInv
<1>3. Sound(Empty, {}, {}, <<>>)
  BY <1>1, ExtendsItself DEF Sound, Refers, Empty, NoFile
<1>4. Extends(journal, returned)
  BY <1>1, ExtendsItself DEF Init
<1> QED
  BY <1>2, <1>3, <1>4 DEF FilesInv, Init

\* A loss leaves what was synced; of the rest it leaves the names, and what it cuts
\* short of a checkpoint's was doubted.
LEMMA LossIsSound ==
  ASSUME FilesInv, PowerLoss
  PROVE  /\ dir' \in Directory /\ ContentsInv'
         /\ Sound(dir', synced', doubted', returned')
<1>0. PICK d \in survivors : \E cut \in SUBSET (d.whole \ synced) : dir' = AfterLoss(d, cut)
  BY DEF PowerLoss
<1>1. PICK cut \in SUBSET (d.whole \ synced) : dir' = AfterLoss(d, cut)
  BY <1>0
<1>2. d \in Directory /\ Sound(d, synced, doubted, returned) /\ cut \in SUBSET d.whole
  BY <1>1 DEF FilesInv, FilesTypeOK
<1>3. /\ dir' \in Directory /\ dir'.training = d.training /\ dir'.archive = d.archive
      /\ dir'.whole = d.whole \ cut /\ dir'.partial = d.partial \cup cut
  BY <1>1, <1>2, LossFields
<1>4. synced' = dir'.whole /\ doubted' = doubted \cap dir'.partial /\ returned' = returned
  BY DEF PowerLoss
<1>5. synced \cap dir'.partial = {} /\ dir'.whole \cap dir'.partial = {}
  BY <1>1, <1>2, <1>3 DEF Sound
<1>6. ASSUME NEW file, Refers(d, file, synced, doubted)
      PROVE  Refers(dir', file, synced', doubted')
  BY <1>3, <1>4, <1>5, <1>6 DEF Refers
<1> QED
  BY <1>2, <1>3, <1>4, <1>5, <1>6 DEF Sound, ContentsInv

\* Every operation of the Learner, every death and every power loss keep it.
LEMMA NextFilesInv == FilesInv /\ [Next]_vars => FilesInv'
<1> SUFFICES ASSUME FilesInv, [Next]_vars PROVE FilesInv'
  OBVIOUS
<1> USE DEF Leaves, Goto, diskVars, saveVars, processVars, historyVars
<1>0. <<>> \in Journals
  BY DEF Journals
<1>1. ASSUME NEW row \in Rows, Ingest(row) PROVE FilesInv'
  <2>1. journal' \in Journals /\ Extends(journal', returned)
    BY <1>1, AppendExtends DEF Ingest, FilesInv, FilesTypeOK
  <2> QED
    BY <1>1, <2>1 DEF Ingest, FilesInv, FilesTypeOK, SaveInv, ContentsInv
<1>2. ASSUME NEW file \in {"training", "archive"}, BeginSave(file) PROVE FilesInv'
  BY <1>2 DEF BeginSave, FilesInv, FilesTypeOK, SaveInv, ContentsInv
<1>3. CASE SnapshotMismatch \/ TemporaryWritten \/ SaveRaises \/ Dies
  BY <1>0, <1>3 DEF SnapshotMismatch, TemporaryWritten, SaveRaises, Dies, FilesInv,
                    FilesTypeOK, SaveInv, ContentsInv
<1>4. CASE SnapshotKept
  <2>1. doubted' = doubted \cup ({saving} \ synced) /\ UNCHANGED <<diskVars, returned>>
    BY <1>4 DEF SnapshotKept
  <2>2. \A d \in survivors : Sound(d, synced, doubted', returned)
    BY <2>1 DEF FilesInv, Sound, Refers
  <2>3. FilesTypeOK' /\ SaveInv' /\ ContentsInv'
    BY <1>4, <2>1 DEF SnapshotKept, FilesInv, FilesTypeOK, SaveInv, ContentsInv
  <2> QED
    BY <1>4, <2>1, <2>2, <2>3 DEF SnapshotKept, FilesInv
<1>5. CASE SnapshotCreated
  <2> DEFINE new == [dir EXCEPT !.partial = @ \cup {saving}]
  <2>1. /\ new \in Directory /\ new.partial = dir.partial \cup {saving}
        /\ new.training = dir.training /\ new.archive = dir.archive /\ new.whole = dir.whole
    BY DEF FilesInv, FilesTypeOK, Directory
  <2>2. saving \notin dir.whole \cup dir.partial /\ saving \notin synced \cup doubted
    BY <1>5 DEF SnapshotCreated, FilesInv, ContentsInv
  <2>3. Sound(new, synced, doubted, returned)
    BY <2>1, <2>2 DEF FilesInv, Sound, Refers
  <2>4. dir' = new /\ survivors' = survivors \cup {new} /\ UNCHANGED <<synced, historyVars>>
    BY <1>5 DEF SnapshotCreated, Changes
  <2> HIDE DEF new
  <2>5. FilesTypeOK' /\ SaveInv' /\ ContentsInv'
    BY <1>5, <2>1, <2>2, <2>4
       DEF SnapshotCreated, FilesInv, FilesTypeOK, SaveInv, ContentsInv
  <2> QED
    BY <1>5, <2>3, <2>4, <2>5 DEF SnapshotCreated, FilesInv
<1>6. CASE SnapshotWritten
  <2>1. saving \notin synced \cup doubted /\ saving \in dir.partial
    BY <1>6 DEF SnapshotWritten, FilesInv, SaveInv
  <2>2. ASSUME NEW d \in survivors
        PROVE  /\ Complete(d) \in Directory /\ saving \notin Complete(d).partial
               /\ Sound(Complete(d), synced, doubted, returned)
    <3>1. d \in Directory /\ saving \in Journals /\ Sound(d, synced, doubted, returned)
      BY <2>2 DEF FilesInv, FilesTypeOK
    <3> HIDE DEF Complete
    <3> QED
      BY <2>1, <3>1, CompleteFields DEF Sound, Refers
  <2>3. /\ dir' = Complete(dir) /\ survivors' = {Complete(d) : d \in survivors}
        /\ UNCHANGED <<synced, historyVars, journal, processVars, target, saving>>
        /\ pc' = "fsync"
    BY <1>6 DEF SnapshotWritten
  <2>4. /\ saving \in Complete(dir).whole /\ dir.whole \subseteq Complete(dir).whole
        /\ Complete(dir).partial = dir.partial \ {saving} /\ dir \in survivors
    BY <2>1, CompleteFields DEF FilesInv, FilesTypeOK, Sound
  <2>5. FilesTypeOK' /\ SaveInv' /\ ContentsInv'
    BY <2>1, <2>2, <2>3, <2>4, <1>6
       DEF SnapshotWritten, FilesInv, FilesTypeOK, SaveInv, ContentsInv
  <2> QED
    BY <2>2, <2>3, <2>4, <2>5 DEF FilesInv
<1>7. CASE SnapshotSynced
  <2>1. /\ synced' = synced \cup {saving} /\ saving \in dir.whole /\ saving \notin doubted
        /\ \A d \in survivors : saving \notin d.partial
        /\ UNCHANGED <<dir, survivors, historyVars>>
    BY <1>7 DEF SnapshotSynced, FilesInv, SaveInv
  <2>2. \A d \in survivors : Sound(d, synced', doubted, returned)
    BY <2>1 DEF FilesInv, Sound, Refers
  <2>3. FilesTypeOK' /\ SaveInv' /\ ContentsInv'
    BY <1>7, <2>1 DEF SnapshotSynced, FilesInv, FilesTypeOK, SaveInv, ContentsInv
  <2> QED
    BY <1>7, <2>1, <2>2, <2>3 DEF SnapshotSynced, FilesInv
<1>8. CASE Replace
  <2> DEFINE file == [ref |-> saving, exists |-> TRUE]
             new == IF target = "training" THEN [dir EXCEPT !.training = file]
                                           ELSE [dir EXCEPT !.archive = file]
  <2>1. /\ saving \in dir.whole /\ saving \in synced \cup doubted /\ saving \in Journals
        /\ Extends(saving, returned)
    BY <1>8 DEF Replace, FilesInv, FilesTypeOK, SaveInv
  <2>2. /\ new \in Directory /\ new.whole = dir.whole /\ new.partial = dir.partial
        /\ target = "training" => new.training = file /\ new.archive = dir.archive
        /\ target # "training" => new.training = dir.training /\ new.archive = file
    BY <2>1 DEF FilesInv, FilesTypeOK, Directory
  <2>3. Sound(new, synced, doubted, returned)
    BY <2>1, <2>2 DEF FilesInv, Sound, Refers
  <2>4. dir' = new /\ survivors' = survivors \cup {new} /\ UNCHANGED <<synced, historyVars>>
    BY <1>8 DEF Replace, Changes
  <2>5. target = "training" => new.training.ref = saving
    BY <2>2
  <2> HIDE DEF new
  <2>6. FilesTypeOK' /\ SaveInv' /\ ContentsInv'
    BY <1>8, <2>2, <2>4, <2>5 DEF Replace, FilesInv, FilesTypeOK, SaveInv, ContentsInv
  <2> QED
    BY <1>8, <2>3, <2>4, <2>6 DEF Replace, FilesInv
<1>9. CASE DirectorySynced
  <2>1. Extends(journal, journal)
    BY ExtendsItself DEF FilesInv, FilesTypeOK
  <2>2. /\ Extends(dir.training.ref, returned') /\ Extends(journal, returned')
        /\ survivors' = {dir} /\ UNCHANGED <<dir, synced, doubted>>
    BY <1>9, <2>1 DEF DirectorySynced, Returns, FilesInv, SaveInv, Sound
  <2>3. Sound(dir, synced, doubted, returned')
    BY <2>2 DEF FilesInv, Sound
  <2>4. FilesTypeOK' /\ SaveInv' /\ ContentsInv'
    BY <1>0, <1>9, <2>2 DEF DirectorySynced, Returns, FilesInv, FilesTypeOK, SaveInv, ContentsInv
  <2> QED
    BY <1>9, <2>2, <2>3, <2>4 DEF DirectorySynced, FilesInv
<1>10. CASE PowerLoss
  <2>1. FilesTypeOK' /\ SaveInv'
    BY <1>0, <1>10, LossIsSound DEF PowerLoss, FilesInv, FilesTypeOK, SaveInv, Directory
  <2> QED
    BY <1>10, <2>1, LossIsSound DEF PowerLoss, FilesInv
<1>11. CASE Restart
  <2>1. dir.training.ref \in Journals /\ Extends(dir.training.ref, returned)
    BY DEF FilesInv, FilesTypeOK, Directory, Sound
  <2> QED
    BY <1>11, <2>1 DEF Restart, FilesInv, FilesTypeOK, SaveInv, ContentsInv
<1>12. CASE UNCHANGED vars
  BY <1>12 DEF vars, FilesInv, FilesTypeOK, SaveInv, ContentsInv
<1> QED
  BY <1>1, <1>2, <1>3, <1>4, <1>5, <1>6, <1>7, <1>8, <1>9, <1>10, <1>11, <1>12 DEF Next, Save

\* The inductive invariant of the files, deaths and power losses included.
THEOREM FilesInductive == Spec => []FilesInv
  BY InitFilesInv, NextFilesInv, PTL DEF Spec

\* No death and no power loss takes back a training save that returned.
THEOREM ReturnedSaveSurvivesTheorem == Spec => []ReturnedSaveSurvives
<1>1. FilesInv => ReturnedSaveSurvives
  BY DEF FilesInv, Sound, ReturnedSaveSurvives
<1> QED
  BY <1>1, FilesInductive, PTL

\* Only a power loss, and only of a snapshot that a save kept unsynced, takes a
\* checkpoint away, for any rows, saves, failures and deaths.
THEOREM OnlyDoubtedSnapshotsAreLostTheorem == Spec => OnlyDoubtedSnapshotsAreLost
<1>1. FilesInv /\ [Next]_vars =>
        [/\ KeepsItsSnapshot(dir.training, dir'.training)
         /\ KeepsItsSnapshot(dir.archive, dir'.archive)]_vars
  <2> SUFFICES ASSUME FilesInv, Next
               PROVE  /\ KeepsItsSnapshot(dir.training, dir'.training)
                      /\ KeepsItsSnapshot(dir.archive, dir'.archive)
    OBVIOUS
  <2> USE DEF diskVars, KeepsItsSnapshot, Found
  <2>1. CASE UNCHANGED dir
    BY <2>1
  <2>2. CASE SnapshotCreated \/ SnapshotWritten
    <3>1. dir'.training = dir.training /\ dir'.archive = dir.archive /\ dir.whole \subseteq dir'.whole
      BY <2>2, CompleteFields
         DEF SnapshotCreated, SnapshotWritten, Changes, FilesInv, FilesTypeOK, Sound, Directory
    <3> QED
      BY <3>1
  <2>3. CASE Replace
    <3>1. saving \in dir.whole
      BY <2>3 DEF Replace, FilesInv, SaveInv
    <3>2. /\ dir'.whole = dir.whole
          /\ dir'.training \in {dir.training, [ref |-> saving, exists |-> TRUE]}
          /\ dir'.archive \in {dir.archive, [ref |-> saving, exists |-> TRUE]}
      BY <2>3 DEF Replace, Changes, FilesInv, FilesTypeOK, Directory
    <3> QED
      BY <3>1, <3>2
  <2>4. CASE PowerLoss
    <3>1. Sound(dir', synced', doubted', returned') /\ synced' = dir'.whole
          /\ doubted' \subseteq doubted /\ ~up'
      BY <2>4, LossIsSound DEF PowerLoss
    <3> QED
      BY <3>1 DEF Sound, Refers
  <2> QED
    BY <2>1, <2>2, <2>3, <2>4
       DEF Next, Save, Ingest, BeginSave, SnapshotKept, SnapshotMismatch, SnapshotSynced,
           TemporaryWritten, DirectorySynced, SaveRaises, Dies, Restart
<1> QED
  BY <1>1, FilesInductive, PTL DEF Spec, OnlyDoubtedSnapshotsAreLost

------------------------------------------------------------------------------
\* Seen from what a Learner starts from, every step replaces it whole, confirms it,
\* falls back to a candidate, or loses a doubted one.
LEMMA FilesStepIsStoreStep == FilesInv /\ FilesInv' /\ [Next]_vars => [Store!Next]_(Store!vars)
<1> SUFFICES ASSUME FilesInv, FilesInv', [Next]_vars PROVE [Store!Next]_(Store!vars)
  OBVIOUS
<1> DEFINE Candidates == {StartsFrom(d) : d \in survivors}
<1> USE DEF diskVars, historyVars
<1>1. CASE UNCHANGED <<dir, survivors, doubted>>
  BY <1>1 DEF Store!vars
<1>2. CASE SnapshotKept
  <2>1. doubted' = doubted \cup ({saving} \ synced) /\ UNCHANGED diskVars
    BY <1>2 DEF SnapshotKept
  <2>2. CASE saving \in synced \cup doubted
    BY <2>1, <2>2 DEF Store!vars, FilesInv, ContentsInv
  <2>3. CASE saving \notin synced \cup doubted
    <3>1. Store!Journal(saving) \notin Candidates
      BY <2>3 DEF Store!Journal, StartsFrom, Found, FilesInv, Sound, Refers
    <3>2. doubted' = doubted \cup {saving} /\ doubted' \subseteq Journals
      BY <2>1, <2>3 DEF FilesInv, FilesTypeOK
    <3> QED
      BY <2>1, <3>1, <3>2 DEF Store!Next, Store!Doubt, Journals
  <2> QED
    BY <2>2, <2>3
<1>3. CASE SnapshotCreated
  <2> DEFINE new == [dir EXCEPT !.partial = @ \cup {saving}]
  <2>1. new.training = dir.training /\ new.whole = dir.whole
    BY DEF FilesInv, FilesTypeOK, Directory
  <2>2. StartsFrom(new) = StartsFrom(dir)
    BY <2>1 DEF StartsFrom, Found
  <2>3. dir' = new /\ survivors' = survivors \cup {new} /\ dir \in survivors /\ doubted' = doubted
    BY <1>3 DEF SnapshotCreated, Changes, FilesInv
  <2> HIDE DEF new
  <2> QED
    BY <2>2, <2>3 DEF Store!vars
<1>4. CASE SnapshotWritten
  <2>1. ASSUME NEW d \in survivors PROVE StartsFrom(Complete(d)) = StartsFrom(d)
    <3>1. /\ Complete(d).training = d.training /\ d.whole \subseteq Complete(d).whole
          /\ Complete(d).whole \subseteq d.whole \cup {saving}
      BY <2>1, CompleteFields DEF FilesInv, FilesTypeOK, Sound
    <3>2. d.training.exists => d.training.ref # saving
      BY <1>4 DEF SnapshotWritten, FilesInv, SaveInv, Sound, Refers
    <3> QED
      BY <3>1, <3>2 DEF StartsFrom, Found
  <2>2. /\ dir' = Complete(dir) /\ survivors' = {Complete(d) : d \in survivors} /\ dir \in survivors
        /\ doubted' = doubted
    BY <1>4 DEF SnapshotWritten, FilesInv
  <2> QED
    BY <2>1, <2>2 DEF Store!vars
<1>5. CASE Replace
  <2>1. survivors' = survivors \cup {dir'} /\ doubted' = doubted
    BY <1>5 DEF Replace, Changes
  <2>2. {StartsFrom(d) : d \in survivors'} = Candidates \cup {StartsFrom(dir')}
    BY <2>1
  <2>3. CASE target = "training"
    <3>1. dir'.training = [ref |-> saving, exists |-> TRUE] /\ dir'.whole = dir.whole
      BY <1>5, <2>3 DEF Replace, Changes, FilesInv, FilesTypeOK, Directory
    <3>2. StartsFrom(dir') \in [kind : {"journal"}, rows : Seq(Rows)]
      BY <1>5, <3>1 DEF Replace, StartsFrom, Found, FilesInv, FilesTypeOK, SaveInv, Journals
    <3> QED
      BY <2>1, <2>2, <3>2 DEF Store!Next, Store!Replace
  <2>4. CASE target # "training"
    <3>1. dir'.training = dir.training /\ dir'.whole = dir.whole /\ dir \in survivors
      BY <1>5, <2>4 DEF Replace, Changes, FilesInv, FilesTypeOK, Directory
    <3>2. StartsFrom(dir') = StartsFrom(dir)
      BY <3>1 DEF StartsFrom, Found
    <3> QED
      BY <2>1, <2>2, <3>1, <3>2 DEF Store!vars
  <2> QED
    BY <2>3, <2>4
<1>6. CASE DirectorySynced
  BY <1>6 DEF DirectorySynced, Store!Next, Store!Confirm
<1>7. CASE PowerLoss
  <2>1. PICK d \in survivors : \E cut \in SUBSET (d.whole \ synced) : dir' = AfterLoss(d, cut)
    BY <1>7 DEF PowerLoss
  <2>2. PICK cut \in SUBSET (d.whole \ synced) : dir' = AfterLoss(d, cut)
    BY <2>1
  <2>3. /\ d \in Directory /\ dir'.training = d.training /\ dir'.whole = d.whole \ cut
        /\ Refers(d, d.training, synced, doubted)
    BY <2>2, LossFields DEF FilesInv, FilesTypeOK, Sound
  <2>4. survivors' = {dir'} /\ doubted' \subseteq doubted
    BY <1>7 DEF PowerLoss
  <2>5. CASE StartsFrom(dir') = StartsFrom(d)
    BY <2>4, <2>5 DEF Store!Next, Store!Lose
  <2>6. CASE StartsFrom(dir') # StartsFrom(d)
    <3>1. d.training.exists /\ d.training.ref \in cut /\ Found(d, d.training)
      BY <2>2, <2>3, <2>6 DEF StartsFrom, Found
    <3>2. StartsFrom(d) = Store!Journal(d.training.ref) /\ StartsFrom(dir') = Store!Lost
      BY <2>3, <3>1 DEF StartsFrom, Found, Store!Journal, Store!Lost
    <3>3. d.training.ref \in doubted
      BY <2>2, <2>3, <3>1 DEF Refers
    <3> QED
      BY <2>4, <3>2, <3>3 DEF Store!Next, Store!Lose
  <2> QED
    BY <2>5, <2>6
<1>8. Next => \/ UNCHANGED <<dir, survivors, doubted>> \/ SnapshotKept \/ SnapshotCreated
              \/ SnapshotWritten \/ Replace \/ DirectorySynced \/ PowerLoss
  BY DEF Next, Save, Ingest, BeginSave, SnapshotMismatch, SnapshotSynced, TemporaryWritten,
         SaveRaises, Dies, Restart
<1> QED
  BY <1>1, <1>2, <1>3, <1>4, <1>5, <1>6, <1>7, <1>8 DEF vars

\* The files implement the store that LearnerService assumes, with its one reservation:
\* a journal may be doubted, and then lost with the power.
THEOREM FilesImplementStore == Spec => ImplementsCheckpointStore
<1>1. Init => Store!Init
  BY DEF Init, Empty, NoFile, Store!Init, Store!Seed, StartsFrom, Found
<1> QED
  BY <1>1, FilesInductive, FilesStepIsStoreStep, PTL DEF Spec, ImplementsCheckpointStore, Store!Spec

==============================================================================
