--------------------------- MODULE CheckpointFiles ---------------------------
(***************************************************************************)
(* The files behind a checkpoint: save_checkpoint (real_learner.py:672-704)  *)
(* writes the journal's snapshot under a name made of its digest             *)
(* (provenance.py:102-127), then a temporary file, then renames it over the  *)
(* checkpoint, which only refers to the snapshot.  One process at a time     *)
(* owns the directory; writes fail, it dies at any point, the machine loses  *)
(* its power.                                                                *)
(*                                                                         *)
(* A digest is the journal it was taken of.  Temporary files have names of   *)
(* their own and are never read, so one that a death leaves behind is        *)
(* nothing here.  The file system keeps the order of a directory's changes   *)
(* and, of the changes not synced, any first part.  The contents of a file   *)
(* that was not synced are what was written as long as the machine runs, and *)
(* whole or cut short after a power loss.                                     *)
(***************************************************************************)
EXTENDS Sequences, Naturals

CONSTANTS
    Rows,
    MaxRows,        \* bound: rows of a journal
    MaxLives        \* bound: Learner processes, one after the other

ASSUME FilesAssumption == MaxRows \in Nat /\ MaxLives \in Nat \ {0}

VARIABLES
    dir,            \* the directory as every process sees it, see Directory
    survivors,      \* the states of it whose names a power loss may leave
    synced,         \* the journals whose snapshot file was synced, or read after a power loss
    journal,        \* the rows of the running Learner
    pc, target, saving, \* save_checkpoint: where, which file, of which journal
    up, lives,
    returned,       \* history: journal of the last training save that returned
    doubted         \* history: snapshots that a save kept although none had synced them

saveVars == <<pc, target, saving>>
processVars == <<up, lives>>
diskVars == <<dir, survivors, synced>>
historyVars == <<returned, doubted>>
vars == <<diskVars, journal, saveVars, processVars, historyVars>>

Journals == Seq(Rows)

\* whole, partial: the journals whose snapshot file is complete, cut short;
\* training, archive: the journal the checkpoint file refers to.
Directory ==
    [whole : SUBSET Journals, partial : SUBSET Journals,
     training : [ref : Journals, exists : BOOLEAN],
     archive : [ref : Journals, exists : BOOLEAN]]

NoFile == [ref |-> <<>>, exists |-> FALSE]
Empty == [whole |-> {}, partial |-> {}, training |-> NoFile, archive |-> NoFile]

\* The first Learner starts from a seed that lies elsewhere.
Init ==
    /\ dir = Empty /\ survivors = {Empty} /\ synced = {} /\ journal = <<>>
    /\ pc = "idle" /\ target = "training" /\ saving = <<>>
    /\ up = TRUE /\ lives = 1 /\ returned = <<>> /\ doubted = {}

\* A change of the directory, not synced yet.
Changes(new) == dir' = new /\ survivors' = survivors \cup {new} /\ UNCHANGED synced

Goto(place) == pc' = place /\ UNCHANGED <<target, saving>>

\* save_checkpoint is over, its local variables with it.
Leaves == pc' = "idle" /\ target' = "training" /\ saving' = <<>>

------------------------------------------------------------------------------
(* The Learner process.                                                      *)

Ingest(row) ==
    /\ up /\ pc = "idle" /\ Len(journal) < MaxRows
    /\ journal' = Append(journal, row)
    /\ UNCHANGED <<diskVars, saveVars, processVars, historyVars>>

\* save_checkpoint takes the descriptor; _update_lock keeps the journal as it is.
BeginSave(file) ==
    /\ up /\ pc = "idle"
    /\ pc' = "snapshot" /\ target' = file /\ saving' = journal
    /\ UNCHANGED <<diskVars, journal, processVars, historyVars>>

\* The file exists and reads with the right digest: nothing is written, nor synced.
SnapshotKept ==
    /\ up /\ pc = "snapshot" /\ saving \in dir.whole
    /\ Goto("temporary")
    /\ doubted' = doubted \cup ({saving} \ synced)
    /\ UNCHANGED <<diskVars, journal, processVars, returned>>

\* Left cut short by an earlier save: integrity mismatch, until the journal grows.
SnapshotMismatch ==
    /\ up /\ pc = "snapshot" /\ saving \in dir.partial
    /\ Leaves
    /\ UNCHANGED <<diskVars, journal, processVars, historyVars>>

\* Mutant: the file is opened for writing, whether it exists or not.
RewritesSnapshot ==
    /\ up /\ pc = "snapshot"
    /\ Changes([dir EXCEPT !.partial = @ \cup {saving}, !.whole = @ \ {saving}])
    /\ Goto("copying")
    /\ UNCHANGED <<journal, processVars, historyVars>>

\* O_EXCL: a new file, not complete yet.
SnapshotCreated ==
    /\ up /\ pc = "snapshot" /\ saving \notin dir.whole \cup dir.partial
    /\ Changes([dir EXCEPT !.partial = @ \cup {saving}])
    /\ Goto("copying")
    /\ UNCHANGED <<journal, processVars, historyVars>>

Complete(d) ==
    IF saving \in d.partial
    THEN [d EXCEPT !.partial = @ \ {saving}, !.whole = @ \cup {saving}] ELSE d

\* Copied and flushed: whole for every reader, wherever the name is.
SnapshotWritten ==
    /\ up /\ pc = "copying"
    /\ dir' = Complete(dir)
    /\ survivors' = {Complete(d) : d \in survivors}
    /\ Goto("fsync")
    /\ UNCHANGED <<synced, journal, processVars, historyVars>>

\* Mutant: the snapshot is not synced.
SkipsSnapshotSync ==
    /\ up /\ pc = "fsync" /\ Goto("temporary")
    /\ UNCHANGED <<diskVars, journal, processVars, historyVars>>

\* os.fsync: from here on a power loss leaves it whole.
SnapshotSynced ==
    /\ up /\ pc = "fsync" /\ Goto("temporary")
    /\ synced' = synced \cup {saving}
    /\ UNCHANGED <<dir, survivors, journal, processVars, historyVars>>

\* mkstemp, torch.save, fsync.
TemporaryWritten ==
    /\ up /\ pc = "temporary" /\ Goto("replace")
    /\ UNCHANGED <<diskVars, journal, processVars, historyVars>>

\* os.replace.
Replace ==
    /\ up /\ pc = "replace"
    /\ LET file == [ref |-> saving, exists |-> TRUE] IN
       Changes(IF target = "training" THEN [dir EXCEPT !.training = file]
                                      ELSE [dir EXCEPT !.archive = file])
    /\ Goto("sync")
    /\ UNCHANGED <<journal, processVars, historyVars>>

Returns == returned' = IF target = "training" THEN saving ELSE returned

\* Mutant: the directory is not synced.
SkipsDirectorySync ==
    /\ up /\ pc = "sync" /\ Leaves /\ Returns
    /\ UNCHANGED <<diskVars, journal, processVars, doubted>>

\* fsync of the directory, and save_checkpoint returns.
DirectorySynced ==
    /\ up /\ pc = "sync" /\ Leaves /\ Returns
    /\ survivors' = {dir}
    /\ UNCHANGED <<dir, synced, journal, processVars, doubted>>

\* Any system call raises: the temporary file goes, a begun snapshot stays, cut short or,
\* when its sync raised, whole.
SaveRaises ==
    /\ up /\ pc # "idle" /\ Leaves
    /\ UNCHANGED <<diskVars, journal, processVars, historyVars>>

Save ==
    \/ \E file \in {"training", "archive"} : BeginSave(file)
    \/ SnapshotKept \/ SnapshotMismatch \/ SnapshotCreated \/ SnapshotWritten
    \/ SnapshotSynced \/ TemporaryWritten \/ Replace \/ DirectorySynced \/ SaveRaises

\* The process ends, at any point; its journal is a temporary file of its own.
Dies ==
    /\ up /\ up' = FALSE /\ journal' = <<>> /\ Leaves
    /\ UNCHANGED <<diskVars, lives, historyVars>>

\* What a power loss may make of a directory: snapshots not synced are cut short, or not.
AfterLoss(d, cut) == [d EXCEPT !.whole = @ \ cut, !.partial = @ \cup cut]

PowerLoss ==
    /\ \E d \in survivors : \E cut \in SUBSET (d.whole \ synced) : dir' = AfterLoss(d, cut)
    /\ survivors' = {dir'} /\ synced' = dir'.whole
    /\ doubted' = doubted \cap dir'.partial
    /\ up' = FALSE /\ journal' = <<>> /\ Leaves
    /\ UNCHANGED <<lives, returned>>

\* restore: the snapshot that the checkpoint file refers to is there and whole.
Found(d, file) == file.exists => file.ref \in d.whole

\* load_checkpoint: the training checkpoint if there is one, with its snapshot.
Restart ==
    /\ ~up /\ lives < MaxLives /\ Found(dir, dir.training)
    /\ up' = TRUE /\ lives' = lives + 1 /\ journal' = dir.training.ref
    /\ UNCHANGED <<diskVars, saveVars, historyVars>>

Next == (\E row \in Rows : Ingest(row)) \/ Save \/ Dies \/ PowerLoss \/ Restart

Spec == Init /\ [][Next]_vars

------------------------------------------------------------------------------
(* Properties.                                                               *)

\* Nothing but a power loss takes a checkpoint its snapshot, and of the snapshots only
\* one that a save found written and kept although no save had synced it
\* (provenance.py:106-116): no failed write, no death and no later save does, and no
\* checkpoint is written without its snapshot.
KeepsItsSnapshot(before, after) ==
    ~Found(dir', after) => \/ after = before /\ ~Found(dir, before)
                           \/ ~up' /\ after.ref \in doubted

OnlyDoubtedSnapshotsAreLost ==
    [][/\ KeepsItsSnapshot(dir.training, dir'.training)
       /\ KeepsItsSnapshot(dir.archive, dir'.archive)]_vars

Extends(long, short) ==
    Len(short) <= Len(long) /\ \A i \in 1..Len(short) : long[i] = short[i]

\* What a training save that returned has stored is never lost again: whatever
\* happens, the checkpoint holds that journal or a continuation of it
\* (real_learner.py:690-699).
ReturnedSaveSurvives == Extends(dir.training.ref, returned)

\* With its snapshots the checkpoint behaves as one journal that is replaced whole
\* (real_learner.py:672-697), unless a power loss meets a doubted snapshot.
StartsFrom(d) ==
    [kind |-> IF ~Found(d, d.training) THEN "lost"
              ELSE IF d.training.exists THEN "journal" ELSE "seed",
     rows |-> IF Found(d, d.training) THEN d.training.ref ELSE <<>>]

Store == INSTANCE CheckpointStore WITH
    stored <- StartsFrom(dir), candidates <- {StartsFrom(d) : d \in survivors}, doubtful <- doubted

ImplementsCheckpointStore == Store!Spec

==============================================================================
