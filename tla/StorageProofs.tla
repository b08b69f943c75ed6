--------------------------- MODULE StorageProofs ---------------------------
(***************************************************************************)
(* What is kept on disk, for any number of files, checkpoints, goals,      *)
(* memories, processes, crashes and edits: an undo keeps the user's work,  *)
(* a rollback restores the tree, a goal shown as verified rests on tests   *)
(* that passed, and a memory shown as verified is what its file says.      *)
(***************************************************************************)
EXTENDS FileEdits, GitCheckpoints, GoalLedger, ContextMemory, TLAPS

-----------------------------------------------------------------------------
(* The memories of code.  One that indexing made, and nobody corrected,     *)
(* says what the snapshot of its hash says at its anchor.                   *)
Honest(m) == m.anchor \in Anchors /\ m.text = m.hash[m.anchor]

Indexed(m) == m \in Memory /\ ~m.given /\ Honest(m)

MemoriesAreHonest ==
    /\ file \in [Sources -> Snapshots \union {GONE}]
    /\ \A m \in memories : m \in Memory /\ (~m.corrected /\ ~m.given => Honest(m))
    /\ \A i \in Indexers : indexing[i].at = "reading" =>
        \A p \in DOMAIN indexing[i].updated : \A m \in indexing[i].updated[p] : Indexed(m)
    /\ indexing = [i \in Indexers |-> indexing[i]]

LEMMA PreparedIsIndexed ==
    ASSUME NEW p \in Sources, NEW c \in Snapshots, NEW m \in Prepared(p, c)
    PROVE  Indexed(m)
<1>1. PICK a \in Anchors : m = [path |-> p, anchor |-> a, text |-> c[a], hash |-> c, corrected |-> FALSE, given |-> FALSE]
  BY DEF Prepared
<1>2. c[a] \in Texts
  BY DEF Snapshots
<1>3. QED
  BY <1>1, <1>2 DEF Indexed, Honest, Memory

(* Keeping an old memory, as the code does it, is making a new one.         *)
LEMMA KeptIsIndexed ==
    ASSUME NEW p \in Sources, NEW prepared, \A m \in prepared : Indexed(m), NEW k \in Kept(p, prepared)
    PROVE  Indexed(k)
<1>1. PICK o \in Of(p), n \in prepared : Reuses(o, n) /\ k = [n EXCEPT !.text = o.text]
  BY DEF Kept
<1>2. n \in Memory /\ o.text = n.text
  BY <1>1 DEF Reuses, Indexed
<1>3. k = n
  BY <1>1, <1>2 DEF Memory
<1>4. QED
  BY <1>3

LEMMA MemoriesInitially == MemoryInit => MemoriesAreHonest
  BY DEF MemoryInit, MemoriesAreHonest, Resting

LEMMA MemoryStepIsHonest == MemoriesAreHonest /\ [MemoryNext]_memoryVars => MemoriesAreHonest'
<1> SUFFICES ASSUME MemoriesAreHonest, [MemoryNext]_memoryVars PROVE MemoriesAreHonest'
  OBVIOUS
<1>1. ASSUME UNCHANGED <<file, memories, indexing>> PROVE MemoriesAreHonest'
  BY <1>1 DEF MemoriesAreHonest
<1>2. ASSUME NEW i \in Indexers, BeginIndex(i) \/ AbandonIndex(i) PROVE MemoriesAreHonest'
  BY <1>2 DEF BeginIndex, AbandonIndex, MemoriesAreHonest, Resting
<1>3. ASSUME NEW i \in Indexers, NEW p \in Sources, IndexFile(i, p) PROVE MemoriesAreHonest'
  <2> DEFINE before == indexing[i].updated
             after == [q \in DOMAIN before \union {p} |-> IF q = p THEN Prepared(p, file[p]) ELSE before[q]]
  <2>1. /\ indexing[i].at = "reading" /\ UNCHANGED <<file, memories>>
        /\ indexing' = [indexing EXCEPT ![i] =
              [at |-> "reading", todo |-> @.todo \ {p}, existing |-> @.existing,
               updated |-> IF file[p] = GONE \/ indexing[i].existing[p] = {file[p]} THEN before ELSE after]]
    BY <1>3 DEF IndexFile
  <2>2. \A j \in Indexers \ {i} : indexing'[j] = indexing[j]
    BY <2>1 DEF MemoriesAreHonest
  <2>3. indexing'[i].updated = before \/ (file[p] # GONE /\ indexing'[i].updated = after)
    BY <2>1 DEF MemoriesAreHonest
  <2>4. indexing' = [j \in Indexers |-> indexing'[j]]
    BY <2>1 DEF MemoriesAreHonest
  <2>5. \A q \in DOMAIN before : \A m \in before[q] : Indexed(m)
    BY <2>1 DEF MemoriesAreHonest
  <2>6. file[p] # GONE => \A m \in Prepared(p, file[p]) : Indexed(m)
    <3>1. file[p] # GONE => file[p] \in Snapshots
      BY DEF MemoriesAreHonest
    <3>2. QED
      BY <3>1, PreparedIsIndexed
  <2>7. \A q \in DOMAIN indexing'[i].updated : \A m \in indexing'[i].updated[q] : Indexed(m)
    BY <2>3, <2>5, <2>6
  <2>8. QED
    BY <2>1, <2>2, <2>4, <2>7 DEF MemoriesAreHonest
<1>4. ASSUME NEW i \in Indexers, CommitIndex(i) PROVE MemoriesAreHonest'
  <2> DEFINE updated == indexing[i].updated
  <2>0. memories' = Staying(updated) \union Coming(updated)
    BY <1>4 DEF CommitIndex
  <2>1. /\ indexing[i].at = "reading" /\ UNCHANGED file
        /\ indexing' = [indexing EXCEPT ![i] = Resting]
    BY <1>4 DEF CommitIndex
  <2>2. \A p \in DOMAIN updated : \A m \in updated[p] : Indexed(m)
    BY <2>1 DEF MemoriesAreHonest
  <2>3. ASSUME NEW m, m \in memories' PROVE m \in memories \/ Indexed(m)
    <3>1. CASE m \in Staying(updated)
      <4>1. PICK p \in Sources : m \in IF p \in DOMAIN updated THEN Kept(p, updated[p]) ELSE Of(p)
        BY <3>1 DEF Staying
      <4>2. CASE p \in DOMAIN updated
        BY <2>2, <4>1, <4>2, KeptIsIndexed
      <4>3. CASE p \notin DOMAIN updated
        BY <4>1, <4>3 DEF Of
      <4>4. QED
        BY <4>2, <4>3
    <3>2. CASE m \in Coming(updated)
      BY <2>2, <3>2 DEF Coming, Inserted
    <3>3. QED
      BY <2>0, <2>3, <3>1, <3>2
  <2>4. \A m \in memories' : m \in Memory /\ (~m.corrected /\ ~m.given => Honest(m))
    BY <2>3 DEF MemoriesAreHonest, Indexed
  <2>5. /\ indexing' = [j \in Indexers |-> indexing'[j]] /\ indexing'[i] = Resting
        /\ \A j \in Indexers \ {i} : indexing'[j] = indexing[j]
    BY <2>1 DEF MemoriesAreHonest
  <2>6. QED
    BY <2>1, <2>4, <2>5 DEF MemoriesAreHonest, Resting
<1>5. ASSUME NEW p \in Sources, NEW a \in Anchors, NEW text \in Texts, Ingest(p, a, text) PROVE MemoriesAreHonest'
  <2>1. file[p] \in Snapshots
    BY <1>5 DEF Ingest, MemoriesAreHonest
  <2> DEFINE k == [path |-> p, anchor |-> a, text |-> text, hash |-> file[p], corrected |-> FALSE, given |-> TRUE]
  <2>2. k \in Memory /\ k.given
    BY <2>1 DEF Memory
  <2>3. memories' = memories \union {k} /\ UNCHANGED <<file, indexing>>
    BY <1>5 DEF Ingest
  <2>4. QED
    BY <2>2, <2>3 DEF MemoriesAreHonest
<1>6. ASSUME NEW m \in memories, Forget(m) PROVE MemoriesAreHonest'
  BY <1>6 DEF Forget, MemoriesAreHonest
<1>7. ASSUME NEW m \in memories, NEW text \in Texts, Correct(m, text) PROVE MemoriesAreHonest'
  <2> DEFINE k == [m EXCEPT !.text = text, !.anchor = NOANCHOR, !.corrected = TRUE, !.given = FALSE]
  <2>1. m \in Memory
    BY DEF MemoriesAreHonest
  <2>2. k \in Memory /\ k.corrected
    BY <2>1 DEF Memory
  <2>3. memories' = (memories \ {m}) \union {k} /\ UNCHANGED <<file, indexing>>
    BY <1>7 DEF Correct
  <2>4. QED
    BY <2>2, <2>3 DEF MemoriesAreHonest
<1>8. ASSUME NEW p \in Sources, NEW c \in Snapshots \union {GONE}, EditSource(p, c) PROVE MemoriesAreHonest'
  BY <1>8 DEF EditSource, MemoriesAreHonest
<1>9. QED
  BY <1>1, <1>2, <1>3, <1>4, <1>5, <1>6, <1>7, <1>8 DEF MemoryNext, memoryVars

(* What search calls verified by its content is in its file at that moment, *)
(* however many processes index, correct, forget and edit around it.        *)
THEOREM VerifiedMemoriesAreTrue == MemorySpec => []VerifiedCodeIsTheSource
<1>1. MemoriesAreHonest => VerifiedCodeIsTheSource
  BY DEF MemoriesAreHonest, Honest, Fresh, VerifiedCodeIsTheSource
<1>2. QED
  BY <1>1, MemoriesInitially, MemoryStepIsHonest, PTL DEF MemorySpec
-----------------------------------------------------------------------------
(* Snapshots of files.  A version that the user wrote to a file in nobody's *)
(* hands is the one a restore must not take away.                           *)
Exposed(v) == v \in userEdits => v \in exposed

Unharmed(f, before, v) == v = before[f] \/ Exposed(v)

CallsAreApart ==
    /\ \A a \in Agents : call[a].at = "idle" => call[a] = NoCall
    /\ \A a \in Agents : call[a] # NoCall => call[a].snapshot \in DOMAIN snapshots /\ restore = NoRestore
    /\ \A a, b \in Agents : a # b /\ call[a].at = "writing" /\ call[b].at = "writing" =>
        Paths(call[a].snapshot) \intersect Paths(call[b].snapshot) = {}

(* A file in the hands of a call is as it was captured, or what was written *)
(* since was exposed; so is what a completed snapshot says was left.        *)
HeldFiles ==
    /\ \A a \in Agents : call[a].at = "writing" =>
        \A f \in Paths(call[a].snapshot) : Unharmed(f, snapshots[call[a].snapshot].before, disk[f])
    /\ \A k \in DOMAIN snapshots : snapshots[k].status # "captured" =>
        \A f \in Paths(k) : Unharmed(f, snapshots[k].before, snapshots[k].after[f])

RestoreIsChecked ==
    restore # NoRestore =>
        LET k == restore.snapshot
        IN  /\ k \in DOMAIN snapshots /\ snapshots[k].status # "captured"
            /\ restore.check \subseteq Paths(k) /\ restore.replace \subseteq Paths(k)
            /\ \A f \in Paths(k) \ restore.check : Unharmed(f, snapshots[k].before, disk[f])

FileIInv == FileTypeOK /\ CallsAreApart /\ HeldFiles /\ RestoreIsChecked /\ RestoreKeepsUserWork

LEMMA SomeFilesAre ==
    /\ \A x \in SomeFiles : DOMAIN x \subseteq Files /\ x \in [DOMAIN x -> Nat]
    /\ \A paths \in SUBSET Files : \A x \in [paths -> Nat] : x \in SomeFiles
  BY DEF SomeFiles

LEMMA SnapshotTypes ==
    ASSUME FileTypeOK, NEW k \in DOMAIN snapshots
    PROVE  /\ k \in 1..Len(snapshots) /\ Paths(k) \subseteq Files
           /\ snapshots[k].before \in [Paths(k) -> Nat] /\ snapshots[k].after \in [Paths(k) -> Nat]
<1> DEFINE shape == [status : {"captured", "completed", "restored"}, before : SomeFiles, after : SomeFiles]
<1>a. snapshots \in Seq(shape) /\ DOMAIN snapshots[k].after = Paths(k)
  BY DEF FileTypeOK
<1>b. DOMAIN snapshots = 1..Len(snapshots) /\ snapshots[k] \in shape
  <2> HIDE DEF shape
  <2>1. QED
    BY <1>a
<1>1. /\ DOMAIN snapshots = 1..Len(snapshots)
      /\ snapshots[k].before \in SomeFiles /\ snapshots[k].after \in SomeFiles
      /\ DOMAIN snapshots[k].after = Paths(k)
  BY <1>a, <1>b
<1>2. QED
  BY <1>1, SomeFilesAre DEF Paths

LEMMA FilesInitially == FileInit => FileIInv
<1> SUFFICES ASSUME FileInit PROVE FileIInv
  OBVIOUS
<1> USE FileAssumption DEF FileInit
<1>1. snapshots = <<>> /\ Len(snapshots) = 0 /\ DOMAIN snapshots = {}
  OBVIOUS
<1>2. FileTypeOK
  BY <1>1 DEF FileTypeOK, NoCall, NoRestore
<1>3. CallsAreApart /\ HeldFiles /\ RestoreIsChecked /\ RestoreKeepsUserWork
  BY <1>1 DEF CallsAreApart, HeldFiles, RestoreIsChecked, RestoreKeepsUserWork, NoCall
<1>4. QED
  BY <1>2, <1>3 DEF FileIInv

(* A step that leaves the snapshots alone and keeps the rest in order.      *)
LEMMA SnapshotsKept ==
    ASSUME FileIInv, UNCHANGED <<snapshots, userEdits, exposed>>, versions' \in Nat, versions <= versions'
    PROVE  /\ \A k : Paths(k)' = Paths(k)
           /\ \A v : Exposed(v)' = Exposed(v)
           /\ \A f, before, v : Unharmed(f, before, v)' = Unharmed(f, before, v)
           /\ \A k \in DOMAIN snapshots : snapshots[k].status # "captured" =>
                \A f \in Paths(k) : Unharmed(f, snapshots[k].before, snapshots[k].after[f])
           /\ \A k \in DOMAIN snapshots :
                /\ DOMAIN snapshots[k].after = Paths(k)
                /\ \A f \in Paths(k) : snapshots[k].before[f] <= versions' /\ snapshots[k].after[f] <= versions'
<1>1. /\ \A k : Paths(k)' = Paths(k)
      /\ \A v : Exposed(v)' = Exposed(v)
  BY DEF Paths, Exposed
<1>2. \A f, before, v : Unharmed(f, before, v)' = Unharmed(f, before, v)
  BY <1>1 DEF Unharmed
<1>3. \A k \in DOMAIN snapshots : \A f \in Paths(k) : snapshots[k].before[f] <= versions' /\ snapshots[k].after[f] <= versions'
  <2>1. ASSUME NEW k \in DOMAIN snapshots, NEW f \in Paths(k)
        PROVE  snapshots[k].before[f] <= versions' /\ snapshots[k].after[f] <= versions'
    <3>1. snapshots[k].before[f] <= versions /\ snapshots[k].after[f] <= versions /\ versions \in Nat
      BY DEF FileIInv, FileTypeOK
    <3>2. snapshots[k].before[f] \in Nat /\ snapshots[k].after[f] \in Nat
      BY SnapshotTypes DEF FileIInv
    <3>3. QED
      BY <3>1, <3>2
  <2>2. QED
    BY <2>1
<1>4. QED
  BY <1>1, <1>2, <1>3 DEF FileIInv, FileTypeOK, HeldFiles

(* Calls come and go, and no file is touched.                               *)
LEMMA CallsChange ==
    ASSUME FileIInv, NEW a \in Agents, call[a] # NoCall,
           \/ call' = [call EXCEPT ![a] = NoCall]
           \/ call' = [call EXCEPT ![a].at = "detached"],
           UNCHANGED <<disk, versions, snapshots, restore, userEdits, exposed, overwritten, kills>>
    PROVE  FileIInv'
<1>1. FileTypeOK /\ versions' \in Nat /\ versions <= versions'
  BY DEF FileIInv, FileTypeOK
<1>2. /\ call' \in [Agents -> [snapshot : 0..Len(snapshots), at : {"idle", "writing", "detached"}, left : SUBSET Files]]
      /\ \A b \in Agents \ {a} : call'[b] = call[b]
      /\ call'[a] = NoCall \/ (call'[a].at = "detached" /\ call'[a].snapshot = call[a].snapshot)
  <2>1. call \in [Agents -> [snapshot : 0..Len(snapshots), at : {"idle", "writing", "detached"}, left : SUBSET Files]]
    BY <1>1 DEF FileTypeOK
  <2>2. Len(snapshots) \in Nat
    BY <1>1 DEF FileTypeOK
  <2>3. CASE call' = [call EXCEPT ![a] = NoCall]
    BY <2>1, <2>2, <2>3 DEF NoCall
  <2>4. CASE call' = [call EXCEPT ![a].at = "detached"]
    BY <2>1, <2>4
  <2>5. QED
    BY <2>3, <2>4
<1>3. FileTypeOK'
  BY <1>1, <1>2, SnapshotsKept DEF FileTypeOK
<1>4. CallsAreApart'
  <2>1. \A b \in Agents : call'[b] # NoCall => call[b] # NoCall /\ call'[b].snapshot = call[b].snapshot
    BY <1>2
  <2>2. \A b \in Agents : call'[b].at = "idle" => call'[b] = NoCall
    BY <1>2 DEF FileIInv, CallsAreApart
  <2>3. \A b \in Agents : call'[b].at = "writing" => call'[b] = call[b]
    BY <1>2 DEF NoCall
  <2>4. \A b, c \in Agents : b # c /\ call'[b].at = "writing" /\ call'[c].at = "writing" =>
            Paths(call'[b].snapshot) \intersect Paths(call'[c].snapshot) = {}
    BY <2>3 DEF FileIInv, CallsAreApart
  <2>5. QED
    BY <2>1, <2>2, <2>4 DEF FileIInv, CallsAreApart, Paths
<1>5. HeldFiles'
  BY <1>1, <1>2, SnapshotsKept DEF FileIInv, HeldFiles, NoCall
<1>6. RestoreIsChecked' /\ RestoreKeepsUserWork'
  BY DEF FileIInv, RestoreIsChecked, RestoreKeepsUserWork, Paths, Unharmed, Exposed
<1>7. QED
  BY <1>3, <1>4, <1>5, <1>6 DEF FileIInv

(* A call writes, or writes back, its files: no restore runs meanwhile, and *)
(* the files of the other calls that are not cancelled are left alone, or   *)
(* get a version that no user wrote.                                        *)
LEMMA CallsWrite ==
    ASSUME FileIInv, NEW a \in Agents, call[a] # NoCall,
           call' \in [Agents -> [snapshot : 0..Len(snapshots), at : {"idle", "writing", "detached"}, left : SUBSET Files]],
           \A b \in Agents : call'[b].at = call[b].at /\ call'[b].snapshot = call[b].snapshot,
           \A b \in Agents \ {a} : call'[b] = call[b],
           UNCHANGED <<snapshots, restore, userEdits, exposed, overwritten, kills>>,
           versions' \in Nat, versions <= versions', disk' \in [Files -> 0..versions'],
           \A b \in Agents : call[b].at = "writing" => \A f \in Paths(call[b].snapshot) :
               disk'[f] \in {disk[f], snapshots[call[b].snapshot].before[f]} \/ disk'[f] \notin userEdits
    PROVE  FileIInv'
<1>1. FileTypeOK /\ restore = NoRestore
  BY DEF FileIInv, CallsAreApart
<1>2. FileTypeOK'
  <2>1. 1..versions \subseteq 1..versions' /\ 0..versions \subseteq 0..versions'
    BY <1>1 DEF FileTypeOK
  <2>2. QED
    BY <1>1, <2>1, SnapshotsKept DEF FileTypeOK
<1>3. CallsAreApart'
  <2>1. \A b \in Agents : call'[b] # NoCall => call[b] # NoCall \/ b = a
    OBVIOUS
  <2>2. \A b \in Agents : call'[b] # NoCall => call'[b].snapshot \in DOMAIN snapshots
    BY <2>1 DEF FileIInv, CallsAreApart
  <2>3. \A b \in Agents : call'[b].at = "idle" => call'[b] = NoCall
    BY DEF FileIInv, CallsAreApart
  <2>4. \A b, c \in Agents : b # c /\ call'[b].at = "writing" /\ call'[c].at = "writing" =>
            Paths(call'[b].snapshot) \intersect Paths(call'[c].snapshot) = {}
    BY DEF FileIInv, CallsAreApart, Paths
  <2>5. QED
    BY <1>1, <2>2, <2>3, <2>4 DEF CallsAreApart, Paths
<1>4. HeldFiles'
  <2>1. \A b \in Agents : call'[b].at = "writing" => \A f \in Paths(call'[b].snapshot) :
            Unharmed(f, snapshots[call'[b].snapshot].before, disk'[f])
    BY DEF FileIInv, HeldFiles, Unharmed, Exposed
  <2>2. QED
    BY <2>1, SnapshotsKept DEF HeldFiles
<1>5. RestoreIsChecked' /\ RestoreKeepsUserWork'
  BY <1>1 DEF FileIInv, RestoreIsChecked, RestoreKeepsUserWork
<1>6. QED
  BY <1>2, <1>3, <1>4, <1>5 DEF FileIInv

(* A restore moves on.                                                      *)
LEMMA RestoreMoves ==
    ASSUME FileIInv, UNCHANGED <<versions, snapshots, call, userEdits, exposed, kills>>,
           \A a \in Agents : call[a] = NoCall,
           restore' \in [snapshot : 0..Len(snapshots), check : SUBSET Files, replace : SUBSET Files],
           disk' \in [Files -> 0..versions], overwritten' \subseteq 0..versions,
           RestoreIsChecked', RestoreKeepsUserWork'
    PROVE  FileIInv'
<1>1. FileTypeOK' /\ CallsAreApart' /\ HeldFiles'
  BY SnapshotsKept DEF FileIInv, FileTypeOK, CallsAreApart, HeldFiles, NoCall
<1>2. QED
  BY <1>1 DEF FileIInv

LEMMA CaptureStep == ASSUME FileIInv, NEW a \in Agents, NEW paths \in SUBSET Files, Capture(a, paths) PROVE FileIInv'
<1> DEFINE kept == [f \in paths |-> disk[f]]
           n == Len(snapshots) + 1
           new == [status |-> "captured", before |-> kept, after |-> kept]
           shape == [status : {"captured", "completed", "restored"}, before : SomeFiles, after : SomeFiles]
<1>1. /\ call[a] = NoCall /\ restore = NoRestore /\ snapshots' = Append(snapshots, new)
      /\ call' = [call EXCEPT ![a] = [snapshot |-> n, at |-> "writing", left |-> paths]]
      /\ \A b \in Agents : call[b].at = "writing" => paths \intersect Paths(call[b].snapshot) = {}
      /\ UNCHANGED <<disk, versions, restore, userEdits, exposed, overwritten, kills>>
  BY DEF Capture
<1>2. FileTypeOK /\ Len(snapshots) \in Nat
  BY DEF FileIInv, FileTypeOK
<1>3. new \in shape /\ DOMAIN kept = paths /\ \A f \in paths : kept[f] \in 0..versions
  <2>1. kept \in [paths -> Nat] /\ \A f \in paths : kept[f] \in 0..versions
    BY <1>2 DEF FileTypeOK
  <2>2. QED
    BY <2>1, SomeFilesAre
<1>4. /\ snapshots \in Seq(shape) /\ snapshots' \in Seq(shape) /\ Len(snapshots') = n
      /\ DOMAIN snapshots' = 1..n /\ DOMAIN snapshots = 1..Len(snapshots)
      /\ snapshots'[n] = new /\ \A k \in DOMAIN snapshots : snapshots'[k] = snapshots[k]
  <2>1. snapshots \in Seq(shape)
    BY <1>2 DEF FileTypeOK
  <2> HIDE DEF shape, new
  <2>2. QED
    BY <1>1, <1>3, <2>1
<1>5. /\ \A k \in DOMAIN snapshots : k \in DOMAIN snapshots' /\ DOMAIN snapshots'[k].before = Paths(k)
      /\ DOMAIN snapshots'[n].before = paths
      /\ \A k \in DOMAIN snapshots' : k \in DOMAIN snapshots \/ k = n
  BY <1>2, <1>3, <1>4 DEF Paths
<1>6. /\ call' \in [Agents -> [snapshot : 0..n, at : {"idle", "writing", "detached"}, left : SUBSET Files]]
      /\ call'[a].snapshot = n /\ call'[a].at = "writing" /\ \A b \in Agents \ {a} : call'[b] = call[b]
  <2>1. call \in [Agents -> [snapshot : 0..Len(snapshots), at : {"idle", "writing", "detached"}, left : SUBSET Files]]
    BY <1>2 DEF FileTypeOK
  <2>2. 0..Len(snapshots) \subseteq 0..n /\ n \in 0..n
    BY <1>2
  <2> HIDE DEF n
  <2>3. call \in [Agents -> [snapshot : 0..n, at : {"idle", "writing", "detached"}, left : SUBSET Files]]
    BY <2>1, <2>2
  <2>4. QED
    BY <1>1, <2>2, <2>3
<1>7. FileTypeOK'
  <2>1. restore' \in [snapshot : 0..n, check : SUBSET Files, replace : SUBSET Files]
    BY <1>1, <1>2 DEF NoRestore
  <2>2. \A k \in DOMAIN snapshots' :
          /\ DOMAIN snapshots'[k].after = DOMAIN snapshots'[k].before
          /\ \A f \in DOMAIN snapshots'[k].before : snapshots'[k].before[f] <= versions /\ snapshots'[k].after[f] <= versions
    <3>1. \A k \in DOMAIN snapshots :
            /\ DOMAIN snapshots'[k].after = DOMAIN snapshots'[k].before
            /\ \A f \in DOMAIN snapshots'[k].before : snapshots'[k].before[f] <= versions /\ snapshots'[k].after[f] <= versions
      BY <1>2, <1>4, <1>5 DEF FileTypeOK, Paths
    <3>2. /\ DOMAIN snapshots'[n].after = DOMAIN snapshots'[n].before
          /\ \A f \in DOMAIN snapshots'[n].before : snapshots'[n].before[f] <= versions /\ snapshots'[n].after[f] <= versions
      BY <1>3, <1>4, <1>5
    <3>3. QED
      BY <1>5, <3>1, <3>2
  <2>3. snapshots' \in Seq([status : {"captured", "completed", "restored"}, before : SomeFiles, after : SomeFiles])
    BY <1>4
  <2>4. SomeFiles' = SomeFiles
    BY DEF SomeFiles
  <2>5. QED
    BY <1>1, <1>2, <1>4, <1>6, <2>1, <2>2, <2>3, <2>4 DEF FileTypeOK, Paths
<1>8. \A b \in Agents \ {a} : call[b] # NoCall => call[b].snapshot \in DOMAIN snapshots
  BY DEF FileIInv, CallsAreApart
<1>9. \A b \in Agents : call[b].at = "writing" => call[b] # NoCall
  BY DEF NoCall
<1>10. CallsAreApart'
  <2>1. \A b \in Agents : call'[b].at = "idle" => call'[b] = NoCall
    BY <1>6 DEF FileIInv, CallsAreApart
  <2>2. \A b \in Agents : call'[b] # NoCall => call'[b].snapshot \in DOMAIN snapshots' /\ restore' = NoRestore
    BY <1>1, <1>2, <1>4, <1>5, <1>6, <1>8
  <2>3. ASSUME NEW b \in Agents, NEW c \in Agents, b # c, call'[b].at = "writing", call'[c].at = "writing"
        PROVE  (Paths(call[b].snapshot) \intersect Paths(call[c].snapshot) = {} /\ b # a /\ c # a)
               \/ (b = a /\ paths \intersect Paths(call[c].snapshot) = {})
               \/ (c = a /\ paths \intersect Paths(call[b].snapshot) = {})
    BY <1>1, <1>6, <2>3 DEF FileIInv, CallsAreApart, Paths
  <2>4. \A b \in Agents \ {a} : call'[b].at = "writing" => DOMAIN snapshots'[call'[b].snapshot].before = Paths(call[b].snapshot)
    BY <1>5, <1>6, <1>8, <1>9
  <2>5. DOMAIN snapshots'[call'[a].snapshot].before = paths
    BY <1>5, <1>6
  <2>6. \A b, c \in Agents : b # c /\ call'[b].at = "writing" /\ call'[c].at = "writing" =>
            DOMAIN snapshots'[call'[b].snapshot].before \intersect DOMAIN snapshots'[call'[c].snapshot].before = {}
    BY <2>3, <2>4, <2>5
  <2>7. QED
    BY <2>1, <2>2, <2>6 DEF CallsAreApart, Paths
<1>11. HeldFiles'
  <2>1. ASSUME NEW b \in Agents, call'[b].at = "writing", NEW f \in DOMAIN snapshots'[call'[b].snapshot].before
        PROVE  Unharmed(f, snapshots'[call'[b].snapshot].before, disk[f])
    <3>1. CASE b = a
      BY <1>3, <1>4, <1>5, <1>6, <2>1, <3>1 DEF Unharmed
    <3>2. CASE b # a
      <4>1. call'[b] = call[b] /\ call[b].snapshot \in DOMAIN snapshots /\ f \in Paths(call[b].snapshot)
        BY <1>5, <1>6, <1>8, <1>9, <2>1, <3>2
      <4>2. QED
        BY <1>4, <2>1, <4>1 DEF FileIInv, HeldFiles
    <3>3. QED
      BY <3>1, <3>2
  <2>2. ASSUME NEW k \in DOMAIN snapshots', snapshots'[k].status # "captured", NEW f \in DOMAIN snapshots'[k].before
        PROVE  Unharmed(f, snapshots'[k].before, snapshots'[k].after[f])
    BY <1>4, <1>5, <2>2 DEF FileIInv, HeldFiles
  <2>3. QED
    BY <1>1, <2>1, <2>2 DEF HeldFiles, Unharmed, Exposed, Paths
<1>12. RestoreIsChecked' /\ RestoreKeepsUserWork'
  BY <1>1 DEF FileIInv, RestoreIsChecked, RestoreKeepsUserWork
<1>13. QED
  BY <1>7, <1>10, <1>11, <1>12 DEF FileIInv

LEMMA CompleteStep == ASSUME FileIInv, NEW a \in Agents, Complete(a) PROVE FileIInv'
<1> DEFINE n == call[a].snapshot
           left == [f \in DOMAIN snapshots[n].after |-> disk[f]]
           new == [snapshots[n] EXCEPT !.status = "completed", !.after = left]
           shape == [status : {"captured", "completed", "restored"}, before : SomeFiles, after : SomeFiles]
<1>1. /\ call[a].at = "writing" /\ call' = [call EXCEPT ![a] = NoCall]
      /\ snapshots' = [snapshots EXCEPT ![n] = new]
      /\ UNCHANGED <<disk, versions, restore, userEdits, exposed, overwritten, kills>>
  BY DEF Complete
<1>2. FileTypeOK /\ call[a] # NoCall /\ n \in DOMAIN snapshots /\ restore = NoRestore
  BY <1>1 DEF FileIInv, CallsAreApart, NoCall
<1>3. /\ Paths(n) \subseteq Files /\ DOMAIN snapshots[n].after = Paths(n)
      /\ left \in [Paths(n) -> Nat] /\ \A f \in Paths(n) : left[f] = disk[f] /\ left[f] <= versions
  <2>1. Paths(n) \subseteq Files /\ DOMAIN snapshots[n].after = Paths(n)
    BY <1>2, SnapshotTypes DEF FileTypeOK
  <2>2. QED
    BY <1>2, <2>1 DEF FileTypeOK
<1>4. snapshots \in Seq(shape) /\ snapshots[n] \in shape
  <2>1. snapshots \in Seq(shape)
    BY <1>2 DEF FileTypeOK
  <2> HIDE DEF shape
  <2>2. QED
    BY <1>2, <2>1
<1>5. /\ new \in shape /\ new.status = "completed" /\ new.before = snapshots[n].before /\ new.after = left
  <2>1. left \in SomeFiles
    BY <1>3, SomeFilesAre
  <2> HIDE DEF left
  <2>2. QED
    BY <1>4, <2>1
<1>6. /\ snapshots' \in Seq(shape) /\ Len(snapshots') = Len(snapshots) /\ DOMAIN snapshots' = DOMAIN snapshots
      /\ snapshots'[n] = new /\ \A k \in DOMAIN snapshots \ {n} : snapshots'[k] = snapshots[k]
  <2> HIDE DEF shape, new, n
  <2>1. QED
    BY <1>1, <1>2, <1>4, <1>5
<1>7. \A k \in DOMAIN snapshots : snapshots'[k].before = snapshots[k].before
  BY <1>5, <1>6
<1>8. /\ call' \in [Agents -> [snapshot : 0..Len(snapshots), at : {"idle", "writing", "detached"}, left : SUBSET Files]]
      /\ call'[a] = NoCall /\ \A b \in Agents \ {a} : call'[b] = call[b]
  <2>1. call \in [Agents -> [snapshot : 0..Len(snapshots), at : {"idle", "writing", "detached"}, left : SUBSET Files]]
        /\ Len(snapshots) \in Nat
    BY <1>2 DEF FileTypeOK
  <2>2. QED
    BY <1>1, <2>1 DEF NoCall
<1>9. FileTypeOK'
  <2>1. SomeFiles' = SomeFiles
    BY DEF SomeFiles
  <2>2. \A k \in DOMAIN snapshots' :
          /\ DOMAIN snapshots'[k].after = DOMAIN snapshots'[k].before
          /\ \A f \in DOMAIN snapshots'[k].before : snapshots'[k].before[f] <= versions /\ snapshots'[k].after[f] <= versions
    <3>1. ASSUME NEW k \in DOMAIN snapshots
          PROVE  /\ DOMAIN snapshots'[k].after = DOMAIN snapshots'[k].before
                 /\ \A f \in DOMAIN snapshots'[k].before :
                        snapshots'[k].before[f] <= versions /\ snapshots'[k].after[f] <= versions
      <4>1. CASE k = n
        BY <1>2, <1>3, <1>5, <1>6, <4>1 DEF FileTypeOK, Paths
      <4>2. CASE k # n
        BY <1>2, <1>6, <4>2 DEF FileTypeOK, Paths
      <4>3. QED
        BY <4>1, <4>2
    <3>2. QED
      BY <1>6, <3>1
  <2>3. snapshots' \in Seq([status : {"captured", "completed", "restored"}, before : SomeFiles, after : SomeFiles])
    BY <1>6
  <2>4. Len(snapshots)' = Len(snapshots)
    BY <1>6
  <2>5. /\ \A k \in DOMAIN snapshots' :
            /\ DOMAIN snapshots'[k].after = Paths(k)'
            /\ \A f \in Paths(k)' : snapshots'[k].before[f] <= versions' /\ snapshots'[k].after[f] <= versions'
    BY <1>1, <2>2 DEF Paths
  <2> HIDE DEF left, new, shape, n
  <2>6. QED
    BY <1>1, <1>2, <1>8, <2>1, <2>3, <2>4, <2>5 DEF FileTypeOK
<1>10. CallsAreApart'
  <2>1. \A b \in Agents : call'[b].at = "idle" => call'[b] = NoCall
    BY <1>8 DEF FileIInv, CallsAreApart
  <2>2. \A b \in Agents : call'[b] # NoCall => call'[b].snapshot \in DOMAIN snapshots' /\ restore' = NoRestore
    BY <1>1, <1>2, <1>6, <1>8 DEF FileIInv, CallsAreApart
  <2>3. \A b \in Agents : call'[b].at = "writing" =>
            b # a /\ call'[b] = call[b] /\ call[b].snapshot \in DOMAIN snapshots
    BY <1>8 DEF FileIInv, CallsAreApart, NoCall
  <2>4. \A b, c \in Agents : b # c /\ call'[b].at = "writing" /\ call'[c].at = "writing" =>
            DOMAIN snapshots'[call'[b].snapshot].before \intersect DOMAIN snapshots'[call'[c].snapshot].before = {}
    BY <1>7, <2>3 DEF FileIInv, CallsAreApart, Paths
  <2>5. QED
    BY <2>1, <2>2, <2>4 DEF CallsAreApart, Paths
<1>11. HeldFiles'
  <2>1. ASSUME NEW b \in Agents, call'[b].at = "writing", NEW f \in DOMAIN snapshots'[call'[b].snapshot].before
        PROVE  Unharmed(f, snapshots'[call'[b].snapshot].before, disk[f])
    <3>1. call'[b] = call[b] /\ call[b].snapshot \in DOMAIN snapshots
      BY <1>8, <2>1 DEF FileIInv, CallsAreApart, NoCall
    <3>2. QED
      BY <1>7, <2>1, <3>1 DEF FileIInv, HeldFiles, Paths
  <2>2. ASSUME NEW k \in DOMAIN snapshots', snapshots'[k].status # "captured", NEW f \in DOMAIN snapshots'[k].before
        PROVE  Unharmed(f, snapshots'[k].before, snapshots'[k].after[f])
    <3>1. CASE k = n
      <4>1. f \in Paths(n) /\ snapshots'[k].before = snapshots[n].before /\ snapshots'[k].after[f] = disk[f]
        BY <1>3, <1>5, <1>6, <1>7, <2>2, <3>1 DEF Paths
      <4>2. QED
        BY <1>1, <4>1 DEF FileIInv, HeldFiles
    <3>2. CASE k # n
      BY <1>6, <2>2, <3>2 DEF FileIInv, HeldFiles, Paths
    <3>3. QED
      BY <3>1, <3>2
  <2>3. QED
    BY <1>1, <2>1, <2>2 DEF HeldFiles, Unharmed, Exposed, Paths
<1>12. RestoreIsChecked' /\ RestoreKeepsUserWork'
  BY <1>1, <1>2 DEF FileIInv, RestoreIsChecked, RestoreKeepsUserWork
<1>13. QED
  BY <1>9, <1>10, <1>11, <1>12 DEF FileIInv

LEMMA WriteStep ==
    ASSUME FileIInv, NEW a \in Agents, RollBackPatch(a) \/ \E f \in Files : WriteFile(a, f)
    PROVE  FileIInv'
<1>1. FileTypeOK
  BY DEF FileIInv
<1>2. /\ versions \in Nat /\ disk \in [Files -> 0..versions] /\ userEdits \subseteq 1..versions
      /\ call \in [Agents -> [snapshot : 0..Len(snapshots), at : {"idle", "writing", "detached"}, left : SUBSET Files]]
  BY <1>1 DEF FileTypeOK
<1>3. ASSUME NEW f \in Files, WriteFile(a, f) PROVE FileIInv'
  <2>1. /\ call[a] # NoCall /\ call' = [call EXCEPT ![a].left = @ \ {f}]
        /\ disk' = [disk EXCEPT ![f] = versions + 1] /\ versions' = versions + 1
        /\ UNCHANGED <<snapshots, restore, userEdits, exposed, overwritten, kills>>
    BY <1>3 DEF WriteFile, NoCall
  <2>2. disk' \in [Files -> 0..versions'] /\ \A g \in Files : disk'[g] = disk[g] \/ disk'[g] \notin userEdits
    BY <1>2, <2>1
  <2>3. /\ call' \in [Agents -> [snapshot : 0..Len(snapshots), at : {"idle", "writing", "detached"}, left : SUBSET Files]]
        /\ \A b \in Agents : call'[b].at = call[b].at /\ call'[b].snapshot = call[b].snapshot
        /\ \A b \in Agents \ {a} : call'[b] = call[b]
    BY <1>2, <2>1
  <2>4. \A b \in Agents : call[b].at = "writing" => Paths(call[b].snapshot) \subseteq Files
    BY <1>1, SnapshotTypes DEF FileIInv, CallsAreApart, NoCall
  <2>5. versions' \in Nat /\ versions <= versions'
    BY <1>2, <2>1
  <2>6. \A b \in Agents : call[b].at = "writing" => \A g \in Paths(call[b].snapshot) :
            disk'[g] \in {disk[g], snapshots[call[b].snapshot].before[g]} \/ disk'[g] \notin userEdits
    BY <2>2, <2>4
  <2>7. QED
    BY <2>1, <2>2, <2>3, <2>5, <2>6, CallsWrite
<1>4. CASE RollBackPatch(a)
  <2> DEFINE n == call[a].snapshot
  <2>1. /\ call[a].at = "writing" /\ call' = [call EXCEPT ![a].left = {}]
        /\ disk' = [f \in Files |-> IF f \in Paths(n) THEN snapshots[n].before[f] ELSE disk[f]]
        /\ UNCHANGED <<versions, snapshots, restore, userEdits, exposed, overwritten, kills>>
    BY <1>4 DEF RollBackPatch
  <2>2. call[a] # NoCall /\ n \in DOMAIN snapshots
    BY <2>1 DEF FileIInv, CallsAreApart, NoCall
  <2>3. \A f \in Paths(n) : snapshots[n].before[f] \in 0..versions
    BY <1>1, <1>2, <2>2, SnapshotTypes DEF FileTypeOK
  <2>4. disk' \in [Files -> 0..versions]
    BY <1>2, <2>1, <2>3
  <2>5. /\ call' \in [Agents -> [snapshot : 0..Len(snapshots), at : {"idle", "writing", "detached"}, left : SUBSET Files]]
        /\ \A b \in Agents : call'[b].at = call[b].at /\ call'[b].snapshot = call[b].snapshot
        /\ \A b \in Agents \ {a} : call'[b] = call[b]
    BY <1>2, <2>1
  <2>6. ASSUME NEW b \in Agents, call[b].at = "writing", NEW f \in Paths(call[b].snapshot)
        PROVE  disk'[f] \in {disk[f], snapshots[call[b].snapshot].before[f]}
    <3>1. f \in Files
      BY <1>1, <2>6, SnapshotTypes DEF FileIInv, CallsAreApart, NoCall
    <3>2. CASE b = a
      BY <2>1, <2>6, <3>1, <3>2
    <3>3. CASE b # a
      <4>1. f \notin Paths(n)
        BY <2>1, <2>6, <3>3 DEF FileIInv, CallsAreApart
      <4>2. QED
        BY <2>1, <3>1, <4>1
    <3>4. QED
      BY <3>2, <3>3
  <2>7. versions' \in Nat /\ versions <= versions'
    BY <1>2, <2>1
  <2>8. QED
    BY <2>1, <2>2, <2>4, <2>5, <2>6, <2>7, CallsWrite
<1>5. QED
  BY <1>3, <1>4

LEMMA UserEditStep == ASSUME FileIInv, NEW f \in Files, UserEdit(f) PROVE FileIInv'
<1> DEFINE v == versions + 1
           Known(x) == x \in userEdits' => x \in exposed'
           Fine(g, before, x) == x = before[g] \/ Known(x)
<1>1. /\ disk' = [disk EXCEPT ![f] = v] /\ versions' = v /\ userEdits' = userEdits \union {v}
      /\ exposed' = IF InHand(f) THEN exposed \union {v} ELSE exposed
      /\ UNCHANGED <<snapshots, call, restore, overwritten, kills>>
  BY DEF UserEdit
<1>2. FileTypeOK /\ versions \in Nat /\ userEdits \subseteq 1..versions /\ exposed \subseteq userEdits
  BY DEF FileIInv, FileTypeOK
<1>3. \A x \in Nat : x <= versions => (Exposed(x) => Known(x))
  BY <1>1, <1>2 DEF Exposed
<1>4. \A g \in Files : disk[g] \in Nat /\ disk[g] <= versions
  BY <1>2 DEF FileTypeOK
<1>5. InHand(f) => Known(v)
  BY <1>1
<1>6. disk'[f] = v /\ \A g \in Files \ {f} : disk'[g] = disk[g]
  BY <1>1, <1>2 DEF FileTypeOK
<1>7. ASSUME NEW k \in DOMAIN snapshots, NEW g \in Paths(k), Unharmed(g, snapshots[k].before, disk[g]), g = f => InHand(f)
      PROVE  Fine(g, snapshots[k].before, disk'[g])
  <2>1. g \in Files
    BY <1>2, SnapshotTypes
  <2>2. CASE g = f
    BY <1>5, <1>6, <1>7, <2>2
  <2>3. CASE g # f
    <3>1. disk'[g] = disk[g] /\ (Exposed(disk[g]) => Known(disk[g]))
      BY <1>3, <1>4, <1>6, <2>1, <2>3
    <3>2. QED
      BY <1>7, <3>1 DEF Unharmed
  <2>4. QED
    BY <2>2, <2>3
<1>8. FileTypeOK'
  <2>1. 1..versions \subseteq 1..v /\ 0..versions \subseteq 0..v /\ v \in Nat /\ v \in 1..v /\ versions <= v
    BY <1>2
  <2>2. \A k \in DOMAIN snapshots : \A g \in Paths(k) : snapshots[k].before[g] <= v /\ snapshots[k].after[g] <= v
    <3>1. ASSUME NEW k \in DOMAIN snapshots, NEW g \in Paths(k) PROVE snapshots[k].before[g] <= v /\ snapshots[k].after[g] <= v
      <4>1. snapshots[k].before[g] \in Nat /\ snapshots[k].after[g] \in Nat
        BY <1>2, SnapshotTypes
      <4>2. snapshots[k].before[g] <= versions /\ snapshots[k].after[g] <= versions
        BY <1>2 DEF FileTypeOK
      <4>3. QED
        BY <1>2, <4>1, <4>2
    <3>2. QED
      BY <3>1
  <2>3. disk' \in [Files -> 0..v]
    BY <1>1, <1>2, <2>1 DEF FileTypeOK
  <2>4. exposed' \subseteq userEdits' /\ userEdits' \subseteq 1..v
    BY <1>1, <1>2, <2>1
  <2>5. SomeFiles' = SomeFiles
    BY DEF SomeFiles
  <2> HIDE DEF v
  <2>6. QED
    BY <1>1, <1>2, <2>1, <2>2, <2>3, <2>4, <2>5 DEF FileTypeOK, Paths
<1>9. CallsAreApart'
  BY <1>1 DEF FileIInv, CallsAreApart, Paths
<1>10. HeldFiles'
  <2>1. ASSUME NEW a \in Agents, call[a].at = "writing", NEW g \in Paths(call[a].snapshot)
        PROVE  Fine(g, snapshots[call[a].snapshot].before, disk'[g])
    <3>1. call[a] # NoCall /\ call[a].snapshot \in DOMAIN snapshots
      BY <2>1 DEF FileIInv, CallsAreApart, NoCall
    <3>2. g = f => InHand(f)
      BY <2>1, <3>1 DEF InHand
    <3>3. Unharmed(g, snapshots[call[a].snapshot].before, disk[g])
      BY <2>1 DEF FileIInv, HeldFiles
    <3>4. QED
      BY <1>7, <2>1, <3>1, <3>2, <3>3
  <2>2. ASSUME NEW k \in DOMAIN snapshots, snapshots[k].status # "captured", NEW g \in Paths(k)
        PROVE  Fine(g, snapshots[k].before, snapshots[k].after[g])
    <3>1. snapshots[k].after[g] \in Nat /\ snapshots[k].after[g] <= versions
      BY <1>2, SnapshotTypes DEF FileTypeOK
    <3>2. Unharmed(g, snapshots[k].before, snapshots[k].after[g])
      BY <2>2 DEF FileIInv, HeldFiles
    <3>3. QED
      BY <1>3, <3>1, <3>2 DEF Unharmed
  <2>3. QED
    BY <1>1, <2>1, <2>2 DEF HeldFiles, Unharmed, Exposed, Paths
<1>11. RestoreIsChecked'
  <2> DEFINE k == restore.snapshot
  <2>1. ASSUME restore # NoRestore, NEW g \in Paths(k) \ restore.check
        PROVE  Fine(g, snapshots[k].before, disk'[g])
    <3>1. k \in DOMAIN snapshots /\ Unharmed(g, snapshots[k].before, disk[g])
      BY <2>1 DEF FileIInv, RestoreIsChecked
    <3>2. g = f => InHand(f)
      BY <2>1 DEF InHand
    <3>3. QED
      BY <1>7, <2>1, <3>1, <3>2
  <2>2. QED
    BY <1>1, <2>1 DEF FileIInv, RestoreIsChecked, Unharmed, Exposed, Paths
<1>12. RestoreKeepsUserWork'
  <2>1. overwritten \subseteq 0..versions /\ v \notin 0..versions
    BY <1>2 DEF FileTypeOK
  <2>2. QED
    BY <1>1, <2>1 DEF FileIInv, RestoreKeepsUserWork
<1>13. QED
  BY <1>8, <1>9, <1>10, <1>11, <1>12 DEF FileIInv

LEMMA StartRestoreStep == ASSUME FileIInv, NEW k \in DOMAIN snapshots, StartRestore(k) PROVE FileIInv'
<1>1. /\ restore = NoRestore /\ (\A a \in Agents : call[a] = NoCall) /\ snapshots[k].status = "completed"
      /\ restore' = [snapshot |-> k, check |-> Paths(k), replace |-> Paths(k)]
      /\ UNCHANGED <<disk, versions, snapshots, call, userEdits, exposed, overwritten, kills>>
  BY DEF StartRestore
<1>2. FileTypeOK /\ k \in 1..Len(snapshots) /\ Paths(k) \subseteq Files
  BY SnapshotTypes DEF FileIInv
<1>3. /\ restore' \in [snapshot : 0..Len(snapshots), check : SUBSET Files, replace : SUBSET Files]
      /\ disk' \in [Files -> 0..versions] /\ overwritten' \subseteq 0..versions
  <2>1. Len(snapshots) \in Nat
    BY <1>2 DEF FileTypeOK
  <2>2. QED
    BY <1>1, <1>2, <2>1 DEF FileTypeOK
<1>4. RestoreIsChecked'
  BY <1>1 DEF RestoreIsChecked, Paths
<1>5. RestoreKeepsUserWork'
  BY <1>1 DEF FileIInv, RestoreKeepsUserWork
<1>6. QED
  BY <1>1, <1>3, <1>4, <1>5, RestoreMoves

(* While a restore runs no call does, and its snapshot is a complete one.   *)
LEMMA RestoreRuns ==
    ASSUME FileIInv, restore # NoRestore
    PROVE  /\ \A a \in Agents : call[a] = NoCall
           /\ restore.snapshot \in DOMAIN snapshots /\ snapshots[restore.snapshot].status # "captured"
           /\ Paths(restore.snapshot) \subseteq Files
           /\ restore.check \subseteq Paths(restore.snapshot) /\ restore.replace \subseteq Paths(restore.snapshot)
           /\ \A f \in Paths(restore.snapshot) \ restore.check :
                Unharmed(f, snapshots[restore.snapshot].before, disk[f])
           /\ restore \in [snapshot : 0..Len(snapshots), check : SUBSET Files, replace : SUBSET Files]
           /\ disk \in [Files -> 0..versions] /\ overwritten \subseteq 0..versions
<1>1. FileTypeOK
  BY DEF FileIInv
<1>2. restore.snapshot \in DOMAIN snapshots
  BY DEF FileIInv, RestoreIsChecked
<1>3. Paths(restore.snapshot) \subseteq Files
  BY <1>1, <1>2, SnapshotTypes
<1>4. QED
  BY <1>1, <1>2, <1>3 DEF FileIInv, CallsAreApart, RestoreIsChecked, FileTypeOK

LEMMA CheckFileStep == ASSUME FileIInv, NEW f \in Files, CheckFile(f) PROVE FileIInv'
<1> DEFINE k == restore.snapshot
<1>1. /\ f \in restore.check
      /\ restore' = IF disk[f] = snapshots[k].after[f] THEN [restore EXCEPT !.check = @ \ {f}] ELSE NoRestore
      /\ UNCHANGED <<disk, versions, snapshots, call, userEdits, exposed, overwritten, kills>>
  BY DEF CheckFile
<1>2. restore # NoRestore
  BY <1>1 DEF NoRestore
<1>3. restore' = NoRestore \/ (/\ restore'.snapshot = k /\ restore'.check = restore.check \ {f}
                               /\ restore'.replace = restore.replace /\ disk[f] = snapshots[k].after[f])
  BY <1>1, <1>2, RestoreRuns
<1>4. restore' \in [snapshot : 0..Len(snapshots), check : SUBSET Files, replace : SUBSET Files]
  <2>1. Len(snapshots) \in Nat
    BY DEF FileIInv, FileTypeOK
  <2>2. QED
    BY <1>1, <1>2, <2>1, RestoreRuns DEF NoRestore
<1>5. RestoreIsChecked'
  <2>1. CASE restore' = NoRestore
    BY <2>1 DEF RestoreIsChecked, NoRestore
  <2>2. CASE restore' # NoRestore
    <3>1. ASSUME NEW g \in Paths(k) \ restore'.check PROVE Unharmed(g, snapshots[k].before, disk[g])
      <4>1. CASE g = f
        <5>1. Unharmed(f, snapshots[k].before, snapshots[k].after[f])
          BY <1>2, <3>1, <4>1, RestoreRuns DEF FileIInv, HeldFiles
        <5>2. QED
          BY <1>3, <2>2, <4>1, <5>1
      <4>2. CASE g # f
        BY <1>2, <1>3, <2>2, <3>1, <4>2, RestoreRuns
      <4>3. QED
        BY <4>1, <4>2
    <3>2. /\ k \in DOMAIN snapshots /\ snapshots[k].status # "captured"
          /\ restore'.check \subseteq Paths(k) /\ restore'.replace \subseteq Paths(k)
      BY <1>2, <1>3, <2>2, RestoreRuns
    <3>3. QED
      BY <1>1, <1>3, <2>2, <3>1, <3>2 DEF RestoreIsChecked, Unharmed, Exposed, Paths
  <2>3. QED
    BY <2>1, <2>2
<1>6. RestoreKeepsUserWork'
  BY <1>1 DEF FileIInv, RestoreKeepsUserWork
<1>7. QED
  BY <1>1, <1>2, <1>4, <1>5, <1>6, RestoreRuns, RestoreMoves

(* What a restore takes away is what the call left, or what was written     *)
(* while the file was in hand.                                              *)
LEMMA ReplaceFileStep == ASSUME FileIInv, NEW f \in Files, ReplaceFile(f) PROVE FileIInv'
<1> DEFINE k == restore.snapshot
<1>1. /\ restore.check = {} /\ f \in restore.replace
      /\ disk' = [disk EXCEPT ![f] = snapshots[k].before[f]]
      /\ overwritten' = overwritten \union ({disk[f]} \ {disk'[f]})
      /\ restore' = [restore EXCEPT !.replace = @ \ {f}]
      /\ UNCHANGED <<versions, snapshots, call, userEdits, exposed, kills>>
  BY DEF ReplaceFile
<1>2. restore # NoRestore
  BY <1>1 DEF NoRestore
<1>3. f \in Paths(k) /\ snapshots[k].before[f] \in 0..versions /\ Unharmed(f, snapshots[k].before, disk[f])
  <2>1. f \in Paths(k) /\ k \in DOMAIN snapshots /\ Unharmed(f, snapshots[k].before, disk[f])
    BY <1>1, <1>2, RestoreRuns
  <2>2. FileTypeOK
    BY DEF FileIInv
  <2>3. snapshots[k].before[f] \in Nat
    BY <2>1, <2>2, SnapshotTypes
  <2>4. QED
    BY <2>1, <2>2, <2>3 DEF FileTypeOK
<1>4. /\ disk' \in [Files -> 0..versions] /\ disk'[f] = snapshots[k].before[f]
      /\ \A g \in Files \ {f} : disk'[g] = disk[g]
  BY <1>1, <1>2, <1>3, RestoreRuns
<1>5. /\ restore' \in [snapshot : 0..Len(snapshots), check : SUBSET Files, replace : SUBSET Files]
      /\ restore'.snapshot = k /\ restore'.check = {} /\ restore'.replace = restore.replace \ {f}
  BY <1>1, <1>2, RestoreRuns
<1>6. overwritten' \subseteq 0..versions
  BY <1>1, <1>2, RestoreRuns
<1>7. RestoreIsChecked'
  <2>1. \A g \in Paths(k) : Unharmed(g, snapshots[k].before, disk'[g])
    <3>1. ASSUME NEW g \in Paths(k) PROVE Unharmed(g, snapshots[k].before, disk'[g])
      <4>1. CASE g = f
        BY <1>4, <4>1 DEF Unharmed
      <4>2. CASE g # f
        BY <1>1, <1>2, <1>4, <4>2, RestoreRuns
      <4>3. QED
        BY <4>1, <4>2
    <3>2. QED
      BY <3>1
  <2>2. QED
    BY <1>1, <1>2, <1>5, <2>1, RestoreRuns DEF RestoreIsChecked, Unharmed, Exposed, Paths
<1>8. RestoreKeepsUserWork'
  BY <1>1, <1>3, <1>4 DEF FileIInv, RestoreKeepsUserWork, Unharmed, Exposed
<1>9. QED
  BY <1>1, <1>2, <1>4, <1>5, <1>6, <1>7, <1>8, RestoreRuns, RestoreMoves

LEMMA EndRestoreStep == ASSUME FileIInv, EndRestore PROVE FileIInv'
<1> DEFINE n == restore.snapshot
           new == [snapshots[n] EXCEPT !.status = "restored"]
           shape == [status : {"captured", "completed", "restored"}, before : SomeFiles, after : SomeFiles]
<1>1. /\ restore # NoRestore /\ restore' = NoRestore
      /\ UNCHANGED <<disk, versions, call, userEdits, exposed, overwritten, kills>>
  BY DEF EndRestore
<1>2. snapshots' = [snapshots EXCEPT ![n] = new]
  BY DEF EndRestore
<1>3. FileTypeOK /\ n \in DOMAIN snapshots /\ snapshots[n].status # "captured"
  BY <1>1, RestoreRuns DEF FileIInv
<1>4. snapshots \in Seq(shape) /\ snapshots[n] \in shape
  <2>1. snapshots \in Seq(shape)
    BY <1>3 DEF FileTypeOK
  <2> HIDE DEF shape
  <2>2. QED
    BY <1>3, <2>1
<1>5. new \in shape /\ new.before = snapshots[n].before /\ new.after = snapshots[n].after
  BY <1>4
<1>6. /\ snapshots' \in Seq(shape) /\ Len(snapshots') = Len(snapshots) /\ DOMAIN snapshots' = DOMAIN snapshots
      /\ snapshots'[n] = new /\ \A k \in DOMAIN snapshots \ {n} : snapshots'[k] = snapshots[k]
  <2> HIDE DEF shape, new, n
  <2>1. QED
    BY <1>2, <1>3, <1>4, <1>5
<1>7. \A k \in DOMAIN snapshots :
        /\ snapshots'[k].before = snapshots[k].before /\ snapshots'[k].after = snapshots[k].after
        /\ snapshots'[k].status # "captured" => snapshots[k].status # "captured"
  BY <1>3, <1>5, <1>6
<1>8. FileTypeOK'
  <2>1. SomeFiles' = SomeFiles
    BY DEF SomeFiles
  <2>2. \A k \in DOMAIN snapshots' :
          /\ DOMAIN snapshots'[k].after = Paths(k)'
          /\ \A f \in Paths(k)' : snapshots'[k].before[f] <= versions' /\ snapshots'[k].after[f] <= versions'
    BY <1>1, <1>3, <1>6, <1>7 DEF FileTypeOK, Paths
  <2>3. snapshots' \in Seq([status : {"captured", "completed", "restored"}, before : SomeFiles, after : SomeFiles])
    BY <1>6
  <2>4. restore' \in [snapshot : 0..Len(snapshots), check : SUBSET Files, replace : SUBSET Files]
    <3>1. Len(snapshots) \in Nat
      BY <1>3 DEF FileTypeOK
    <3>2. QED
      BY <1>1, <3>1 DEF NoRestore
  <2>5. Len(snapshots)' = Len(snapshots)
    BY <1>6
  <2> HIDE DEF new, shape, n
  <2>6. QED
    BY <1>1, <1>3, <2>1, <2>2, <2>3, <2>4, <2>5 DEF FileTypeOK
<1>9. CallsAreApart' /\ HeldFiles'
  <2>1. \A a \in Agents : call[a] = NoCall
    BY <1>1, RestoreRuns
  <2>2. \A k \in DOMAIN snapshots' : snapshots'[k].status # "captured" =>
          \A f \in DOMAIN snapshots'[k].before : Unharmed(f, snapshots'[k].before, snapshots'[k].after[f])
    BY <1>6, <1>7 DEF FileIInv, HeldFiles, Paths
  <2>3. QED
    BY <1>1, <2>1, <2>2 DEF CallsAreApart, HeldFiles, NoCall, Unharmed, Exposed, Paths
<1>10. RestoreIsChecked' /\ RestoreKeepsUserWork'
  BY <1>1 DEF FileIInv, RestoreIsChecked, RestoreKeepsUserWork
<1>11. QED
  BY <1>8, <1>9, <1>10 DEF FileIInv

LEMMA KillStep == ASSUME FileIInv, Kill PROVE FileIInv'
<1>1. /\ kills < MaxKills /\ kills' = kills + 1 /\ restore' = NoRestore
      /\ call' = [a \in Agents |-> NoCall]
      /\ UNCHANGED <<disk, versions, snapshots, userEdits, exposed, overwritten>>
  BY DEF Kill
<1>2. FileTypeOK /\ Len(snapshots) \in Nat /\ versions \in Nat
  BY DEF FileIInv, FileTypeOK
<1>3. /\ call' \in [Agents -> [snapshot : 0..Len(snapshots), at : {"idle", "writing", "detached"}, left : SUBSET Files]]
      /\ restore' \in [snapshot : 0..Len(snapshots), check : SUBSET Files, replace : SUBSET Files]
      /\ kills' \in 0..MaxKills
  BY <1>1, <1>2, FileAssumption DEF FileTypeOK, NoCall, NoRestore
<1>4. FileTypeOK'
  BY <1>1, <1>2, <1>3, SnapshotsKept DEF FileTypeOK
<1>5. CallsAreApart' /\ HeldFiles'
  BY <1>1, <1>2, SnapshotsKept DEF CallsAreApart, HeldFiles, NoCall
<1>6. RestoreIsChecked' /\ RestoreKeepsUserWork'
  BY <1>1 DEF FileIInv, RestoreIsChecked, RestoreKeepsUserWork
<1>7. QED
  BY <1>4, <1>5, <1>6 DEF FileIInv

LEMMA FileStep == FileIInv /\ [FileNext]_fileVars => FileIInv'
<1> SUFFICES ASSUME FileIInv, [FileNext]_fileVars PROVE FileIInv'
  OBVIOUS
<1>1. CASE UNCHANGED fileVars
  BY <1>1 DEF FileIInv, FileTypeOK, SomeFiles, CallsAreApart, HeldFiles, RestoreIsChecked,
              RestoreKeepsUserWork, Unharmed, Exposed, Paths, fileVars
<1>2. ASSUME NEW a \in Agents, NEW paths \in SUBSET Files, Capture(a, paths) PROVE FileIInv'
  BY <1>2, CaptureStep
<1>3. ASSUME NEW a \in Agents, RollBackPatch(a) \/ \E f \in Files : WriteFile(a, f) PROVE FileIInv'
  BY <1>3, WriteStep
<1>4. ASSUME NEW a \in Agents, Complete(a) PROVE FileIInv'
  BY <1>4, CompleteStep
<1>5. ASSUME NEW a \in Agents, CancelCall(a) \/ EndThread(a) PROVE FileIInv'
  <2>1. call[a] # NoCall
    BY <1>5 DEF CancelCall, EndThread, NoCall
  <2>2. QED
    BY <1>5, <2>1, CallsChange DEF CancelCall, EndThread
<1>6. ASSUME NEW f \in Files, UserEdit(f) \/ CheckFile(f) \/ ReplaceFile(f) PROVE FileIInv'
  BY <1>6, UserEditStep, CheckFileStep, ReplaceFileStep
<1>7. ASSUME NEW k \in DOMAIN snapshots, StartRestore(k) PROVE FileIInv'
  BY <1>7, StartRestoreStep
<1>8. CASE EndRestore \/ Kill
  BY <1>8, EndRestoreStep, KillStep
<1>9. QED
  BY <1>1, <1>2, <1>3, <1>4, <1>5, <1>6, <1>7, <1>8 DEF FileNext

(* The types of the snapshots, the calls and the restore hold throughout.   *)
THEOREM FilesAreTyped == FileSpec => []FileTypeOK
<1>1. FileInit => FileIInv
  BY FilesInitially
<1>2. FileIInv /\ [FileNext]_fileVars => FileIInv'
  BY FileStep
<1>3. FileIInv => FileTypeOK
  BY DEF FileIInv
<1>4. QED
  BY <1>1, <1>2, <1>3, PTL DEF FileSpec

(* A restore takes away no version that the user wrote while the file was   *)
(* in no tool's and no restore's hands, whatever the number of files,       *)
(* agents, snapshots, edits and kills, and however calls are cancelled      *)
(* (FileSnapshots.restore compares each file with what the call left).      *)
THEOREM UserWorkIsKept == FileSpec => []RestoreKeepsUserWork
<1>1. FileInit => FileIInv
  BY FilesInitially
<1>2. FileIInv /\ [FileNext]_fileVars => FileIInv'
  BY FileStep
<1>3. FileIInv => RestoreKeepsUserWork
  BY DEF FileIInv
<1>4. QED
  BY <1>1, <1>2, <1>3, PTL DEF FileSpec
-----------------------------------------------------------------------------
(* Git checkpoints.  What git tracks of file f when checkpoint s is taken:  *)
(* the patch says it where it differs from the commit.                      *)
Now(s, f) == IF f \in DOMAIN s.patch THEN s.patch[f] ELSE s.head[f]

(* A checkpoint says all of the tree it is the checkpoint of.               *)
IsComplete(s) ==
    /\ s.rules \subseteq everIgnored
    /\ \A f \in DOMAIN s.was \ Quoted :
        s.was[f] = IF f \in DOMAIN s.copies THEN s.copies[f] ELSE Now(s, f)

CheckpointsAreComplete == \A k \in DOMAIN saved : IsComplete(saved[k])

(* What the commands of a rollback to s have achieved when the next is due. *)
HeadIsBack(s) == head = s.head /\ staged = s.head
TrackedIsBack == \A f \in WorkFiles : head[f] # ABSENT => tree[f] = head[f]
OnlyHiddenAreLeft == \A f \in WorkFiles : head[f] = ABSENT => tree[f] = ABSENT \/ f \in everIgnored
PatchIsApplied(s) == \A f \in WorkFiles \ DOMAIN s.copies :
    tree[f] = Now(s, f) \/ (f \in everIgnored /\ Now(s, f) = ABSENT)
CopiesAreBack(s) == copies \subseteq DOMAIN s.copies /\ \A f \in DOMAIN s.copies \ copies : tree[f] = s.copies[f]

RollbackIsUnderWay ==
    /\ rollback.of = 0 <=> rollback.next = "none"
    /\ rollback # Idle =>
        LET s == saved[rollback.of]
        IN  /\ restored = 0
            /\ rollback.next \in {"clean", "apply", "copy"} => HeadIsBack(s)
            /\ rollback.next \in {"clean", "apply"} => TrackedIsBack
            /\ rollback.next = "apply" => OnlyHiddenAreLeft
            /\ rollback.next = "copy" => PatchIsApplied(s) /\ CopiesAreBack(s)

GitIInv == GitTypeOK /\ CheckpointsAreComplete /\ RollbackIsUnderWay /\ RollbackRestoresTheTree

LEMMA SomeContentIs ==
    /\ \A x \in SomeContent : DOMAIN x \subseteq WorkFiles /\ x \in [DOMAIN x -> 0..MaxWrites]
    /\ \A files \in SUBSET WorkFiles : \A x \in [files -> 0..MaxWrites] : x \in SomeContent
  BY DEF SomeContent

LEMMA ContentUpdate ==
    ASSUME NEW c \in Content, NEW f \in WorkFiles, NEW x \in 0..MaxWrites
    PROVE  [c EXCEPT ![f] = x] \in Content
  BY DEF Content

LEMMA CheckpointTypes ==
    ASSUME GitTypeOK, NEW k \in DOMAIN saved
    PROVE  /\ k \in 1..Len(saved) /\ saved[k].head \in Content /\ saved[k].rules \subseteq WorkFiles
           /\ saved[k].patch \in SomeContent /\ saved[k].copies \in SomeContent /\ saved[k].was \in SomeContent
<1> DEFINE shape == [head : Content, patch : SomeContent, copies : SomeContent, rules : SUBSET WorkFiles, was : SomeContent]
<1>1. saved \in Seq(shape)
  BY DEF GitTypeOK
<1>2. k \in 1..Len(saved) /\ saved[k] \in shape
  <2> HIDE DEF shape
  <2>1. QED
    BY <1>1
<1>3. QED
  BY <1>2

(* A rollback that runs has its checkpoint.                                 *)
LEMMA RollbackTypes ==
    ASSUME GitIInv, rollback # Idle
    PROVE  rollback.of \in DOMAIN saved /\ rollback.next # "none"
<1>1. rollback \in [of : 0..Len(saved), next : {"none", "reset", "clean", "apply", "copy"}]
  BY DEF GitIInv, GitTypeOK
<1>2. rollback.of # 0 /\ rollback.next # "none"
  BY <1>1 DEF GitIInv, RollbackIsUnderWay, Idle
<1>3. DOMAIN saved = 1..Len(saved) /\ Len(saved) \in Nat
  BY DEF GitIInv, GitTypeOK
<1>4. QED
  BY <1>1, <1>2, <1>3

LEMMA GitInitially == GitInit => GitIInv
<1> SUFFICES ASSUME GitInit PROVE GitIInv
  OBVIOUS
<1>1. saved = <<>> /\ Len(saved) = 0 /\ DOMAIN saved = {}
  BY DEF GitInit
<1>2. head \in Content /\ staged \in Content /\ tree \in Content
  BY GitAssumption DEF GitInit, Content
<1>3. GitTypeOK
  BY <1>1, <1>2, GitAssumption DEF GitInit, GitTypeOK, Idle
<1>4. CheckpointsAreComplete /\ RollbackIsUnderWay /\ RollbackRestoresTheTree
  BY <1>1 DEF GitInit, CheckpointsAreComplete, RollbackIsUnderWay, RollbackRestoresTheTree, Idle
<1>5. QED
  BY <1>3, <1>4 DEF GitIInv

(* The agents and the user touch the repository while no rollback runs.     *)
LEMMA TouchKeeps ==
    ASSUME GitIInv, Touch, rollback = Idle, {head', staged', tree'} \subseteq Content,
           ignored' \subseteq everIgnored', everIgnored \subseteq everIgnored', everIgnored' \subseteq WorkFiles,
           written' \in 1..MaxWrites
    PROVE  GitIInv'
<1>1. restored' = 0 /\ UNCHANGED <<saved, rollback, copies>>
  BY DEF Touch
<1>2. Len(saved) \in Nat
  BY DEF GitIInv, GitTypeOK
<1>3. GitTypeOK'
  <2>1. SomeContent' = SomeContent /\ Content' = Content
    BY DEF SomeContent, Content
  <2>2. QED
    BY <1>1, <1>2, <2>1 DEF GitIInv, GitTypeOK
<1>4. CheckpointsAreComplete'
  <2>1. ASSUME NEW k \in DOMAIN saved PROVE IsComplete(saved[k])'
    BY <1>1, <2>1 DEF GitIInv, CheckpointsAreComplete, IsComplete, Now
  <2>2. QED
    BY <1>1, <2>1 DEF CheckpointsAreComplete, IsComplete, Now
<1>5. RollbackIsUnderWay' /\ RollbackRestoresTheTree'
  BY <1>1 DEF GitIInv, RollbackIsUnderWay, RollbackRestoresTheTree, Idle
<1>6. QED
  BY <1>3, <1>4, <1>5 DEF GitIInv

LEMMA TouchStep ==
    ASSUME GitIInv, rollback = Idle,
           Commit \/ \E f \in WorkFiles : EditFile(f) \/ DeleteFile(f) \/ Stage(f) \/ Ignore(f)
    PROVE  GitIInv'
<1>1. /\ head \in Content /\ staged \in Content /\ tree \in Content
      /\ ignored \subseteq everIgnored /\ everIgnored \subseteq WorkFiles
      /\ written \in 1..MaxWrites /\ MaxWrites \in Nat /\ ABSENT \in 0..MaxWrites
  BY GitAssumption DEF GitIInv, GitTypeOK, ABSENT
<1>2. CASE Commit
  BY <1>1, <1>2, TouchKeeps DEF Commit
<1>3. ASSUME NEW f \in WorkFiles, EditFile(f) PROVE GitIInv'
  <2>1. written + 1 \in 0..MaxWrites /\ written' \in 1..MaxWrites
    BY <1>1, <1>3 DEF EditFile
  <2>2. tree' \in Content
    BY <1>1, <1>3, <2>1, ContentUpdate DEF EditFile
  <2>3. QED
    BY <1>1, <1>3, <2>1, <2>2, TouchKeeps DEF EditFile
<1>4. ASSUME NEW f \in WorkFiles, DeleteFile(f) PROVE GitIInv'
  <2>1. tree' \in Content
    BY <1>1, <1>4, ContentUpdate DEF DeleteFile
  <2>2. QED
    BY <1>1, <1>4, <2>1, TouchKeeps DEF DeleteFile
<1>5. ASSUME NEW f \in WorkFiles, Stage(f) PROVE GitIInv'
  <2>1. tree[f] \in 0..MaxWrites
    BY <1>1 DEF Content
  <2>2. staged' \in Content
    BY <1>1, <1>5, <2>1, ContentUpdate DEF Stage
  <2>3. QED
    BY <1>1, <1>5, <2>2, TouchKeeps DEF Stage
<1>6. ASSUME NEW f \in WorkFiles, Ignore(f) PROVE GitIInv'
  BY <1>1, <1>6, TouchKeeps DEF Ignore
<1>7. QED
  BY <1>2, <1>3, <1>4, <1>5, <1>6

LEMMA CreateCheckpointStep == ASSUME GitIInv, CreateCheckpoint PROVE GitIInv'
<1> DEFINE now == [f \in WorkFiles |-> IF staged[f] = ABSENT THEN ABSENT ELSE tree[f]]
           patch == [f \in {g \in WorkFiles : now[g] # head[g]} |-> now[f]]
           copy == [f \in Untracked \ Quoted |-> tree[f]]
           was == [f \in TrackedIn(staged) \union (WorkFiles \ ignored) |-> tree[f]]
           new == [head |-> head, patch |-> patch, copies |-> copy, rules |-> ignored, was |-> was]
           n == Len(saved) + 1
           shape == [head : Content, patch : SomeContent, copies : SomeContent, rules : SUBSET WorkFiles, was : SomeContent]
<1>1. /\ rollback = Idle /\ saved' = Append(saved, new)
      /\ UNCHANGED <<head, staged, tree, ignored, written, rollback, copies, restored, everIgnored>>
  BY DEF CreateCheckpoint, repository
<1>2. /\ head \in Content /\ staged \in Content /\ tree \in Content
      /\ ignored \subseteq everIgnored /\ everIgnored \subseteq WorkFiles
      /\ \A f \in WorkFiles : head[f] \in 0..MaxWrites /\ tree[f] \in 0..MaxWrites /\ ABSENT \in 0..MaxWrites
      /\ Len(saved) \in Nat
  BY GitAssumption DEF GitIInv, GitTypeOK, Content, ABSENT
<1>3. patch \in SomeContent /\ copy \in SomeContent /\ was \in SomeContent
  <2>1. patch \in [{g \in WorkFiles : now[g] # head[g]} -> 0..MaxWrites]
    BY <1>2
  <2>2. copy \in [Untracked \ Quoted -> 0..MaxWrites] /\ Untracked \ Quoted \subseteq WorkFiles
    BY <1>2 DEF Untracked
  <2>3. /\ TrackedIn(staged) \union (WorkFiles \ ignored) \subseteq WorkFiles
        /\ was \in [TrackedIn(staged) \union (WorkFiles \ ignored) -> 0..MaxWrites]
    BY <1>2 DEF TrackedIn
  <2> HIDE DEF now, patch, copy, was
  <2>4. QED
    BY <2>1, <2>2, <2>3, SomeContentIs
<1>4. new \in shape
  <2> HIDE DEF patch, copy, was
  <2>1. QED
    BY <1>2, <1>3
<1>5. ASSUME NEW f \in DOMAIN was \ Quoted
      PROVE  was[f] = IF f \in DOMAIN copy THEN copy[f] ELSE Now(new, f)
  <2>1. f \in WorkFiles /\ was[f] = tree[f] /\ now[f] = IF staged[f] = ABSENT THEN ABSENT ELSE tree[f]
    BY <1>5 DEF TrackedIn
  <2>2. Now(new, f) = now[f]
    BY <2>1 DEF Now
  <2>3. CASE f \in Untracked
    BY <1>5, <2>1, <2>3
  <2>4. CASE f \notin Untracked
    <3>1. staged[f] # ABSENT \/ tree[f] = ABSENT
      BY <1>5, <2>1, <2>4 DEF TrackedIn, Untracked
    <3>2. QED
      BY <2>1, <2>2, <2>4, <3>1
  <2>5. QED
    BY <2>3, <2>4
<1>6. /\ saved \in Seq(shape) /\ saved' \in Seq(shape) /\ Len(saved') = n /\ DOMAIN saved' = 1..n
      /\ DOMAIN saved = 1..Len(saved) /\ saved'[n] = new /\ \A k \in DOMAIN saved : saved'[k] = saved[k]
  <2>1. saved \in Seq(shape)
    BY DEF GitIInv, GitTypeOK
  <2> HIDE DEF shape, new
  <2>2. QED
    BY <1>1, <1>4, <2>1
<1>7. 0..Len(saved) \subseteq 0..n
  BY <1>2
<1>8. GitTypeOK'
  <2>1. rollback' \in [of : 0..n, next : {"none", "reset", "clean", "apply", "copy"}] /\ restored' \in 0..n
    BY <1>1, <1>7 DEF GitIInv, GitTypeOK
  <2>2. saved' \in Seq([head : Content, patch : SomeContent, copies : SomeContent, rules : SUBSET WorkFiles, was : SomeContent])'
    BY <1>6 DEF SomeContent, Content
  <2> HIDE DEF n, shape, new
  <2>3. QED
    BY <1>1, <1>6, <2>1, <2>2 DEF GitIInv, GitTypeOK, Content
<1>9. CheckpointsAreComplete'
  <2>1. IsComplete(new)
    BY <1>2, <1>5 DEF IsComplete
  <2>2. \A k \in DOMAIN saved' : IsComplete(saved'[k])
    <3>1. \A k \in DOMAIN saved' : k \in DOMAIN saved \/ k = n
      BY <1>2, <1>6
    <3> HIDE DEF n, new
    <3>2. QED
      BY <1>6, <2>1, <3>1 DEF GitIInv, CheckpointsAreComplete
  <2>3. QED
    BY <1>1, <2>2 DEF CheckpointsAreComplete, IsComplete, Now
<1>10. RollbackIsUnderWay'
  BY <1>1 DEF GitIInv, RollbackIsUnderWay, Idle
<1>11. RollbackRestoresTheTree'
  <2>1. restored # 0 => restored \in DOMAIN saved
    BY <1>2, <1>6 DEF GitIInv, GitTypeOK
  <2> HIDE DEF new, n, shape
  <2>2. QED
    BY <1>1, <1>6, <2>1 DEF GitIInv, RollbackRestoresTheTree, Back
<1>12. QED
  BY <1>8, <1>9, <1>10, <1>11 DEF GitIInv

LEMMA RollbackKeeps ==
    ASSUME GitIInv, UNCHANGED <<written, saved, everIgnored>>,
           head' \in Content, staged' \in Content, tree' \in Content, ignored' \subseteq everIgnored,
           copies' \subseteq WorkFiles, restored' \in 0..Len(saved),
           rollback' \in [of : 0..Len(saved), next : {"none", "reset", "clean", "apply", "copy"}],
           RollbackIsUnderWay', RollbackRestoresTheTree'
    PROVE  GitIInv'
<1>1. GitTypeOK'
  <2>1. SomeContent' = SomeContent /\ Content' = Content
    BY DEF SomeContent, Content
  <2>2. QED
    BY <2>1 DEF GitIInv, GitTypeOK
<1>2. CheckpointsAreComplete'
  BY DEF GitIInv, CheckpointsAreComplete, IsComplete, Now
<1>3. QED
  BY <1>1, <1>2 DEF GitIInv

(* What the next command of a rollback finds.                               *)
LEMMA CommandFinds ==
    ASSUME GitIInv, NEW name \in {"reset", "clean", "apply", "copy"}, rollback.next = name
    PROVE  /\ rollback # Idle /\ rollback.of \in DOMAIN saved /\ rollback.of \in 1..Len(saved) /\ restored = 0
           /\ \A next \in {"none", "reset", "clean", "apply", "copy"} :
                /\ [rollback EXCEPT !.next = next] \in [of : 0..Len(saved), next : {"none", "reset", "clean", "apply", "copy"}]
                /\ [rollback EXCEPT !.next = next].of = rollback.of
                /\ [rollback EXCEPT !.next = next].next = next
           /\ head \in Content /\ staged \in Content /\ tree \in Content
           /\ ignored \subseteq everIgnored /\ everIgnored \subseteq WorkFiles /\ copies \subseteq WorkFiles
           /\ saved[rollback.of].rules \subseteq everIgnored
           /\ saved[rollback.of].head \in Content
           /\ saved[rollback.of].patch \in SomeContent /\ saved[rollback.of].copies \in SomeContent
<1>1. rollback # Idle
  BY DEF Idle
<1>2. GitTypeOK /\ rollback.of \in DOMAIN saved /\ restored = 0
  BY <1>1, RollbackTypes DEF GitIInv, RollbackIsUnderWay
<1>3. rollback.of \in 1..Len(saved) /\ saved[rollback.of].head \in Content
      /\ saved[rollback.of].patch \in SomeContent /\ saved[rollback.of].copies \in SomeContent
  BY <1>2, CheckpointTypes
<1>4. saved[rollback.of].rules \subseteq everIgnored
  BY <1>2 DEF GitIInv, CheckpointsAreComplete, IsComplete
<1>5. QED
  BY <1>1, <1>2, <1>3, <1>4 DEF GitTypeOK

LEMMA StartRollbackStep == ASSUME GitIInv, NEW k \in DOMAIN saved, StartRollback(k) PROVE GitIInv'
<1>1. /\ rollback' = [of |-> k, next |-> "reset"] /\ restored' = 0
      /\ UNCHANGED <<head, staged, tree, ignored, written, saved, copies, everIgnored>>
  BY DEF StartRollback, repository
<1>2. k \in 1..Len(saved) /\ Len(saved) \in Nat
  BY CheckpointTypes DEF GitIInv, GitTypeOK
<1>3. RollbackIsUnderWay' /\ RollbackRestoresTheTree'
  BY <1>1, <1>2 DEF RollbackIsUnderWay, RollbackRestoresTheTree
<1>4. QED
  BY <1>1, <1>2, <1>3, RollbackKeeps DEF GitIInv, GitTypeOK

LEMMA ResetStep == ASSUME GitIInv, Reset PROVE GitIInv'
<1> DEFINE s == saved[rollback.of]
<1>1. /\ rollback.next = "reset" /\ rollback' = [rollback EXCEPT !.next = "clean"]
      /\ head' = s.head /\ staged' = s.head
      /\ tree' = [f \in WorkFiles |->
                    IF f \in TrackedIn(s.head) \union TrackedIn(staged) THEN s.head[f] ELSE tree[f]]
      /\ ignored' \in {ignored, s.rules}
      /\ UNCHANGED <<written, saved, copies, restored, everIgnored>>
  BY DEF Reset, Command
<1>2. s.head \in Content /\ tree \in Content /\ s.rules \subseteq everIgnored /\ ignored \subseteq everIgnored
      /\ restored = 0 /\ copies \subseteq WorkFiles /\ rollback.of \in 1..Len(saved)
  BY <1>1, CommandFinds
<1>3. /\ rollback' \in [of : 0..Len(saved), next : {"none", "reset", "clean", "apply", "copy"}]
      /\ rollback'.of = rollback.of /\ rollback'.next = "clean"
  BY <1>1, CommandFinds
<1>4. tree' \in Content
  BY <1>1, <1>2 DEF Content
<1>5. \A f \in WorkFiles : head'[f] # ABSENT => tree'[f] = head'[f]
  BY <1>1 DEF TrackedIn
<1>6. RollbackIsUnderWay'
  <2> HIDE DEF s
  <2>1. HeadIsBack(s)' /\ TrackedIsBack'
    BY <1>1, <1>5 DEF HeadIsBack, TrackedIsBack, s
  <2>2. QED
    BY <1>1, <1>2, <1>3, <2>1 DEF RollbackIsUnderWay, HeadIsBack, s
<1>7. RollbackRestoresTheTree'
  BY <1>1, <1>2 DEF RollbackRestoresTheTree
<1>8. restored' \in 0..Len(saved) /\ ignored' \subseteq everIgnored
  BY <1>1, <1>2 DEF GitIInv, GitTypeOK
<1>9. QED
  BY <1>1, <1>2, <1>3, <1>4, <1>6, <1>7, <1>8, RollbackKeeps

LEMMA CleanStep == ASSUME GitIInv, Clean PROVE GitIInv'
<1> DEFINE s == saved[rollback.of]
<1>1. /\ rollback.next = "clean" /\ rollback' = [rollback EXCEPT !.next = "apply"]
      /\ tree' = [f \in WorkFiles |-> IF f \in Untracked THEN ABSENT ELSE tree[f]]
      /\ ignored' = s.rules
      /\ UNCHANGED <<head, staged, written, saved, copies, restored, everIgnored>>
  BY DEF Clean, Command
<1>2. /\ head \in Content /\ staged \in Content /\ tree \in Content
      /\ s.rules \subseteq everIgnored /\ ignored \subseteq everIgnored
      /\ restored = 0 /\ copies \subseteq WorkFiles /\ rollback # Idle
  BY <1>1, CommandFinds
<1>3. /\ rollback' \in [of : 0..Len(saved), next : {"none", "reset", "clean", "apply", "copy"}]
      /\ rollback'.of = rollback.of /\ rollback'.next = "apply" /\ rollback.of # 0
  BY <1>1, CommandFinds
<1>4. tree' \in Content
  BY <1>1, <1>2, GitAssumption DEF Content, ABSENT
<1>5. head = s.head /\ staged = s.head /\ \A f \in WorkFiles : head[f] # ABSENT => tree[f] = head[f]
  BY <1>1, <1>2 DEF GitIInv, RollbackIsUnderWay, HeadIsBack, TrackedIsBack
<1>6. \A f \in WorkFiles : head[f] # ABSENT => tree'[f] = head[f]
  BY <1>1, <1>5 DEF Untracked, TrackedIn
<1>7. \A f \in WorkFiles : head[f] = ABSENT => tree'[f] = ABSENT \/ f \in everIgnored
  BY <1>1, <1>2, <1>5 DEF Untracked, TrackedIn
<1>8. RollbackIsUnderWay'
  BY <1>1, <1>2, <1>3, <1>5, <1>6, <1>7 DEF RollbackIsUnderWay, HeadIsBack, TrackedIsBack, OnlyHiddenAreLeft
<1>9. RollbackRestoresTheTree'
  BY <1>1, <1>2 DEF RollbackRestoresTheTree
<1>10. restored' \in 0..Len(saved)
  BY <1>1 DEF GitIInv, GitTypeOK
<1>11. QED
  BY <1>1, <1>2, <1>3, <1>4, <1>8, <1>9, <1>10, RollbackKeeps

LEMMA ApplyStep == ASSUME GitIInv, Apply PROVE GitIInv'
<1> DEFINE s == saved[rollback.of]
<1>1. /\ rollback.next = "apply" /\ rollback' = [rollback EXCEPT !.next = "copy"]
      /\ tree' = [f \in WorkFiles |-> IF f \in DOMAIN s.patch THEN s.patch[f] ELSE tree[f]]
      /\ copies' = DOMAIN s.copies
      /\ UNCHANGED <<head, staged, ignored, written, saved, restored, everIgnored>>
  BY DEF Apply, Command
<1>2. /\ head \in Content /\ staged \in Content /\ tree \in Content /\ ignored \subseteq everIgnored
      /\ restored = 0 /\ rollback # Idle /\ s.patch \in SomeContent /\ s.copies \in SomeContent
  BY <1>1, CommandFinds
<1>3. /\ rollback' \in [of : 0..Len(saved), next : {"none", "reset", "clean", "apply", "copy"}]
      /\ rollback'.of = rollback.of /\ rollback'.next = "copy" /\ rollback.of # 0
  BY <1>1, CommandFinds
<1>4. tree' \in Content /\ copies' \subseteq WorkFiles
  <2>1. s.patch \in [DOMAIN s.patch -> 0..MaxWrites] /\ DOMAIN s.copies \subseteq WorkFiles
    BY <1>2, SomeContentIs
  <2> HIDE DEF s
  <2>2. QED
    BY <1>1, <1>2, <2>1 DEF Content
<1>5. /\ head = s.head /\ staged = s.head /\ \A f \in WorkFiles : head[f] # ABSENT => tree[f] = head[f]
      /\ \A f \in WorkFiles : head[f] = ABSENT => tree[f] = ABSENT \/ f \in everIgnored
  BY <1>1, <1>2 DEF GitIInv, RollbackIsUnderWay, HeadIsBack, TrackedIsBack, OnlyHiddenAreLeft
<1>6. \A f \in WorkFiles : tree'[f] = Now(s, f) \/ (f \in everIgnored /\ Now(s, f) = ABSENT)
  BY <1>1, <1>5 DEF Now
<1>7. RollbackIsUnderWay'
  BY <1>1, <1>2, <1>3, <1>5, <1>6 DEF RollbackIsUnderWay, HeadIsBack, PatchIsApplied, CopiesAreBack
<1>8. RollbackRestoresTheTree'
  BY <1>1, <1>2 DEF RollbackRestoresTheTree
<1>9. restored' \in 0..Len(saved)
  BY <1>1 DEF GitIInv, GitTypeOK
<1>10. QED
  BY <1>1, <1>2, <1>3, <1>4, <1>7, <1>8, <1>9, RollbackKeeps

LEMMA CopyBackStep == ASSUME GitIInv, NEW f \in copies, CopyBack(f) PROVE GitIInv'
<1> DEFINE s == saved[rollback.of]
<1>1. /\ rollback.next = "copy" /\ copies' = copies \ {f}
      /\ tree' = [tree EXCEPT ![f] = s.copies[f]]
      /\ UNCHANGED <<head, staged, ignored, written, saved, rollback, restored, everIgnored>>
  BY DEF CopyBack
<1>2. /\ head \in Content /\ staged \in Content /\ tree \in Content /\ ignored \subseteq everIgnored
      /\ restored = 0 /\ rollback # Idle /\ s.copies \in SomeContent /\ copies \subseteq WorkFiles
  BY <1>1, CommandFinds
<1>3. HeadIsBack(s) /\ PatchIsApplied(s) /\ CopiesAreBack(s) /\ rollback.of # 0
  <2>1. rollback.next # "none" /\ rollback.next = "copy"
    BY <1>1
  <2> HIDE DEF s
  <2>2. QED
    BY <1>2, <2>1 DEF GitIInv, RollbackIsUnderWay, s
<1>4. f \in DOMAIN s.copies /\ f \in WorkFiles /\ s.copies[f] \in 0..MaxWrites
  BY <1>2, <1>3, SomeContentIs DEF CopiesAreBack
<1>5. tree' \in Content /\ tree'[f] = s.copies[f] /\ \A g \in WorkFiles \ {f} : tree'[g] = tree[g]
  BY <1>1, <1>2, <1>4, ContentUpdate DEF Content
<1>6. /\ \A g \in WorkFiles \ DOMAIN s.copies : tree'[g] = Now(s, g) \/ (g \in everIgnored /\ Now(s, g) = ABSENT)
      /\ copies' \subseteq DOMAIN s.copies /\ \A g \in DOMAIN s.copies \ copies' : tree'[g] = s.copies[g]
  <2>1. DOMAIN s.copies \subseteq WorkFiles
    BY <1>2, SomeContentIs
  <2> HIDE DEF s
  <2>2. QED
    BY <1>1, <1>3, <1>4, <1>5, <2>1 DEF PatchIsApplied, CopiesAreBack
<1>7. RollbackIsUnderWay'
  BY <1>1, <1>2, <1>3, <1>6 DEF RollbackIsUnderWay, HeadIsBack, PatchIsApplied, CopiesAreBack
<1>8. RollbackRestoresTheTree'
  BY <1>1, <1>2 DEF RollbackRestoresTheTree
<1>9. QED
  BY <1>1, <1>2, <1>5, <1>7, <1>8, RollbackKeeps DEF GitIInv, GitTypeOK

(* Here a checkpoint that says all of its tree meets a tree that is all it  *)
(* says.                                                                    *)
LEMMA EndRollbackStep == ASSUME GitIInv, EndRollback PROVE GitIInv'
<1> DEFINE k == rollback.of
           s == saved[k]
<1>1. /\ rollback.next = "copy" /\ copies = {} /\ rollback' = Idle /\ restored' = k
      /\ UNCHANGED <<head, staged, tree, ignored, written, saved, copies, everIgnored>>
  BY DEF EndRollback, repository
<1>2. /\ head \in Content /\ staged \in Content /\ tree \in Content /\ ignored \subseteq everIgnored
      /\ rollback # Idle /\ k \in DOMAIN saved /\ k \in 1..Len(saved) /\ copies \subseteq WorkFiles
  BY <1>1, CommandFinds
<1>3. PatchIsApplied(s) /\ CopiesAreBack(s) /\ IsComplete(s)
  BY <1>1, <1>2 DEF GitIInv, RollbackIsUnderWay, CheckpointsAreComplete
<1>4. ASSUME NEW f \in WorkFiles \ Quoted, f \in DOMAIN s.was
      PROVE  tree[f] = s.was[f] \/ (f \in everIgnored /\ s.was[f] = ABSENT)
  <2>1. CASE f \in DOMAIN s.copies
    BY <1>1, <1>3, <1>4, <2>1 DEF CopiesAreBack, IsComplete
  <2>2. CASE f \notin DOMAIN s.copies
    BY <1>3, <1>4, <2>2 DEF PatchIsApplied, IsComplete
  <2>3. QED
    BY <2>1, <2>2
<1>5. RollbackRestoresTheTree'
  BY <1>1, <1>4 DEF RollbackRestoresTheTree, Back
<1>6. RollbackIsUnderWay'
  BY <1>1 DEF RollbackIsUnderWay, Idle
<1>7. Idle \in [of : 0..Len(saved), next : {"none", "reset", "clean", "apply", "copy"}] /\ k \in 0..Len(saved)
  BY <1>2 DEF Idle
<1>8. QED
  BY <1>1, <1>2, <1>5, <1>6, <1>7, RollbackKeeps

LEMMA BreakRollbackStep == ASSUME GitIInv, BreakRollback PROVE GitIInv'
<1>1. /\ rollback # Idle /\ rollback' = Idle /\ copies' = {}
      /\ UNCHANGED <<head, staged, tree, ignored, written, saved, restored, everIgnored>>
  BY DEF BreakRollback, repository
<1>2. restored = 0 /\ Len(saved) \in Nat
  BY <1>1 DEF GitIInv, GitTypeOK, RollbackIsUnderWay
<1>3. RollbackIsUnderWay' /\ RollbackRestoresTheTree'
  BY <1>1, <1>2 DEF RollbackIsUnderWay, RollbackRestoresTheTree, Idle
<1>4. Idle \in [of : 0..Len(saved), next : {"none", "reset", "clean", "apply", "copy"}]
  BY <1>2 DEF Idle
<1>5. QED
  BY <1>1, <1>2, <1>3, <1>4, RollbackKeeps DEF GitIInv, GitTypeOK

LEMMA GitIInvSteps == GitIInv /\ [GitNext]_gitVars => GitIInv'
<1> SUFFICES ASSUME GitIInv, [GitNext]_gitVars PROVE GitIInv'
  OBVIOUS
<1>1. CASE UNCHANGED gitVars
  BY <1>1, RollbackKeeps DEF GitIInv, GitTypeOK, RollbackIsUnderWay, RollbackRestoresTheTree, Back,
     HeadIsBack, TrackedIsBack, OnlyHiddenAreLeft, PatchIsApplied, CopiesAreBack, Now, gitVars
<1>2. CASE rollback = Idle /\ (Commit \/ \E f \in WorkFiles : EditFile(f) \/ DeleteFile(f) \/ Stage(f) \/ Ignore(f))
  BY <1>2, TouchStep
<1>3. CASE CreateCheckpoint \/ \E k \in DOMAIN saved : StartRollback(k)
  BY <1>3, CreateCheckpointStep, StartRollbackStep
<1>4. CASE Reset \/ Clean \/ Apply \/ \E f \in copies : CopyBack(f)
  BY <1>4, ResetStep, CleanStep, ApplyStep, CopyBackStep
<1>5. CASE EndRollback \/ BreakRollback
  BY <1>5, EndRollbackStep, BreakRollbackStep
<1>6. QED
  BY <1>1, <1>2, <1>3, <1>4, <1>5 DEF GitNext

(* The types of the tree, of the checkpoints and of the rollback.           *)
THEOREM CheckpointsAreTyped == GitSpec => []GitTypeOK
<1>1. GitInit => GitIInv
  BY GitInitially
<1>2. GitIInv /\ [GitNext]_gitVars => GitIInv'
  BY GitIInvSteps
<1>3. GitIInv => GitTypeOK
  BY DEF GitIInv
<1>4. QED
  BY <1>1, <1>2, <1>3, PTL DEF GitSpec

(* A rollback that returns has put the tree back as its checkpoint saw it,  *)
(* but for files that a rule hid and those git prints in quotes, for any    *)
(* number of files, of checkpoints and of rollbacks that broke off          *)
(* (CheckpointManager.create and rollback).                                 *)
THEOREM TreesAreRestored == GitSpec => []RollbackRestoresTheTree
<1>1. GitInit => GitIInv
  BY GitInitially
<1>2. GitIInv /\ [GitNext]_gitVars => GitIInv'
  BY GitIInvSteps
<1>3. GitIInv => RollbackRestoresTheTree
  BY DEF GitIInv
<1>4. QED
  BY <1>1, <1>2, <1>3, PTL DEF GitSpec
-----------------------------------------------------------------------------
(* The goals of a project.  What a row in the ledger must satisfy, where    *)
(* created are the goals there are, given the generations given and tested  *)
(* the tests that passed: its evidence was tested, unless it is derived     *)
(* from children, and is younger than all it was made from.                 *)
Sound(g, row, created, given, tested) ==
    /\ row.status \in Statuses /\ row.evidence.generation \in 0..given
    /\ row.evidence.passed => <<g, row.evidence.revision>> \in tested \/ \E c \in created : ParentOf[c] = g
    /\ \A r \in DOMAIN row.evidence.upstream : row.evidence.upstream[r] < row.evidence.generation

LedgerIsSound ==
    \A g \in DOMAIN goals :
        DependsOn[g] \subseteq DOMAIN goals /\ Sound(g, goals[g], DOMAIN goals, taken, observed)

(* So are the rows that are about to be written.                            *)
WritesAreSound ==
    \A w \in Writers : writing[w] # NotWriting =>
        /\ writing[w].goal \in DOMAIN goals /\ writing[w].next \in Phases
        /\ Sound(writing[w].goal, writing[w].row, DOMAIN goals, taken, observed)

(* An agent has a goal, and the results it keeps are of tests that ran.     *)
RunsAreSound ==
    /\ \A g \in Goals : agent[g] # "none" => g \in DOMAIN goals
    /\ \A g \in Goals : \A t \in DOMAIN results[g] :
        results[g][t].passed /\ results[g][t].at \in Revisions => <<g, results[g][t].at>> \in observed

GoalIInv == GoalTypeOK /\ LedgerIsSound /\ WritesAreSound /\ RunsAreSound

(* A row stays sound while goals, generations and tests are added.          *)
LEMMA SoundStays ==
    ASSUME NEW g, NEW row, NEW created, NEW given \in Nat, NEW tested, Sound(g, row, created, given, tested),
           NEW created2, NEW given2 \in Nat, NEW tested2,
           created \subseteq created2, given <= given2, tested \subseteq tested2
    PROVE  Sound(g, row, created2, given2, tested2)
  BY DEF Sound

LEMMA NothingIsSound ==
    ASSUME NEW g, NEW created, NEW given \in Nat, NEW tested, NEW status \in Statuses
    PROVE  Sound(g, [status |-> status, evidence |-> NoEvidence], created, given, tested)
  BY DEF Sound, NoEvidence

(* What the invariant is for: what is shown as verified was tested.         *)
LEMMA SoundLedgersAreTested == GoalIInv => VerifiedGoalsAreTested
<1> SUFFICES ASSUME GoalIInv, NEW g \in DOMAIN goals, ShownVerified(g)
             PROVE  /\ Children(g) = {} => <<g, revision>> \in observed
                    /\ \A r \in Upstream(g) :
                        ShownVerified(r) /\ goals[r].evidence.generation < goals[g].evidence.generation
  BY DEF VerifiedGoalsAreTested
<1>1. PICK below \in SUBSET DOMAIN goals :
        /\ g \in below
        /\ \A u \in below : Holds(goals, u) /\ Upstream(u) \subseteq below
        /\ \A knot \in SUBSET below \ {{}} : \E u \in knot : Upstream(u) \intersect knot = {}
  BY DEF ShownVerified, Current
<1>2. Sound(g, goals[g], DOMAIN goals, taken, observed) /\ Holds(goals, g)
  BY <1>1 DEF GoalIInv, LedgerIsSound
<1>3. Children(g) = {} => <<g, revision>> \in observed
  BY <1>2 DEF Sound, Holds, Children
<1>4. ASSUME NEW r \in Upstream(g)
      PROVE  ShownVerified(r) /\ goals[r].evidence.generation < goals[g].evidence.generation
  <2>1. r \in below
    BY <1>1
  <2>2. goals[r].status = "completed"
    BY <1>2 DEF Holds
  <2>3. Current(goals, r)
    BY <1>1, <2>1 DEF Current
  <2>4. goals[r].evidence.generation < goals[g].evidence.generation
    BY <1>2 DEF Sound, Holds
  <2>5. QED
    BY <2>1, <2>2, <2>3, <2>4 DEF ShownVerified
<1>5. QED
  BY <1>3, <1>4

LEMMA GoalsInitially == GoalInit => GoalIInv
<1> SUFFICES ASSUME GoalInit PROVE GoalIInv
  OBVIOUS
<1>1. DOMAIN goals = {} /\ DOMAIN <<>> = {}
  BY DEF GoalInit
<1>2. GoalTypeOK
  BY <1>1, GoalAssumption DEF GoalInit, GoalTypeOK, Phases, NotWriting
<1>3. LedgerIsSound /\ WritesAreSound /\ RunsAreSound
  BY <1>1 DEF GoalInit, LedgerIsSound, WritesAreSound, RunsAreSound
<1>4. QED
  BY <1>2, <1>3 DEF GoalIInv

(* An update begins: the row it is about to write is sound.                 *)
LEMMA UpdateBegins ==
    ASSUME GoalIInv, NEW w \in Writers, NEW g \in DOMAIN goals, NEW row, NEW next \in Phases,
           BeginUpdate(w, g, row, next), row.status \in Statuses, row.evidence.generation \in Nat,
           Sound(g, row, DOMAIN goals, taken, observed) \/ Sound(g, row, DOMAIN goals, taken + 1, observed),
           row.evidence.generation \in 0..taken \/ row.evidence.generation = taken + 1,
           UNCHANGED <<goals, revision, testing, edits, observed>>,
           agent' \in [Goals -> Phases], \A u \in Goals : agent'[u] # "none" => u \in DOMAIN goals,
           DOMAIN results' = Goals,
           \A u \in Goals : results'[u] = results[u] \/ results'[u] = <<>>,
           calls' \in 0..MaxGoalCalls
    PROVE  GoalIInv'
<1>1. /\ writing' = [writing EXCEPT ![w] = [goal |-> g, row |-> row, next |-> next]]
      /\ row.evidence.generation <= MaxEvidence
      /\ taken' = IF row.evidence.generation > taken THEN row.evidence.generation ELSE taken
  BY DEF BeginUpdate
<1>2. GoalTypeOK /\ taken \in Nat /\ taken \in 0..MaxEvidence
  BY DEF GoalIInv, GoalTypeOK
<1>3. taken' \in 0..MaxEvidence /\ taken' \in Nat /\ taken <= taken' /\ row.evidence.generation \in 0..taken'
  BY <1>1, <1>2, GoalAssumption
<1>4. /\ DOMAIN writing' = Writers /\ writing'[w] = [goal |-> g, row |-> row, next |-> next]
      /\ \A v \in Writers \ {w} : writing'[v] = writing[v]
  BY <1>1, <1>2 DEF GoalTypeOK
<1>5. Sound(g, row, DOMAIN goals, taken', observed)
  BY <1>3 DEF Sound
<1>6. LedgerIsSound'
  BY <1>2, <1>3, SoundStays DEF GoalIInv, LedgerIsSound
<1>7. WritesAreSound'
  <2>1. \A v \in Writers \ {w} : writing[v] # NotWriting =>
            Sound(writing[v].goal, writing[v].row, DOMAIN goals, taken', observed)
    BY <1>2, <1>3, SoundStays DEF GoalIInv, WritesAreSound
  <2>2. QED
    BY <1>4, <1>5, <2>1 DEF GoalIInv, WritesAreSound
<1>8. RunsAreSound'
  <2>1. DOMAIN <<>> = {}
    OBVIOUS
  <2>2. QED
    BY <2>1 DEF GoalIInv, RunsAreSound
<1>9. GoalTypeOK'
  <2>1. \A u \in DOMAIN goals : goals[u].evidence.generation \in 0..taken'
    BY <1>2, <1>3 DEF GoalTypeOK
  <2>2. \A u \in Goals : DOMAIN results'[u] \subseteq Tests
    BY <1>2 DEF GoalTypeOK
  <2>3. QED
    BY <1>2, <1>3, <1>4, <2>1, <2>2 DEF GoalTypeOK
<1>10. QED
  BY <1>6, <1>7, <1>8, <1>9 DEF GoalIInv

(* The rows that an update writes: what is there, nothing, or an evidence   *)
(* of the next generation, made from those that were given before.          *)
LEMMA ReopenedIsSound ==
    ASSUME GoalIInv, NEW g \in DOMAIN goals, NEW status \in Statuses
    PROVE  /\ Reopened(g, status).status \in Statuses
           /\ Reopened(g, status).evidence.generation \in 0..taken
           /\ Sound(g, Reopened(g, status), DOMAIN goals, taken, observed)
<1>1. Sound(g, goals[g], DOMAIN goals, taken, observed) /\ taken \in Nat
  BY DEF GoalIInv, LedgerIsSound, GoalTypeOK
<1>2. CASE status = "running" /\ goals[g].status # "running"
  <2>1. Reopened(g, status) = [status |-> status, evidence |-> NoEvidence]
    BY <1>2 DEF Reopened
  <2>2. QED
    BY <1>1, <2>1, NothingIsSound DEF NoEvidence
<1>3. CASE ~(status = "running" /\ goals[g].status # "running")
  <2>1. Reopened(g, status) = [status |-> status, evidence |-> goals[g].evidence]
    BY <1>3 DEF Reopened
  <2>2. QED
    BY <1>1, <2>1 DEF Sound
<1>4. QED
  BY <1>2, <1>3

LEMMA EvidenceIsSound ==
    ASSUME GoalIInv, NEW g \in DOMAIN goals, NEW status \in Statuses, NEW passed \in BOOLEAN, NEW at,
           passed => <<g, at>> \in observed \/ Children(g) # {}
    PROVE  /\ Evidence(g, passed, at).generation = taken + 1
           /\ Sound(g, [status |-> status, evidence |-> Evidence(g, passed, at)], DOMAIN goals, taken + 1, observed)
<1>1. taken \in Nat /\ \A r \in DOMAIN goals : goals[r].evidence.generation \in 0..taken
  BY DEF GoalIInv, GoalTypeOK
<1>2. Upstream(g) \subseteq DOMAIN goals
  BY DEF Upstream, Children, GoalIInv, LedgerIsSound
<1>3. /\ Evidence(g, passed, at).generation = taken + 1 /\ Evidence(g, passed, at).passed = passed
      /\ Evidence(g, passed, at).revision = at /\ Evidence(g, passed, at).upstream = Proofs(g)
  BY DEF Evidence
<1>4. \A r \in DOMAIN Proofs(g) : Proofs(g)[r] < taken + 1
  BY <1>1, <1>2 DEF Proofs
<1> DEFINE row == [status |-> status, evidence |-> Evidence(g, passed, at)]
<1>5. row.status = status /\ row.evidence = Evidence(g, passed, at)
  OBVIOUS
<1> HIDE DEF row
<1>6. Sound(g, row, DOMAIN goals, taken + 1, observed)
  BY <1>1, <1>3, <1>4, <1>5 DEF Sound, Children
<1>7. QED
  BY <1>3, <1>6 DEF row

LEMMA CompletedIsSound ==
    ASSUME GoalIInv, NEW g \in DOMAIN goals
    PROVE  /\ Completed(g).status \in Statuses
           /\ \/ Completed(g).evidence.generation \in 0..taken /\ Sound(g, Completed(g), DOMAIN goals, taken, observed)
              \/ Completed(g).evidence.generation = taken + 1 /\ Sound(g, Completed(g), DOMAIN goals, taken + 1, observed)
<1>1. Sound(g, goals[g], DOMAIN goals, taken, observed) /\ "completed" \in Statuses
  BY DEF GoalIInv, LedgerIsSound, Statuses
<1>2. CASE Children(g) # {} /\ ~Current(goals, g)
  <2>1. Completed(g) = [status |-> "completed", evidence |-> Evidence(g, TRUE, revision)]
    BY <1>2 DEF Completed
  <2>2. QED
    <3>1. /\ Evidence(g, TRUE, revision).generation = taken + 1
          /\ Sound(g, [status |-> "completed", evidence |-> Evidence(g, TRUE, revision)], DOMAIN goals, taken + 1, observed)
      BY <1>1, <1>2, EvidenceIsSound
    <3>2. Completed(g).status = "completed" /\ Completed(g).evidence = Evidence(g, TRUE, revision)
      BY <2>1
    <3>3. QED
      BY <1>1, <2>1, <3>1, <3>2
<1>3. CASE ~(Children(g) # {} /\ ~Current(goals, g))
  <2>1. Completed(g) = [status |-> "completed", evidence |-> goals[g].evidence]
    BY <1>3 DEF Completed
  <2>2. QED
    BY <1>1, <2>1 DEF Sound
<1>4. QED
  BY <1>2, <1>3

LEMMA RunEvidenceIsSound ==
    ASSUME GoalIInv, NEW g \in DOMAIN goals
    PROVE  LET row == [status |-> "open", evidence |-> RunEvidence(g)]
           IN  \/ row.evidence.generation \in 0..taken /\ Sound(g, row, DOMAIN goals, taken, observed)
               \/ row.evidence.generation = taken + 1 /\ Sound(g, row, DOMAIN goals, taken + 1, observed)
<1> DEFINE where == {results[g][t].at : t \in DOMAIN results[g]}
           passed == \A t \in DOMAIN results[g] : results[g][t].passed
<1>1. g \in Goals /\ taken \in Nat /\ "open" \in Statuses
  BY DEF GoalIInv, GoalTypeOK, Statuses
<1>2. CASE \E r \in Revisions : where = {r}
  <2> DEFINE at == CHOOSE r \in Revisions : where = {r}
  <2>1. at \in Revisions /\ where = {at}
    BY <1>2
  <2>2. RunEvidence(g) = Evidence(g, passed, at)
    BY <1>2 DEF RunEvidence
  <2> HIDE DEF at
  <2>3. PICK t \in DOMAIN results[g] : results[g][t].at = at
    BY <2>1
  <2>4. passed => <<g, at>> \in observed
    BY <1>1, <2>1, <2>3 DEF GoalIInv, RunsAreSound
  <2>5. passed \in BOOLEAN
    OBVIOUS
  <2> HIDE DEF passed
  <2>6. QED
    BY <1>1, <2>2, <2>4, <2>5, EvidenceIsSound
<1>3. CASE ~\E r \in Revisions : where = {r}
  <2>1. RunEvidence(g) = NoEvidence
    BY <1>3 DEF RunEvidence
  <2>2. QED
    BY <1>1, <2>1, NothingIsSound DEF NoEvidence
<1>4. QED
  BY <1>2, <1>3

LEMMA CreateStep == ASSUME GoalIInv, NEW g \in Goals, Create(g) PROVE GoalIInv'
<1> DEFINE row == [status |-> "open", evidence |-> NoEvidence]
<1>1. /\ g \in Goals \ DOMAIN goals
      /\ DependsOn[g] \subseteq DOMAIN goals
      /\ goals' = [u \in DOMAIN goals \union {g} |-> IF u = g THEN row ELSE goals[u]]
      /\ UNCHANGED <<revision, agent, testing, results, writing, taken, edits, calls, observed>>
  BY DEF Create
<1>2. /\ DOMAIN goals' = DOMAIN goals \union {g} /\ goals'[g] = row
      /\ \A u \in DOMAIN goals : goals'[u] = goals[u]
  BY <1>1
<1>3. taken \in Nat /\ Sound(g, row, DOMAIN goals', taken, observed)
  BY NothingIsSound DEF GoalIInv, GoalTypeOK, Statuses
<1>4. GoalTypeOK'
  <2>1. row.status \in Statuses /\ row.evidence.generation \in 0..taken
    BY <1>3 DEF Sound
  <2> HIDE DEF row
  <2>2. \A u \in DOMAIN goals' : goals'[u].status \in Statuses /\ goals'[u].evidence.generation \in 0..taken
    BY <1>2, <2>1 DEF GoalIInv, GoalTypeOK
  <2>3. QED
    BY <1>1, <1>2, <2>2 DEF GoalIInv, GoalTypeOK
<1> HIDE DEF row
<1>5. LedgerIsSound'
  <2>1. ASSUME NEW u \in DOMAIN goals
        PROVE  DependsOn[u] \subseteq DOMAIN goals' /\ Sound(u, goals'[u], DOMAIN goals', taken, observed)
    BY <1>2, <1>3, SoundStays DEF GoalIInv, LedgerIsSound
  <2>2. QED
    BY <1>1, <1>2, <1>3, <2>1 DEF LedgerIsSound
<1>6. WritesAreSound'
  <2>1. ASSUME NEW w \in Writers, writing[w] # NotWriting
        PROVE  /\ writing[w].goal \in DOMAIN goals' /\ writing[w].next \in Phases
               /\ Sound(writing[w].goal, writing[w].row, DOMAIN goals', taken, observed)
    BY <1>2, <1>3, <2>1, SoundStays DEF GoalIInv, WritesAreSound
  <2>2. QED
    BY <1>1, <2>1 DEF WritesAreSound
<1>7. RunsAreSound'
  BY <1>1, <1>2 DEF GoalIInv, RunsAreSound
<1>8. QED
  BY <1>4, <1>5, <1>6, <1>7 DEF GoalIInv

LEMMA ClientUpdateStep ==
    ASSUME GoalIInv, NEW w \in Writers, NEW g \in Goals, NEW status \in {"open", "running", "completed"},
           ClientUpdate(w, g, status)
    PROVE  GoalIInv'
<1>1. /\ g \in DOMAIN goals /\ calls < MaxGoalCalls /\ calls' = calls + 1
      /\ UNCHANGED <<goals, revision, agent, testing, results, edits, observed>>
  BY DEF ClientUpdate
<1>2. GoalTypeOK /\ taken \in Nat
  BY DEF GoalIInv, GoalTypeOK
<1>3. /\ agent' \in [Goals -> Phases] /\ agent[g] \in Phases /\ calls' \in 0..MaxGoalCalls
      /\ DOMAIN results' = Goals /\ \A u \in Goals : agent'[u] # "none" => u \in DOMAIN goals
  BY <1>1, <1>2, GoalAssumption DEF GoalIInv, GoalTypeOK, RunsAreSound
<1>4. ASSUME NEW to \in Statuses, BeginUpdate(w, g, Reopened(g, to), agent[g])
      PROVE  GoalIInv'
  <2> DEFINE row == Reopened(g, to)
  <2>1. /\ row.status \in Statuses /\ row.evidence.generation \in 0..taken
        /\ Sound(g, row, DOMAIN goals, taken, observed)
    BY <1>1, ReopenedIsSound
  <2> HIDE DEF row
  <2>2. row.evidence.generation \in Nat
    BY <1>2, <2>1
  <2>3. QED
    BY <1>1, <1>3, <1>4, <2>1, <2>2, UpdateBegins DEF row
<1>5. ASSUME BeginUpdate(w, g, Completed(g), agent[g]) PROVE GoalIInv'
  <2>1. /\ Completed(g).status \in Statuses
        /\ \/ Completed(g).evidence.generation \in 0..taken /\ Sound(g, Completed(g), DOMAIN goals, taken, observed)
           \/ Completed(g).evidence.generation = taken + 1 /\ Sound(g, Completed(g), DOMAIN goals, taken + 1, observed)
    BY <1>1, CompletedIsSound
  <2>2. Completed(g).evidence.generation \in Nat
    <3>1. \A n : n \in 0..taken \/ n = taken + 1 => n \in Nat
      BY <1>2
    <3>2. QED
      BY <2>1, <3>1
  <2>3. QED
    BY <1>1, <1>3, <1>5, <2>1, <2>2, UpdateBegins
<1>6. QED
  BY <1>4, <1>5 DEF ClientUpdate, Statuses

(* An agent that begins an update waits, and keeps its results or drops     *)
(* them.                                                                    *)
LEMMA AgentUpdates ==
    ASSUME GoalIInv, NEW w \in Writers, NEW g \in Goals, g \in DOMAIN goals, NEW row, NEW next \in Phases,
           BeginUpdate(w, g, row, next), row.status \in Statuses,
           \/ row.evidence.generation \in 0..taken /\ Sound(g, row, DOMAIN goals, taken, observed)
           \/ row.evidence.generation = taken + 1 /\ Sound(g, row, DOMAIN goals, taken + 1, observed),
           UNCHANGED <<goals, revision, testing, edits, observed>>,
           agent' = [agent EXCEPT ![g] = "waiting"], results' \in {results, [results EXCEPT ![g] = <<>>]},
           calls' \in 0..MaxGoalCalls
    PROVE  GoalIInv'
<1>1. GoalTypeOK /\ taken \in Nat
  BY DEF GoalIInv, GoalTypeOK
<1>2. /\ agent' \in [Goals -> Phases] /\ DOMAIN results' = Goals
      /\ \A u \in Goals : results'[u] = results[u] \/ results'[u] = <<>>
  BY <1>1 DEF GoalTypeOK, Phases
<1>3. \A u \in Goals : agent'[u] # "none" => u \in DOMAIN goals
  BY <1>1 DEF GoalIInv, GoalTypeOK, RunsAreSound
<1>4. row.evidence.generation \in Nat
  BY <1>1
<1>5. QED
  BY <1>2, <1>3, <1>4, UpdateBegins

LEMMA StartRunStep == ASSUME GoalIInv, NEW w \in Writers, NEW g \in Goals, StartRun(w, g) PROVE GoalIInv'
<1>1. /\ g \in DOMAIN goals /\ BeginUpdate(w, g, Reopened(g, "running"), "running")
      /\ agent' = [agent EXCEPT ![g] = "waiting"] /\ calls < MaxGoalCalls /\ calls' = calls + 1
      /\ UNCHANGED <<goals, revision, testing, results, edits, observed>>
  BY DEF StartRun
<1>2. calls' \in 0..MaxGoalCalls /\ "running" \in Statuses /\ "running" \in Phases
  BY <1>1, GoalAssumption DEF GoalIInv, GoalTypeOK, Statuses, Phases
<1>3. /\ Reopened(g, "running").status \in Statuses /\ Reopened(g, "running").evidence.generation \in 0..taken
      /\ Sound(g, Reopened(g, "running"), DOMAIN goals, taken, observed)
  BY <1>1, <1>2, ReopenedIsSound
<1>4. QED
  BY <1>1, <1>2, <1>3, AgentUpdates

LEMMA FinishRunStep ==
    ASSUME GoalIInv, NEW w \in Writers, NEW g \in Goals, NEW completed \in BOOLEAN, FinishRun(w, g, completed)
    PROVE  GoalIInv'
<1> DEFINE row == [status |-> "open", evidence |-> RunEvidence(g)]
           next == IF completed /\ row.evidence.passed THEN "finishing" ELSE "none"
<1>1. /\ agent[g] = "running" /\ BeginUpdate(w, g, row, next)
      /\ agent' = [agent EXCEPT ![g] = "waiting"] /\ results' = [results EXCEPT ![g] = <<>>]
      /\ UNCHANGED <<goals, revision, testing, edits, calls, observed>>
  BY DEF FinishRun
<1>2. g \in DOMAIN goals /\ calls' \in 0..MaxGoalCalls /\ next \in Phases /\ row.status \in Statuses
  BY <1>1 DEF GoalIInv, GoalTypeOK, RunsAreSound, Statuses, Phases
<1>3. \/ row.evidence.generation \in 0..taken /\ Sound(g, row, DOMAIN goals, taken, observed)
      \/ row.evidence.generation = taken + 1 /\ Sound(g, row, DOMAIN goals, taken + 1, observed)
  BY <1>2, RunEvidenceIsSound
<1> HIDE DEF row, next
<1>4. QED
  BY <1>1, <1>2, <1>3, AgentUpdates

LEMMA CompleteRunStep == ASSUME GoalIInv, NEW w \in Writers, NEW g \in Goals, CompleteRun(w, g) PROVE GoalIInv'
<1> DEFINE row == IF MayComplete(g) THEN Completed(g) ELSE Reopened(g, "open")
<1>1. /\ agent[g] = "finishing" /\ BeginUpdate(w, g, row, "none")
      /\ agent' = [agent EXCEPT ![g] = "waiting"]
      /\ UNCHANGED <<goals, revision, testing, results, edits, calls, observed>>
  BY DEF CompleteRun
<1>2. g \in DOMAIN goals /\ calls' \in 0..MaxGoalCalls /\ "none" \in Phases /\ "open" \in Statuses
  BY <1>1 DEF GoalIInv, GoalTypeOK, RunsAreSound, Statuses, Phases
<1>3. /\ row.status \in Statuses
      /\ \/ row.evidence.generation \in 0..taken /\ Sound(g, row, DOMAIN goals, taken, observed)
         \/ row.evidence.generation = taken + 1 /\ Sound(g, row, DOMAIN goals, taken + 1, observed)
  BY <1>2, CompletedIsSound, ReopenedIsSound
<1> HIDE DEF row
<1>4. QED
  BY <1>1, <1>2, <1>3, AgentUpdates

LEMMA WriteGoalStep == ASSUME GoalIInv, NEW w \in Writers, WriteGoal(w) PROVE GoalIInv'
<1> DEFINE g == writing[w].goal
           row == writing[w].row
<1>1. /\ writing[w] # NotWriting /\ goals' = [goals EXCEPT ![g] = row]
      /\ agent' = [agent EXCEPT ![g] = IF @ = "waiting" THEN writing[w].next ELSE @]
      /\ writing' = [writing EXCEPT ![w] = NotWriting]
      /\ UNCHANGED <<revision, testing, results, taken, edits, calls, observed>>
  BY DEF WriteGoal
<1>2. /\ g \in DOMAIN goals /\ g \in Goals /\ writing[w].next \in Phases
      /\ Sound(g, row, DOMAIN goals, taken, observed) /\ GoalTypeOK
  BY <1>1 DEF GoalIInv, GoalTypeOK, WritesAreSound
<1>3. /\ DOMAIN goals' = DOMAIN goals /\ goals'[g] = row
      /\ \A u \in DOMAIN goals \ {g} : goals'[u] = goals[u]
      /\ DOMAIN writing' = Writers /\ writing'[w] = NotWriting
      /\ \A v \in Writers \ {w} : writing'[v] = writing[v]
  BY <1>1, <1>2 DEF GoalTypeOK
<1>4. agent' \in [Goals -> Phases] /\ \A u \in Goals : agent'[u] # "none" => u \in DOMAIN goals
  BY <1>1, <1>2 DEF GoalIInv, GoalTypeOK, RunsAreSound
<1>5. GoalTypeOK'
  BY <1>1, <1>2, <1>3, <1>4 DEF GoalTypeOK, Sound, NotWriting
<1>6. LedgerIsSound'
  BY <1>1, <1>2, <1>3 DEF GoalIInv, LedgerIsSound
<1>7. WritesAreSound'
  BY <1>1, <1>3 DEF GoalIInv, WritesAreSound
<1>8. RunsAreSound'
  BY <1>1, <1>3, <1>4 DEF GoalIInv, RunsAreSound
<1>9. QED
  BY <1>5, <1>6, <1>7, <1>8 DEF GoalIInv

LEMMA StartTestStep == ASSUME GoalIInv, NEW g \in Goals, StartTest(g) PROVE GoalIInv'
<1>1. /\ agent[g] = "running" /\ agent' = [agent EXCEPT ![g] = "testing"]
      /\ testing' = [testing EXCEPT ![g] = revision]
      /\ UNCHANGED <<goals, revision, results, writing, taken, edits, calls, observed>>
  BY DEF StartTest
<1>2. GoalTypeOK'
  BY <1>1 DEF GoalIInv, GoalTypeOK, Phases
<1>3. LedgerIsSound' /\ WritesAreSound' /\ RunsAreSound'
  BY <1>1 DEF GoalIInv, GoalTypeOK, LedgerIsSound, WritesAreSound, RunsAreSound
<1>4. QED
  BY <1>2, <1>3 DEF GoalIInv

LEMMA EndTestStep ==
    ASSUME GoalIInv, NEW g \in Goals, NEW t \in Tests, NEW passed \in BOOLEAN, EndTest(g, t, passed)
    PROVE  GoalIInv'
<1> DEFINE at == IF testing[g] = revision THEN revision ELSE NOGOAL
           record == [n \in DOMAIN results[g] \union {t} |-> IF n = t THEN [passed |-> passed, at |-> at] ELSE results[g][n]]
<1>1. /\ agent[g] = "testing" /\ agent' = [agent EXCEPT ![g] = "running"]
      /\ observed' = IF passed /\ testing[g] = revision THEN observed \union {<<g, revision>>} ELSE observed
      /\ testing' = [testing EXCEPT ![g] = NOGOAL]
      /\ UNCHANGED <<goals, revision, writing, taken, edits, calls>>
  BY DEF EndTest
<1>2. results' = [results EXCEPT ![g] = record]
  BY DEF EndTest, Record
<1>3. GoalTypeOK /\ taken \in Nat /\ observed \subseteq observed'
  BY <1>1 DEF GoalIInv, GoalTypeOK
<1>4. /\ DOMAIN results' = Goals /\ results'[g] = record
      /\ \A u \in Goals \ {g} : results'[u] = results[u]
  BY <1>2, <1>3 DEF GoalTypeOK
<1>5. GoalTypeOK'
  BY <1>1, <1>3, <1>4 DEF GoalTypeOK, Phases
<1>6. LedgerIsSound'
  BY <1>1, <1>3, SoundStays DEF GoalIInv, LedgerIsSound
<1>7. WritesAreSound'
  <2>1. ASSUME NEW w \in Writers, writing[w] # NotWriting
        PROVE  Sound(writing[w].goal, writing[w].row, DOMAIN goals, taken, observed')
    BY <1>3, <2>1, SoundStays DEF GoalIInv, WritesAreSound
  <2>2. QED
    BY <1>1, <2>1 DEF GoalIInv, WritesAreSound
<1>8. RunsAreSound'
  <2>1. ASSUME NEW n \in DOMAIN record, record[n].passed, record[n].at \in Revisions
        PROVE  <<g, record[n].at>> \in observed'
    <3>1. CASE n = t
      BY <1>1, <2>1, <3>1, GoalAssumption
    <3>2. CASE n # t
      BY <1>3, <2>1, <3>2 DEF GoalIInv, RunsAreSound
    <3>3. QED
      BY <3>1, <3>2
  <2> HIDE DEF record, at
  <2>2. \A u \in Goals : \A n \in DOMAIN results'[u] :
            results'[u][n].passed /\ results'[u][n].at \in Revisions => <<u, results'[u][n].at>> \in observed'
    BY <1>3, <1>4, <2>1 DEF GoalIInv, RunsAreSound
  <2>3. \A u \in Goals : agent'[u] # "none" => u \in DOMAIN goals
    BY <1>1, <1>3 DEF GoalIInv, GoalTypeOK, RunsAreSound
  <2>4. QED
    BY <1>1, <2>2, <2>3 DEF RunsAreSound
<1>9. QED
  BY <1>5, <1>6, <1>7, <1>8 DEF GoalIInv

LEMMA GoalStep == GoalIInv /\ [GoalNext]_goalVars => GoalIInv'
<1> SUFFICES ASSUME GoalIInv, [GoalNext]_goalVars PROVE GoalIInv'
  OBVIOUS
<1>1. CASE UNCHANGED goalVars
  BY <1>1 DEF GoalIInv, GoalTypeOK, LedgerIsSound, WritesAreSound, RunsAreSound, goalVars
<1>2. ASSUME NEW g \in Goals, Create(g) \/ StartTest(g) PROVE GoalIInv'
  BY <1>2, CreateStep, StartTestStep
<1>3. ASSUME NEW g \in Goals, NEW t \in Tests, NEW passed \in BOOLEAN, EndTest(g, t, passed) PROVE GoalIInv'
  BY <1>3, EndTestStep
<1>4. ASSUME NEW g \in Goals, NEW w \in Writers, NEW status \in {"open", "running", "completed"}, ClientUpdate(w, g, status)
      PROVE  GoalIInv'
  BY <1>4, ClientUpdateStep
<1>5. ASSUME NEW g \in Goals, NEW w \in Writers, StartRun(w, g) \/ CompleteRun(w, g) PROVE GoalIInv'
  BY <1>5, StartRunStep, CompleteRunStep
<1>6. ASSUME NEW g \in Goals, NEW w \in Writers, NEW completed \in BOOLEAN, FinishRun(w, g, completed) PROVE GoalIInv'
  BY <1>6, FinishRunStep
<1>7. ASSUME NEW w \in Writers, WriteGoal(w) PROVE GoalIInv'
  BY <1>7, WriteGoalStep
<1>8. ASSUME NEW r \in Revisions, EditWorkspace(r) PROVE GoalIInv'
  BY <1>8, GoalAssumption DEF EditWorkspace, GoalIInv, GoalTypeOK, LedgerIsSound, WritesAreSound, RunsAreSound
<1>9. QED
  BY <1>1, <1>2, <1>3, <1>4, <1>5, <1>6, <1>7, <1>8 DEF GoalNext

(* The types of the rows, of the agents and of what they record.            *)
THEOREM GoalsAreTyped == GoalSpec => []GoalTypeOK
<1>1. GoalInit => GoalIInv
  BY GoalsInitially
<1>2. GoalIInv /\ [GoalNext]_goalVars => GoalIInv'
  BY GoalStep
<1>3. GoalIInv => GoalTypeOK
  BY DEF GoalIInv
<1>4. QED
  BY <1>1, <1>2, <1>3, PTL DEF GoalSpec

(* What the ledger shows as completed and not stale was tested on the       *)
(* workspace as it is, and its evidence is younger than all it rests upon,  *)
(* for any goals, processes, tests and edits, and whatever another process  *)
(* writes between the reads of an update and its write (GoalLedger.update,  *)
(* finish and _current).                                                    *)
THEOREM GoalsRestOnTests == GoalSpec => []VerifiedGoalsAreTested
<1>1. GoalInit => GoalIInv
  BY GoalsInitially
<1>2. GoalIInv /\ [GoalNext]_goalVars => GoalIInv'
  BY GoalStep
<1>3. GoalIInv => VerifiedGoalsAreTested
  BY SoundLedgersAreTested
<1>4. QED
  BY <1>1, <1>2, <1>3, PTL DEF GoalSpec
=============================================================================
