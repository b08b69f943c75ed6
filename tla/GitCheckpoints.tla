--------------------------- MODULE GitCheckpoints ---------------------------
(***************************************************************************)
(* Checkpoints of a git working tree and their rollback (git/checkpoints). *)
(* CheckpointManager saves a diff of the tracked files against HEAD and a  *)
(* copy of each untracked one; a rollback is four commands, each of which  *)
(* may fail or be the last one before a crash, and may be asked for again. *)
(*                                                                         *)
(* Abstractions.  The content of a file is a version, ABSENT if it is not  *)
(* there.  A checkpoint is taken at one moment.  Git is modelled as far as *)
(* the four commands use it: HEAD, the index, the working tree and the    *)
(* files that ignore rules hide.  The repository has a first commit, and   *)
(* the state directory, which ignores itself, is left out.                 *)
(***************************************************************************)
EXTENDS Naturals, Sequences

CONSTANTS
    WorkFiles,
    Quoted,     \* those whose name git ls-files prints in quotes
    MaxWrites,   \* bound: versions written to files
    MaxSaved    \* bound: checkpoints

ASSUME GitAssumption == Quoted \subseteq WorkFiles /\ MaxWrites \in Nat \ {0} /\ MaxSaved \in Nat

ABSENT == 0

VARIABLES
    head, staged, tree,  \* a version for each file
    ignored,            \* files that an ignore rule hides while untracked
    written,              \* versions written
    saved,              \* checkpoints: HEAD, the patch, the untracked copies, the rules
    rollback,           \* the rollback that runs: its checkpoint, 0 for none, and its next command
    copies,             \* the untracked copies it has still to write back
    restored,           \* history: the checkpoint the tree was rolled back to, 0 if touched since
    everIgnored         \* history: files that a rule ever hid

gitVars == <<head, staged, tree, ignored, written, saved, rollback, copies, restored, everIgnored>>
repository == <<head, staged, tree, ignored>>

Content == [WorkFiles -> 0..MaxWrites]
Idle == [of |-> 0, next |-> "none"]

GitInit ==
    /\ head \in [WorkFiles -> {0, 1}] /\ staged = head /\ tree = head
    /\ ignored = {} /\ everIgnored = {} /\ written = 1
    /\ saved = <<>> /\ rollback = Idle /\ copies = {} /\ restored = 0

TrackedIn(i) == {f \in WorkFiles : i[f] # ABSENT}
\* git ls-files --others --exclude-standard
Untracked == {f \in WorkFiles \ (TrackedIn(staged) \union ignored) : tree[f] # ABSENT}
-----------------------------------------------------------------------------
(* The agents and the user.                                                 *)
Touch == restored' = 0 /\ UNCHANGED <<saved, rollback, copies>>

EditFile(f) ==
    /\ written < MaxWrites /\ written' = written + 1
    /\ tree' = [tree EXCEPT ![f] = written + 1]
    /\ Touch /\ UNCHANGED <<head, staged, ignored, everIgnored>>

DeleteFile(f) ==
    /\ tree[f] # ABSENT /\ tree' = [tree EXCEPT ![f] = ABSENT]
    /\ Touch /\ UNCHANGED <<head, staged, ignored, written, everIgnored>>

\* git add, git rm --cached
Stage(f) ==
    /\ staged' \in {[staged EXCEPT ![f] = tree[f]], [staged EXCEPT ![f] = ABSENT]}
    /\ Touch /\ UNCHANGED <<head, tree, ignored, written, everIgnored>>

Commit ==
    /\ head' = staged
    /\ Touch /\ UNCHANGED <<staged, tree, ignored, written, everIgnored>>

\* A line in an ignore file.
Ignore(f) ==
    /\ ignored' = ignored \union {f} /\ everIgnored' = everIgnored \union {f}
    /\ Touch /\ UNCHANGED <<head, staged, tree, written>>
-----------------------------------------------------------------------------
\* A mutation: the diff is taken against the index.
Create_Unstaged ==
    /\ rollback = Idle /\ Len(saved) < MaxSaved
    /\ LET changed == {f \in TrackedIn(staged) : tree[f] # staged[f]}
       IN  saved' = Append(saved,
               [head |-> head, patch |-> [f \in changed |-> tree[f]],
                copies |-> [f \in Untracked \ Quoted |-> tree[f]],
                rules |-> ignored, was |-> [f \in TrackedIn(staged) \union (WorkFiles \ ignored) |-> tree[f]]])
    /\ UNCHANGED <<repository, written, rollback, copies, restored, everIgnored>>

(* CheckpointManager.create.  The patch is the difference between HEAD and  *)
(* the tracked files, where a file that left the index is deleted.  An      *)
(* untracked file whose name was printed in quotes is not found under that  *)
(* name and not copied.  "was" is history: the tree, but for what is hidden.*)
CreateCheckpoint ==
    /\ rollback = Idle /\ Len(saved) < MaxSaved
    /\ LET now == [f \in WorkFiles |-> IF staged[f] = ABSENT THEN ABSENT ELSE tree[f]]
       IN  saved' = Append(saved,
               [head |-> head,
                patch |-> [f \in {g \in WorkFiles : now[g] # head[g]} |-> now[f]],
                copies |-> [f \in Untracked \ Quoted |-> tree[f]],
                rules |-> ignored,
                was |-> [f \in TrackedIn(staged) \union (WorkFiles \ ignored) |-> tree[f]]])
    /\ UNCHANGED <<repository, written, rollback, copies, restored, everIgnored>>

StartRollback(k) ==
    /\ rollback = Idle /\ k \in DOMAIN saved
    /\ rollback' = [of |-> k, next |-> "reset"] /\ restored' = 0
    /\ UNCHANGED <<repository, written, saved, copies, everIgnored>>

\* The command whose turn it is succeeds, and the next one follows.
Command(name, next) == rollback.next = name /\ rollback' = [rollback EXCEPT !.next = next]

(* git reset --hard: files of the index that the commit does not have go.   *)
(* A rule in a tracked file is reset with it.                               *)
Reset ==
    /\ Command("reset", "clean")
    /\ LET to == saved[rollback.of].head
       IN  /\ head' = to /\ staged' = to
           /\ tree' = [f \in WorkFiles |->
                         IF f \in TrackedIn(to) \union TrackedIn(staged) THEN to[f] ELSE tree[f]]
    /\ ignored' \in {ignored, saved[rollback.of].rules}
    /\ UNCHANGED <<written, saved, copies, restored, everIgnored>>

(* git clean -fd: what is hidden stays, and a new ignore file is removed.   *)
Clean ==
    /\ Command("clean", "apply")
    /\ tree' = [f \in WorkFiles |-> IF f \in Untracked THEN ABSENT ELSE tree[f]]
    /\ ignored' = saved[rollback.of].rules
    /\ UNCHANGED <<head, staged, written, saved, copies, restored, everIgnored>>

(* git apply changes all files of the patch or fails.                       *)
Apply ==
    /\ LET patch == saved[rollback.of].patch
       IN  /\ Command("apply", "copy")
           /\ \A f \in DOMAIN patch : tree[f] = head[f]
           /\ tree' = [f \in WorkFiles |-> IF f \in DOMAIN patch THEN patch[f] ELSE tree[f]]
    /\ copies' = DOMAIN saved[rollback.of].copies
    /\ UNCHANGED <<head, staged, ignored, written, saved, restored, everIgnored>>

CopyBack(f) ==
    /\ rollback.next = "copy" /\ f \in copies /\ copies' = copies \ {f}
    /\ tree' = [tree EXCEPT ![f] = saved[rollback.of].copies[f]]
    /\ UNCHANGED <<head, staged, ignored, written, saved, rollback, restored, everIgnored>>

EndRollback ==
    /\ rollback.next = "copy" /\ copies = {}
    /\ rollback' = Idle /\ restored' = rollback.of
    /\ UNCHANGED <<repository, written, saved, copies, everIgnored>>

(* A command fails, or the process dies: the tree is left between.          *)
BreakRollback ==
    /\ rollback # Idle /\ rollback' = Idle /\ copies' = {}
    /\ UNCHANGED <<repository, written, saved, restored, everIgnored>>
-----------------------------------------------------------------------------
GitNext ==
    \/ /\ rollback = Idle
       /\ \/ \E f \in WorkFiles : EditFile(f) \/ DeleteFile(f) \/ Stage(f) \/ Ignore(f)
          \/ Commit
    \/ CreateCheckpoint \/ \E k \in DOMAIN saved : StartRollback(k)
    \/ Reset \/ Clean \/ Apply \/ \E f \in copies : CopyBack(f)
    \/ EndRollback \/ BreakRollback

GitSpec == GitInit /\ [][GitNext]_gitVars
-----------------------------------------------------------------------------
SomeContent == UNION {[files -> 0..MaxWrites] : files \in SUBSET WorkFiles}

GitTypeOK ==
    /\ {head, staged, tree} \subseteq Content /\ ignored \subseteq everIgnored /\ everIgnored \subseteq WorkFiles
    /\ written \in 1..MaxWrites /\ restored \in 0..Len(saved) /\ copies \subseteq WorkFiles
    /\ saved \in Seq([head : Content, patch : SomeContent, copies : SomeContent,
                      rules : SUBSET WorkFiles, was : SomeContent])
    /\ rollback \in [of : 0..Len(saved), next : {"none", "reset", "clean", "apply", "copy"}]

\* File f is as it was when checkpoint k was taken.
Back(f, k) == f \in DOMAIN saved[k].was => tree[f] = saved[k].was[f]

(* A rollback that returns has put back each file of the checkpoint that    *)
(* git prints by its plain name, and has removed each one made since unless *)
(* an ignore rule hid it: whatever was edited, staged, unstaged or          *)
(* committed in between, and however many rollbacks broke off before.       *)
RollbackRestoresTheTree ==
    restored # 0 =>
        \A f \in WorkFiles \ Quoted :
            Back(f, restored) \/ (f \in everIgnored /\ saved[restored].was[f] = ABSENT)

(* "Save tracked changes and untracked files", says the checkpoint: every   *)
(* untracked file that it saw is there again after a rollback.              *)
UntrackedFilesComeBack ==
    restored # 0 =>
        \A f \in DOMAIN saved[restored].was :
            saved[restored].was[f] # ABSENT => tree[f] # ABSENT
=============================================================================
