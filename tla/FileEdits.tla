----------------------------- MODULE FileEdits -----------------------------
(***************************************************************************)
(* The files that tools write, their snapshots and the undo of one call:   *)
(* ToolRegistry.execute_tool (tools/base.py) around the tools of           *)
(* tools/filesystem.py, FileSnapshots (core/snapshots.py) and its restore  *)
(* from the interface (harness_api.py), beside a user who edits the same   *)
(* files.  The engine runs either its agents or a restore, and may be      *)
(* killed at any step.  Agents that run at the same time write different   *)
(* files, but the thread of a cancelled call may still be writing.         *)
(*                                                                         *)
(* Abstractions.  The content of a file is a version: 0 in the beginning,  *)
(* a new one for each write by a tool or the user; a missing file is such  *)
(* a version too.  Hashes do not collide.  A capture and a completion read *)
(* their files at one moment.  Limits on the size of snapshots are left    *)
(* out: past them a capture raises and the tool is not run.                *)
(***************************************************************************)
EXTENDS Integers, Sequences, FiniteSets

CONSTANTS
    Files,
    Agents,
    MaxCalls,      \* bound: calls of tools
    MaxUserEdits,  \* bound: edits of the user
    MaxKills       \* bound: the engine killed

ASSUME FileAssumption ==
    /\ MaxCalls \in Nat /\ MaxUserEdits \in Nat /\ MaxKills \in Nat

VARIABLES
    disk,       \* the version of each file
    versions,   \* versions written
    snapshots,  \* the snapshot of each call
    call,       \* per agent: its snapshot, where it is, files left to write
    restore,    \* the restore that runs: its snapshot, files to check and to replace
    userEdits,  \* history: versions the user wrote
    exposed,    \* history: those written to a file in the hands of a tool or of a restore
    overwritten, \* history: versions that a restore replaced
    kills

fileVars == <<disk, versions, snapshots, call, restore, userEdits, exposed, overwritten, kills>>

NoCall == [snapshot |-> 0, at |-> "idle", left |-> {}]
NoRestore == [snapshot |-> 0, check |-> {}, replace |-> {}]

FileInit ==
    /\ disk = [f \in Files |-> 0] /\ versions = 0
    /\ snapshots = <<>>
    /\ call = [a \in Agents |-> NoCall] /\ restore = NoRestore
    /\ userEdits = {} /\ exposed = {} /\ overwritten = {} /\ kills = 0

Paths(k) == DOMAIN snapshots[k].before
-----------------------------------------------------------------------------
(* execute_tool: FileSnapshots.capture before the tool is run.              *)
Capture(a, paths) ==
    /\ call[a] = NoCall /\ Len(snapshots) < MaxCalls
    /\ restore = NoRestore
    /\ paths # {} /\ \A b \in Agents : call[b].at = "writing" => paths \intersect Paths(call[b].snapshot) = {}
    /\ LET kept == [f \in paths |-> disk[f]]
       IN  snapshots' = Append(snapshots, [status |-> "captured", before |-> kept, after |-> kept])
    /\ call' = [call EXCEPT ![a] = [snapshot |-> Len(snapshots) + 1, at |-> "writing", left |-> paths]]
    /\ UNCHANGED <<disk, versions, restore, userEdits, exposed, overwritten, kills>>

(* The tool, or its detached thread, writes one file.                       *)
WriteFile(a, f) ==
    /\ call[a].at \in {"writing", "detached"} /\ f \in call[a].left
    /\ disk' = [disk EXCEPT ![f] = versions + 1] /\ versions' = versions + 1
    /\ call' = [call EXCEPT ![a].left = @ \ {f}]
    /\ UNCHANGED <<snapshots, restore, userEdits, exposed, overwritten, kills>>

(* apply_patch fails or is cancelled after some files: their backups are   *)
(* written back before the call ends.                                       *)
RollBackPatch(a) ==
    /\ call[a].at = "writing"
    /\ disk' = [f \in Files |-> IF f \in Paths(call[a].snapshot)
                                THEN snapshots[call[a].snapshot].before[f] ELSE disk[f]]
    /\ call' = [call EXCEPT ![a].left = {}]
    /\ UNCHANGED <<versions, snapshots, restore, userEdits, exposed, overwritten, kills>>

(* The tool returns, successful or not: FileSnapshots.complete.             *)
Complete(a) ==
    /\ call[a].at = "writing" /\ call' = [call EXCEPT ![a] = NoCall]
    /\ LET s == snapshots[call[a].snapshot]
       IN  snapshots' = [snapshots EXCEPT ![call[a].snapshot] =
            [s EXCEPT !.status = "completed", !.after = [f \in DOMAIN s.after |-> disk[f]]]]
    /\ UNCHANGED <<disk, versions, restore, userEdits, exposed, overwritten, kills>>

(* The call is cancelled or raises: its snapshot is not completed, and the  *)
(* thread that writes goes on.                                              *)
CancelCall(a) ==
    /\ call[a].at = "writing" /\ call' = [call EXCEPT ![a].at = "detached"]
    /\ UNCHANGED <<disk, versions, snapshots, restore, userEdits, exposed, overwritten, kills>>

EndThread(a) ==
    /\ call[a].at = "detached" /\ call' = [call EXCEPT ![a] = NoCall]
    /\ UNCHANGED <<disk, versions, snapshots, restore, userEdits, exposed, overwritten, kills>>

InHand(f) ==
    \/ \E a \in Agents : call[a] # NoCall /\ f \in Paths(call[a].snapshot)
    \/ restore # NoRestore /\ f \in Paths(restore.snapshot)

UserEdit(f) ==
    /\ Cardinality(userEdits) < MaxUserEdits
    /\ disk' = [disk EXCEPT ![f] = versions + 1] /\ versions' = versions + 1
    /\ userEdits' = userEdits \union {versions + 1}
    /\ exposed' = IF InHand(f) THEN exposed \union {versions + 1} ELSE exposed
    /\ UNCHANGED <<snapshots, call, restore, overwritten, kills>>
-----------------------------------------------------------------------------
(* POST snapshots/restore while no agent of the engine is active.           *)
StartRestore(k) ==
    /\ restore = NoRestore /\ \A a \in Agents : call[a] = NoCall
    /\ k \in DOMAIN snapshots /\ snapshots[k].status = "completed"
    /\ restore' = [snapshot |-> k, check |-> Paths(k), replace |-> Paths(k)]
    /\ UNCHANGED <<disk, versions, snapshots, call, userEdits, exposed, overwritten, kills>>

\* A mutation: a file the snapshot would not change anyway is not compared.
CheckFile_WrittenOnly(f) ==
    /\ f \in restore.check
    /\ LET s == snapshots[restore.snapshot]
       IN  restore' = IF disk[f] = s.after[f] \/ s.after[f] = s.before[f]
                      THEN [restore EXCEPT !.check = @ \ {f}] ELSE NoRestore
    /\ UNCHANGED <<disk, versions, snapshots, call, userEdits, exposed, overwritten, kills>>

(* A file must be as the call left it, or the restore is refused.           *)
CheckFile(f) ==
    /\ f \in restore.check
    /\ restore' = IF disk[f] = snapshots[restore.snapshot].after[f]
                  THEN [restore EXCEPT !.check = @ \ {f}] ELSE NoRestore
    /\ UNCHANGED <<disk, versions, snapshots, call, userEdits, exposed, overwritten, kills>>

(* All were compared: the files are replaced one after the other.           *)
ReplaceFile(f) ==
    /\ restore.check = {} /\ f \in restore.replace
    /\ disk' = [disk EXCEPT ![f] = snapshots[restore.snapshot].before[f]]
    /\ overwritten' = overwritten \union ({disk[f]} \ {disk'[f]})
    /\ restore' = [restore EXCEPT !.replace = @ \ {f}]
    /\ UNCHANGED <<versions, snapshots, call, userEdits, exposed, kills>>

EndRestore ==
    /\ restore # NoRestore /\ restore.replace = {}
    /\ snapshots' = [snapshots EXCEPT ![restore.snapshot].status = "restored"]
    /\ restore' = NoRestore
    /\ UNCHANGED <<disk, versions, call, userEdits, exposed, overwritten, kills>>
-----------------------------------------------------------------------------
Kill ==
    /\ kills < MaxKills /\ kills' = kills + 1
    /\ restore' = NoRestore /\ call' = [a \in Agents |-> NoCall]
    /\ UNCHANGED <<disk, versions, snapshots, userEdits, exposed, overwritten>>
-----------------------------------------------------------------------------
FileNext ==
    \/ \E a \in Agents :
        \/ \E paths \in SUBSET Files : Capture(a, paths)
        \/ \E f \in Files : WriteFile(a, f)
        \/ RollBackPatch(a) \/ Complete(a) \/ CancelCall(a) \/ EndThread(a)
    \/ \E f \in Files : UserEdit(f) \/ CheckFile(f) \/ ReplaceFile(f)
    \/ \E k \in DOMAIN snapshots : StartRestore(k)
    \/ EndRestore \/ Kill

FileSpec == FileInit /\ [][FileNext]_fileVars
-----------------------------------------------------------------------------
SomeFiles == UNION {[paths -> Nat] : paths \in SUBSET Files}

FileTypeOK ==
    /\ versions \in Nat /\ disk \in [Files -> 0..versions]
    /\ snapshots \in Seq([status : {"captured", "completed", "restored"}, before : SomeFiles, after : SomeFiles])
    /\ \A k \in DOMAIN snapshots :
        /\ DOMAIN snapshots[k].after = Paths(k)
        /\ \A f \in Paths(k) : snapshots[k].before[f] <= versions /\ snapshots[k].after[f] <= versions
    /\ call \in [Agents -> [snapshot : 0..Len(snapshots), at : {"idle", "writing", "detached"}, left : SUBSET Files]]
    /\ restore \in [snapshot : 0..Len(snapshots), check : SUBSET Files, replace : SUBSET Files]
    /\ userEdits \subseteq 1..versions /\ exposed \subseteq userEdits /\ overwritten \subseteq 0..versions
    /\ kills \in 0..MaxKills

(* A restore does not take away what the user wrote to a file that no tool  *)
(* call and no restore had in hand at that moment, however many snapshots   *)
(* the file has and whatever was cancelled, killed or restored before.      *)
RestoreKeepsUserWork == overwritten \intersect userEdits \subseteq exposed
=============================================================================
