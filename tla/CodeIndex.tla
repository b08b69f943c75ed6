----------------------------- MODULE CodeIndex -----------------------------
(***************************************************************************)
(* The search index of the source files (context/code_index.py), which the *)
(* engine's threads share under one lock, with the watcher thread that     *)
(* follows the changes of the workspace, and the cache of the index on     *)
(* disk.  Files change at any time, also while they are read.              *)
(*                                                                         *)
(* Abstractions.  The content of a file stands for its hash and for the    *)
(* chunks made from it; ABSENT also stands for what is not indexed: binary *)
(* and large files, and links to other indexed files.  LINK stands for a   *)
(* link that leads out of the project or to a skipped path: it is not      *)
(* indexed either, and the watcher's filter drops it.  Some contents cannot*)
(* be cut into chunks: the parser raises an error that is not caught.  The *)
(* event of a directory is the events of its files.  Scores, and the limit *)
(* on the number of files, are left out.                                   *)
(***************************************************************************)
EXTENDS Naturals

CONSTANTS
    Paths,     \* files that are eligible by their name
    Hidden,    \* those that ignore rules of git hide
    Contents,
    Deep,      \* contents that cannot be cut into chunks
    ABSENT, LINK,
    MaxChanges \* bound: changes of files, and restarts of the engine

ASSUME IndexAssumption ==
    /\ Hidden \subseteq Paths /\ Deep \subseteq Contents /\ MaxChanges \in Nat
    /\ ABSENT # LINK /\ {ABSENT, LINK} \cap Contents = {}

VARIABLES
    source,   \* the content of each file, or LINK
    changing, \* files that are being written
    files,    \* CodeIndex._files: the content each entry was made from
    chunks,   \* CodeIndex._chunks: the same for what is searched
    loaded,   \* _loaded
    cache,    \* code_index.json
    pass,     \* the refresh or update that holds the lock
    watcher,  \* the watcher thread
    events,   \* changes the watcher was not yet given
    yielded,  \* changes it was given and has not processed
    hit,      \* the hit that a search holds
    mixed,    \* history: a chunk was shown with a text it was not made from
    broken,   \* history: a file could not be cut
    changes

indexVars ==
    <<source, changing, files, chunks, loaded, cache, pass, watcher, events, yielded, hit, mixed, broken, changes>>
workspace == <<source, changing, changes>>
searching == <<hit, mixed>>

Nothing == [p \in Paths |-> ABSENT]
Unlocked == [by |-> "none", kind |-> "none", todo |-> {}, seen |-> {}, changed |-> FALSE]
NoHit == [path |-> "none"]

IndexInit ==
    /\ source \in [Paths -> Contents \union {ABSENT, LINK}] /\ changing = {} /\ changes = 0
    /\ files = Nothing /\ chunks = Nothing /\ loaded = FALSE /\ cache = Nothing
    /\ pass = Unlocked
    /\ watcher = "off" /\ events = {} /\ yielded = {}
    /\ hit = NoHit /\ mixed = FALSE /\ broken = FALSE
-----------------------------------------------------------------------------
(* The user and the tools write files; the system notices if it is asked to.*)
\* A mutation: the subscription begins after the first refresh.
Notify_WhenReady(p) == events' = IF watcher = "ready" THEN events \union {p} ELSE events

Notify(p) == events' = IF watcher = "off" THEN events ELSE events \union {p}

BeginChange(p) ==
    /\ p \notin changing /\ changes < MaxChanges /\ changes' = changes + 1
    /\ changing' = changing \union {p} /\ Notify(p)
    /\ UNCHANGED <<source, files, chunks, loaded, cache, pass, watcher, yielded, searching, broken>>

EndChange(p, c) ==
    /\ p \in changing /\ changing' = changing \ {p}
    /\ source' = [source EXCEPT ![p] = c] /\ Notify(p)
    /\ UNCHANGED <<files, chunks, loaded, cache, pass, watcher, yielded, searching, broken, changes>>
-----------------------------------------------------------------------------
\* _load: entries of the cache are taken as they are.
Loaded == IF loaded THEN files ELSE cache

\* What is read of a file: nothing of a link.
Readable(p) == IF source[p] = LINK THEN ABSENT ELSE source[p]

\* The files git lists, or all of them when git does not answer.
Candidates == {{p \in Paths \ Hidden : Readable(p) # ABSENT}, {p \in Paths : Readable(p) # ABSENT}}

BeginPass(who, kind, todo) ==
    /\ pass = Unlocked
    /\ pass' = [by |-> who, kind |-> kind, todo |-> todo, seen |-> {}, changed |-> FALSE]
    /\ files' = Loaded /\ loaded' = TRUE

\* The results of reading p: a file that is being written may read as nothing.
Read(p) == {Readable(p)} \union (IF p \in changing THEN {ABSENT} ELSE {})

\* chunk_file raises: the lock is given back, and what was searched stays as it was.
Raise ==
    /\ pass' = Unlocked /\ broken' = TRUE
    /\ watcher' = IF pass.by = "watcher" THEN "dead" ELSE watcher
    /\ yielded' = IF pass.by = "watcher" THEN {} ELSE yielded
    /\ UNCHANGED files

\* _refresh, one file of the list.
RefreshFile(p) ==
    /\ pass.kind = "refresh" /\ p \in pass.todo
    /\ \E c \in Read(p) :
        \/ /\ c = ABSENT
           /\ pass' = [pass EXCEPT !.todo = @ \ {p}] /\ UNCHANGED <<files, watcher, yielded, broken>>
        \/ /\ c # ABSENT /\ files[p] = c
           /\ pass' = [pass EXCEPT !.todo = @ \ {p}, !.seen = @ \union {p}]
           /\ UNCHANGED <<files, watcher, yielded, broken>>
        \/ /\ c \notin Deep \union {ABSENT, files[p]}
           /\ pass' = [pass EXCEPT !.todo = @ \ {p}, !.seen = @ \union {p}, !.changed = TRUE]
           /\ files' = [files EXCEPT ![p] = c]
           /\ UNCHANGED <<watcher, yielded, broken>>
        \/ c \in Deep \ {files[p]} /\ Raise
    /\ UNCHANGED <<workspace, chunks, loaded, cache, events, searching>>

(* The end of _refresh: entries of files that were not seen are dropped; if *)
(* anything changed, the chunks are built anew and the cache is saved.      *)
EndRefresh ==
    /\ pass.kind = "refresh" /\ pass.todo = {}
    /\ LET kept == [p \in Paths |-> IF p \in pass.seen THEN files[p] ELSE ABSENT]
           changed == pass.changed \/ kept # files
       IN  /\ files' = kept
           /\ chunks' = IF changed \/ chunks = Nothing THEN kept ELSE chunks
           /\ cache' = IF changed THEN kept ELSE cache
    /\ pass' = Unlocked
    /\ watcher' = IF pass.by = "watcher" THEN "ready" ELSE watcher
    /\ UNCHANGED <<workspace, loaded, events, yielded, searching, broken>>

\* update_paths, one file: its entry is made again, or dropped.
UpdatePath(p) ==
    /\ pass.kind = "update" /\ p \in pass.todo
    /\ \E c \in Read(p) :
        \/ /\ c = ABSENT
           /\ files' = [files EXCEPT ![p] = ABSENT]
           /\ pass' = [pass EXCEPT !.todo = @ \ {p}, !.changed = @ \/ files[p] # ABSENT]
           /\ yielded' = yielded \ {p} /\ UNCHANGED <<watcher, broken>>
        \/ /\ c \notin Deep \union {ABSENT}
           /\ files' = [files EXCEPT ![p] = c]
           /\ pass' = [pass EXCEPT !.todo = @ \ {p}, !.changed = TRUE]
           /\ yielded' = yielded \ {p} /\ UNCHANGED <<watcher, broken>>
        \/ c \in Deep /\ Raise
    /\ UNCHANGED <<workspace, chunks, loaded, cache, events, searching>>

EndUpdate ==
    /\ pass.kind = "update" /\ pass.todo = {}
    /\ chunks' = IF pass.changed THEN files ELSE chunks
    /\ cache' = IF pass.changed THEN files ELSE cache
    /\ pass' = Unlocked
    /\ UNCHANGED <<workspace, files, loaded, watcher, events, yielded, searching, broken>>
-----------------------------------------------------------------------------
(* The watcher thread.                                                      *)
StartWatching ==
    /\ watcher \in {"off", "dead"}
    /\ watcher' = "subscribed" /\ events' = {} /\ yielded' = {}
    /\ UNCHANGED <<workspace, files, chunks, loaded, cache, pass, searching, broken>>

(* watch yields the changes so far whose path, once resolved, is eligible   *)
(* (include_change): a file that became a LINK is not among them.  The first*)
(* batch, perhaps an empty one, proves the subscription and is followed by  *)
(* a refresh.                                                               *)
Yield ==
    /\ \/ watcher = "subscribed" /\ watcher' = "refreshing"
       \/ watcher = "ready" /\ yielded = {} /\ pass.by # "watcher" /\ events # {} /\ UNCHANGED watcher
    /\ yielded' = {p \in events : source[p] # LINK} /\ events' = {}
    /\ UNCHANGED <<workspace, files, chunks, loaded, cache, pass, searching, broken>>

WatcherRefreshes ==
    /\ watcher = "refreshing"
    /\ \E todo \in Candidates : BeginPass("watcher", "refresh", todo)
    /\ UNCHANGED <<workspace, chunks, cache, watcher, events, yielded, searching, broken>>

WatcherUpdates ==
    /\ watcher = "ready" /\ yielded # {}
    /\ BeginPass("watcher", "update", yielded)
    /\ UNCHANGED <<workspace, chunks, cache, watcher, events, yielded, searching, broken>>

StopWatching ==
    /\ watcher \in {"subscribed", "ready"} /\ pass.by # "watcher"
    /\ watcher' = "off" /\ events' = {} /\ yielded' = {}
    /\ UNCHANGED <<workspace, files, chunks, loaded, cache, pass, searching, broken>>
-----------------------------------------------------------------------------
(* A search: refresh_if_due refreshes unless that was done a moment ago.    *)
SearchRefreshes ==
    /\ \E todo \in Candidates : BeginPass("search", "refresh", todo)
    /\ UNCHANGED <<workspace, chunks, cache, watcher, events, yielded, searching, broken>>

(* _search, with the lock: a chunk is found, and given the hash its file    *)
(* has in the index.                                                        *)
Search(p) ==
    /\ pass = Unlocked /\ loaded /\ hit = NoHit
    /\ chunks[p] # ABSENT /\ files[p] # ABSENT
    /\ hit' = [path |-> p, chunk |-> chunks[p], hash |-> files[p]]
    /\ UNCHANGED <<workspace, files, chunks, loaded, cache, pass, watcher, events, yielded, mixed, broken>>

\* A mutation: the hash of the text is not compared.
AddSnippet_Blind ==
    /\ hit # NoHit /\ hit' = NoHit
    /\ \E text \in Read(hit.path) :
          mixed' = (mixed \/ text \notin {ABSENT, hit.chunk})
    /\ UNCHANGED <<workspace, files, chunks, loaded, cache, pass, watcher, events, yielded, broken>>

(* add_snippets, without the lock: the file is read again, and the hit is   *)
(* dropped when its text has another hash.                                  *)
AddSnippet ==
    /\ hit # NoHit /\ hit' = NoHit
    /\ \E text \in Read(hit.path) :
          mixed' = (mixed \/ (text = hit.hash /\ text # hit.chunk))
    /\ UNCHANGED <<workspace, files, chunks, loaded, cache, pass, watcher, events, yielded, broken>>

(* The engine ends, or is killed, and starts again.                         *)
Restart ==
    /\ changes < MaxChanges /\ changes' = changes + 1
    /\ files' = Nothing /\ chunks' = Nothing /\ loaded' = FALSE /\ pass' = Unlocked
    /\ watcher' = "off" /\ events' = {} /\ yielded' = {} /\ hit' = NoHit
    /\ UNCHANGED <<source, changing, cache, mixed, broken>>
-----------------------------------------------------------------------------
IndexNext ==
    \/ \E p \in Paths :
        \/ BeginChange(p) \/ \E c \in Contents \union {ABSENT, LINK} : EndChange(p, c)
        \/ RefreshFile(p) \/ UpdatePath(p) \/ Search(p)
    \/ EndRefresh \/ EndUpdate
    \/ StartWatching \/ Yield \/ WatcherRefreshes \/ WatcherUpdates \/ StopWatching
    \/ SearchRefreshes \/ AddSnippet \/ Restart

IndexSpec == IndexInit /\ [][IndexNext]_indexVars
-----------------------------------------------------------------------------
Text == Contents \union {ABSENT}

IndexTypeOK ==
    /\ source \in [Paths -> Text \union {LINK}] /\ changing \subseteq Paths /\ changes \in 0..MaxChanges
    /\ {files, chunks, cache} \subseteq [Paths -> Text]
    /\ pass.by \in {"none", "watcher", "search"} /\ pass.kind \in {"none", "refresh", "update"}
    /\ pass.todo \subseteq Paths /\ pass.seen \subseteq Paths
    /\ watcher \in {"off", "subscribed", "refreshing", "ready", "dead"}
    /\ events \subseteq Paths /\ yielded \subseteq Paths /\ {loaded, mixed, broken} \subseteq BOOLEAN

(* While the watcher is alive and ready, a file whose index entry is not    *)
(* made from its content has a change that the watcher will still process,  *)
(* whatever was written during its start, a search's refresh or a read.  A  *)
(* file that was replaced by a LINK is excepted: include_change drops that  *)
(* change, and the old entry stays until the next refresh.  (add_snippets   *)
(* reads no link, so the old text is not shown.)                            *)
NoChangeIsMissed ==
    watcher = "ready" =>
        \A p \in Paths \ (Hidden \union changing) :
            source[p] # LINK /\ files[p] # source[p] => p \in events \union yielded

(* A snippet is shown with the text its chunk was made from, as long as     *)
(* every file could be cut into chunks.                                     *)
SnippetsFitTheirChunks == ~broken => ~mixed

(* "Snapshot provenance for indexed text, without blessing newer bytes":    *)
(* the hash a search gives to a hit is the one of the text it indexed.      *)
HashesAreOfIndexedText == hit # NoHit => hit.chunk = hit.hash
=============================================================================
