--------------------------- MODULE ContextMemory ---------------------------
(***************************************************************************)
(* The memories of code of a project (memory/context_store.py), in a       *)
(* database that the engine and terminals share.  index_code looks at what *)
(* is stored, reads the files, and only then replaces their memories in    *)
(* one transaction; meanwhile files change, other processes index, and     *)
(* memories are added, corrected and deleted.                              *)
(*                                                                         *)
(* Abstractions.  A source file is its parts, and stands for its hash; a   *)
(* part has an anchor, or none: NOANCHOR.  A memory is its data: one with  *)
(* the same data is the same memory.  Other kinds of memories, vectors,    *)
(* postings, links and the graph of calls follow their memory and are left *)
(* out.                                                                    *)
(***************************************************************************)
EXTENDS Naturals

CONSTANTS
    Sources,     \* paths of source files
    Anchors,     \* anchors of their parts
    NOANCHOR,
    Texts,       \* contents of a part
    GONE,
    Indexers,    \* processes that index
    MaxSteps     \* bound: edits, corrections, deletions and additions

ASSUME MemoryAssumption == GONE \notin [Anchors -> Texts] /\ MaxSteps \in Nat

VARIABLES
    file,      \* the parts of each file, or GONE
    memories,  \* the rows of kind code
    indexing,  \* per process: what index_code has found so far
    steps

memoryVars == <<file, memories, indexing, steps>>

Snapshots == [Anchors -> Texts]
Resting == [at |-> "idle"]

MemoryInit ==
    /\ file \in [Sources -> Snapshots \union {GONE}] /\ memories = {}
    /\ indexing = [i \in Indexers |-> Resting] /\ steps = 0

Of(p) == {m \in memories : m.path = p}

\* What _prepare makes of the snapshot c of p.
Prepared(p, c) ==
    {[path |-> p, anchor |-> a, text |-> c[a], hash |-> c, corrected |-> FALSE, given |-> FALSE] : a \in Anchors}
-----------------------------------------------------------------------------
(* index_code first enumerates the files and the hashes it has of each.     *)
BeginIndex(i) ==
    /\ indexing[i] = Resting
    /\ indexing' = [indexing EXCEPT ![i] =
            [at |-> "reading",
             todo |-> {p \in Sources : file[p] # GONE},
             existing |-> [p \in Sources |-> {m.hash : m \in Of(p)}],
             updated |-> <<>>]]
    /\ UNCHANGED <<file, memories, steps>>

\* A mutation: the text of a file is read once more after it was hashed.
IndexFile_ReadTwice(i, p) ==
    /\ indexing[i].at = "reading" /\ p \in indexing[i].todo
    /\ indexing' = [indexing EXCEPT
            ![i].todo = IF p \in DOMAIN indexing[i].updated THEN @ \ {p} ELSE @,
            ![i].updated = IF file[p] = GONE \/ indexing[i].existing[p] = {file[p]} THEN @
                           ELSE IF p \notin DOMAIN @ THEN [q \in DOMAIN @ \union {p} |-> IF q = p THEN Prepared(p, file[p]) ELSE @[q]]
                           ELSE [@ EXCEPT ![p] = {[m EXCEPT !.text = file[p][m.anchor]] : m \in @}]]
    /\ UNCHANGED <<file, memories, steps>>

(* One file is read; one with the hash of its memories is left as it is,    *)
(* and so is one that cannot be read.                                       *)
IndexFile(i, p) ==
    /\ indexing[i].at = "reading" /\ p \in indexing[i].todo
    /\ LET same == file[p] = GONE \/ indexing[i].existing[p] = {file[p]}
           after(u) == [q \in DOMAIN u \union {p} |-> IF q = p THEN Prepared(p, file[p]) ELSE u[q]]
       IN  indexing' = [indexing EXCEPT ![i] =
            [at |-> "reading", todo |-> @.todo \ {p}, existing |-> @.existing,
             updated |-> IF same THEN @.updated ELSE after(@.updated)]]
    /\ UNCHANGED <<file, memories, steps>>

\* An old memory is kept for a new one of the same text and anchor.
Reuses(old, new) == old.text = new.text /\ old.anchor = new.anchor

\* Old memories of p that are kept take the data of the new ones.
Kept(p, prepared) ==
    UNION {{[new EXCEPT !.text = m.text] : new \in {n \in prepared : Reuses(m, n)}} : m \in Of(p)}
Inserted(p, prepared) == {new \in prepared : \A m \in Of(p) : ~Reuses(m, new)}

Staying(updated) ==
    UNION {IF p \in DOMAIN updated THEN Kept(p, updated[p]) ELSE Of(p) : p \in {q \in Sources : file[q] # GONE}}
Coming(updated) == UNION {Inserted(p, updated[p]) : p \in DOMAIN updated}

(* The transaction: the memories of each updated file are replaced; those   *)
(* of files that are not there any more go before the rest is inserted.     *)
CommitIndex(i) ==
    /\ indexing[i].at = "reading" /\ indexing[i].todo = {}
    /\ memories' = Staying(indexing[i].updated) \union Coming(indexing[i].updated)
    /\ indexing' = [indexing EXCEPT ![i] = Resting]
    /\ UNCHANGED <<file, steps>>

\* The call raises, or its process dies: nothing was written.
AbandonIndex(i) ==
    /\ indexing[i] # Resting /\ indexing' = [indexing EXCEPT ![i] = Resting]
    /\ UNCHANGED <<file, memories, steps>>
-----------------------------------------------------------------------------
Spend == steps < MaxSteps /\ steps' = steps + 1

(* ingest: a text that an agent gives for a part of p is stored with the    *)
(* hash that the file has now.                                              *)
Ingest(p, a, text) ==
    /\ Spend /\ file[p] # GONE
    /\ memories' = memories \union
            {[path |-> p, anchor |-> a, text |-> text, hash |-> file[p], corrected |-> FALSE, given |-> TRUE]}
    /\ UNCHANGED <<file, indexing>>

(* update: the text is replaced, the anchor and the rest of the structure   *)
(* dropped, and the memory marked.                                          *)
Correct(m, text) ==
    /\ Spend
    /\ memories' = (memories \ {m}) \union
            {[m EXCEPT !.text = text, !.anchor = NOANCHOR, !.corrected = TRUE, !.given = FALSE]}
    /\ UNCHANGED <<file, indexing>>

Forget(m) == Spend /\ memories' = memories \ {m} /\ UNCHANGED <<file, indexing>>

EditSource(p, c) ==
    /\ Spend /\ file' = [file EXCEPT ![p] = c]
    /\ UNCHANGED <<memories, indexing>>
-----------------------------------------------------------------------------
MemoryNext ==
    \/ \E i \in Indexers :
        \/ BeginIndex(i) \/ CommitIndex(i) \/ AbandonIndex(i)
        \/ \E p \in Sources : IndexFile(i, p)
    \/ \E p \in Sources, a \in Anchors, text \in Texts : Ingest(p, a, text)
    \/ \E m \in memories : Forget(m) \/ \E text \in Texts : Correct(m, text)
    \/ \E p \in Sources, c \in Snapshots \union {GONE} : EditSource(p, c)

MemorySpec == MemoryInit /\ [][MemoryNext]_memoryVars
-----------------------------------------------------------------------------
Memory ==
    [path : Sources, anchor : Anchors \union {NOANCHOR}, text : Texts, hash : Snapshots,
     corrected : BOOLEAN, given : BOOLEAN]

MemoryTypeOK ==
    /\ file \in [Sources -> Snapshots \union {GONE}] /\ memories \subseteq Memory
    /\ steps \in 0..MaxSteps

\* _freshness: "fresh" is what search calls verified by its content.
Fresh(m) == file[m.path] = m.hash /\ ~m.corrected

(* A memory that indexing made, or that was corrected since, is called      *)
(* verified only if its text is what its file contains at that moment,      *)
(* whatever was edited, corrected or indexed by others while it was made.   *)
VerifiedCodeIsTheSource ==
    \A m \in memories : Fresh(m) /\ ~m.given => \E a \in Anchors : file[m.path][a] = m.text
=============================================================================
