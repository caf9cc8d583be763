------------------------------- MODULE Memory -------------------------------
(***************************************************************************)
(* The memory manager, pkg/memory: Markdown files of the workspace are     *)
(* indexed in a database of four tables, by the syncs of the daemon's      *)
(* event loop and of the searches that find the index dirty.               *)
(*                                                                         *)
(* A file has one chunk, named after the file; a version stands for the    *)
(* content, its hash and its embedding, 0 for none.  The database survives *)
(* the program; SQLite does not enforce foreign keys unless it is asked.   *)
(***************************************************************************)
EXTENDS Naturals, FiniteSets

CONSTANTS
    MemoryFiles,  \* Markdown files
    Searches,     \* calls of SearchWithContext
    MaxWrites,    \* bound: writes and deletions of files
    MaxRows,      \* bound: row identifiers
    MaxMemoryCrashes

Loop == "loop"    \* the daemon's event loop
Nobody == "nobody"
NoRow == [id |-> 0, version |-> 0]

VARIABLES
    content,    \* the version of each file
    writes, memoryCrashes,
    fileRow,    \* table files: [id, version] per path
    chunkRow,   \* table chunks: [id, version] per chunk, id its file_id
    terms,      \* table chunks_fts: pairs of a chunk and a version
    vectors,    \* table embeddings: per chunk a version
    nextRow,    \* AUTOINCREMENT of files
    indexDirty,      \* isDirty
    timer,      \* the watcher's debounce timer runs
    syncer,     \* who syncs: isSyncing
    syncStep,   \* "walk", "index", "insert" or "prune"
    listed,     \* the files found by the walk
    left,       \* those of them still to be indexed
    reading,    \* the file being indexed and the version that was read
    query,      \* per search: "idle", "check", "sync", "match", "fetch", "done"
    matches,    \* per search: the chunks matched
    results     \* per search: pairs of a file and a version

fileVars == <<content, writes, indexDirty, timer>>
tableVars == <<fileRow, chunkRow, terms, vectors, nextRow>>
syncVars == <<syncer, syncStep, listed, left, reading>>
queryVars == <<query, matches, results>>
memoryVars == <<fileVars, memoryCrashes, tableVars, syncVars, queryVars>>

NotReading == [file |-> Nobody, version |-> 0]

MemoryInit ==
    /\ content = [f \in MemoryFiles |-> 0] /\ writes = 0 /\ memoryCrashes = 0
    /\ fileRow = [f \in MemoryFiles |-> NoRow] /\ chunkRow = [f \in MemoryFiles |-> NoRow]
    /\ terms = {} /\ vectors = [f \in MemoryFiles |-> 0] /\ nextRow = 1
    /\ indexDirty = TRUE /\ timer = FALSE
    /\ syncer = Nobody /\ syncStep = "walk" /\ listed = {} /\ left = {}
    /\ reading = NotReading
    /\ query = [s \in Searches |-> "idle"]
    /\ matches = [s \in Searches |-> {}] /\ results = [s \in Searches |-> {}]

-----------------------------------------------------------------------------
\* MemoryWrite and MemoryDelete: the file, then the flag; the watcher sets the
\* flag once more when its timer ends, and for the writes of others.
WriteMemory(f) ==
    /\ writes < MaxWrites /\ writes' = writes + 1
    /\ \/ content' = [content EXCEPT ![f] = writes + 1]
       \/ content[f] # 0 /\ content' = [content EXCEPT ![f] = 0]
    /\ timer' = TRUE
    /\ UNCHANGED <<indexDirty, memoryCrashes, tableVars, syncVars, queryVars>>

MarkDirty ==
    /\ timer /\ timer' \in BOOLEAN
    /\ indexDirty' = TRUE
    /\ UNCHANGED <<content, writes, memoryCrashes, tableVars, syncVars, queryVars>>

-----------------------------------------------------------------------------
\* Sync.  Whoever finds isSyncing set is refused.
StartSync(by) ==
    /\ syncer = Nobody
    /\ by \in Searches => query[by] = "sync"
    /\ syncer' = by /\ syncStep' = "walk"
    /\ UNCHANGED <<fileVars, memoryCrashes, tableVars, listed, left, reading, queryVars>>

RefuseSync(s) ==
    /\ query[s] = "sync" /\ syncer \notin {Nobody, s}
    /\ query' = [query EXCEPT ![s] = "match"]
    /\ UNCHANGED <<fileVars, memoryCrashes, tableVars, syncVars, matches, results>>

WalkWorkspace ==
    /\ syncer # Nobody /\ syncStep = "walk"
    /\ listed' = {f \in MemoryFiles : content[f] # 0} /\ left' = listed'
    /\ syncStep' = "index"
    /\ UNCHANGED <<fileVars, memoryCrashes, tableVars, syncer, reading, queryVars>>

\* The deferred function of Sync clears both flags, whatever became of the sync.
FinishSync ==
    /\ syncer' = Nobody /\ indexDirty' = FALSE
    /\ query' = [s \in Searches |-> IF s = syncer THEN "match" ELSE query[s]]

WalkFails ==
    /\ syncer # Nobody /\ syncStep = "walk"
    /\ FinishSync
    /\ UNCHANGED <<content, writes, timer, memoryCrashes, tableVars, syncStep, listed, left,
                   reading, matches, results>>

\* indexFile: a file that is gone is left out, an unchanged one is skipped.
ReadMemoryFile(f) ==
    /\ syncer # Nobody /\ syncStep = "index" /\ f \in left
    /\ left' = left \ {f}
    /\ IF content[f] \in {0, fileRow[f].version}
       THEN UNCHANGED <<syncStep, reading>>
       ELSE /\ reading' = [file |-> f, version |-> content[f]]
            /\ syncStep' = "insert"
    /\ UNCHANGED <<fileVars, memoryCrashes, tableVars, syncer, listed, queryVars>>

\* Variant: the statements are not in a transaction.
InsertOneByOne ==
    /\ syncer # Nobody /\ syncStep = "insert"
    /\ LET f == reading.file  v == reading.version IN
       /\ fileRow' = [fileRow EXCEPT ![f] = [id |-> nextRow, version |-> v]]
       /\ IF chunkRow[f].id # 0
          THEN UNCHANGED <<chunkRow, terms, vectors>>
          ELSE /\ chunkRow' = [chunkRow EXCEPT ![f] = [id |-> nextRow, version |-> v]]
               /\ terms' = terms \cup {<<f, v>>}
               /\ UNCHANGED vectors
    /\ nextRow' = nextRow + 1
    /\ reading' = NotReading /\ syncStep' = "index"
    /\ UNCHANGED <<fileVars, memoryCrashes, syncer, listed, left, queryVars>>

\* An embedding that fails is left out.
StoreEmbedding(f, v) == vectors' \in {vectors, [vectors EXCEPT ![f] = v]}

\* The transaction: the row of the file is replaced, which leaves the chunk of
\* the old one where it is, so that the new chunk's name is taken and all is
\* rolled back.
IndexFile ==
    /\ syncer # Nobody /\ syncStep = "insert" /\ nextRow < MaxRows
    /\ LET f == reading.file  v == reading.version IN
       IF chunkRow[f].id # 0
       THEN UNCHANGED tableVars
       ELSE /\ fileRow' = [fileRow EXCEPT ![f] = [id |-> nextRow, version |-> v]]
            /\ chunkRow' = [chunkRow EXCEPT ![f] = [id |-> nextRow, version |-> v]]
            /\ terms' = terms \cup {<<f, v>>}
            /\ StoreEmbedding(f, v)
            /\ nextRow' = nextRow + 1
    /\ reading' = NotReading /\ syncStep' = "index"
    /\ UNCHANGED <<fileVars, memoryCrashes, syncer, listed, left, queryVars>>

\* pruneDeletedFiles, and the end of the sync.
PruneDeletedFiles ==
    /\ syncer # Nobody /\ syncStep = "index" /\ left = {}
    /\ fileRow' = [f \in MemoryFiles |-> IF f \in listed THEN fileRow[f] ELSE NoRow]
    /\ FinishSync
    /\ UNCHANGED <<content, writes, timer, memoryCrashes, chunkRow, terms, vectors, nextRow,
                   syncStep, listed, left, reading, matches, results>>

-----------------------------------------------------------------------------
\* SearchWithContext.
BeginSearch(s) ==
    /\ query[s] = "idle"
    /\ query' = [query EXCEPT ![s] = IF indexDirty THEN "sync" ELSE "match"]
    /\ UNCHANGED <<fileVars, memoryCrashes, tableVars, syncVars, matches, results>>

\* keywordSearch and vectorSearch; either may fail, and then the other serves.
Matching == {t[1] : t \in terms}
Near == {f \in MemoryFiles : vectors[f] # 0}

MatchChunks(s) ==
    /\ query[s] = "match"
    /\ \/ \E found \in {Matching, Near, Matching \cup Near} :
             /\ matches' = [matches EXCEPT ![s] = found]
             /\ query' = [query EXCEPT ![s] = "fetch"]
       \/ query' = [query EXCEPT ![s] = "done"] /\ UNCHANGED matches
    /\ UNCHANGED <<fileVars, memoryCrashes, tableVars, syncVars, results>>

\* mergeResults reads each chunk with the file that its row belongs to; one
\* without is left out.
Joined(f) == chunkRow[f].id # 0 /\ chunkRow[f].id = fileRow[f].id

FetchChunk(s) ==
    /\ query[s] = "fetch" /\ matches[s] # {}
    /\ \E f \in matches[s] :
          /\ matches' = [matches EXCEPT ![s] = @ \ {f}]
          /\ results' = IF Joined(f)
                        THEN [results EXCEPT ![s] = @ \cup {<<f, chunkRow[f].version>>}]
                        ELSE results
    /\ UNCHANGED <<fileVars, memoryCrashes, tableVars, syncVars, query>>

ReturnResults(s) ==
    /\ query[s] = "fetch" /\ matches[s] = {}
    /\ query' = [query EXCEPT ![s] = "done"]
    /\ UNCHANGED <<fileVars, memoryCrashes, tableVars, syncVars, matches, results>>

-----------------------------------------------------------------------------
\* The program ends and starts again.  It also ends by itself when a file is
\* deleted after indexFile has read it: the size of a file that has no Stat.
Restart ==
    /\ memoryCrashes < MaxMemoryCrashes /\ memoryCrashes' = memoryCrashes + 1
    /\ indexDirty' = TRUE /\ timer' = FALSE
    /\ syncer' = Nobody /\ syncStep' = "walk" /\ listed' = {} /\ left' = {}
    /\ reading' = NotReading
    /\ query' = [s \in Searches |-> "done"]
    /\ matches' = [s \in Searches |-> {}]
    /\ UNCHANGED <<content, writes, tableVars, results>>

Indexing ==
    \/ WalkWorkspace \/ WalkFails \/ IndexFile \/ PruneDeletedFiles
    \/ \E f \in MemoryFiles : ReadMemoryFile(f)

MemoryNext ==
    \/ \E f \in MemoryFiles : WriteMemory(f)
    \/ MarkDirty \/ Indexing \/ Restart
    \/ \E by \in {Loop} \cup Searches : StartSync(by)
    \/ \E s \in Searches : \/ BeginSearch(s) \/ RefuseSync(s) \/ MatchChunks(s)
                           \/ FetchChunk(s) \/ ReturnResults(s)

MemoryFairness ==
    /\ WF_memoryVars(Indexing)
    /\ \A s \in Searches :
          WF_memoryVars(StartSync(s) \/ RefuseSync(s) \/ MatchChunks(s) \/ FetchChunk(s)
                        \/ ReturnResults(s))

MemorySpec == MemoryInit /\ [][MemoryNext]_memoryVars /\ MemoryFairness

-----------------------------------------------------------------------------
\* indexFile's transaction: a file that the index knows has its chunk, its terms
\* and, if any, its vector, all of the version that the file's row is of, and a
\* search returns nothing else; a failed sync or a restart leaves no half of it.
IndexIsWhole ==
    \A f \in MemoryFiles : fileRow[f].id # 0 =>
        /\ chunkRow[f] = fileRow[f]
        /\ <<f, fileRow[f].version>> \in terms
        /\ vectors[f] \in {0, fileRow[f].version}

\* A search that was begun returns, whoever syncs meanwhile.
SearchesAtWork == \E s \in Searches : query[s] \notin {"idle", "done"}
SearchesReturn == SearchesAtWork ~> ~SearchesAtWork

\* manager.go:646 "Delete existing file entry (cascades to chunks)": a sync that
\* has inserted a file leaves the version it has read in the index.
ReadIsIndexed ==
    [][(syncStep = "insert" /\ syncStep' = "index" /\ syncer' # Nobody) =>
           fileRow'[reading.file].version = reading.version]_memoryVars
=============================================================================
