------------------------------- MODULE Brain --------------------------------
(***************************************************************************)
(* The index of a node's knowledge base, seen for one shared file that its *)
(* user writes and removes: the watcher, synchronisations of the whole     *)
(* folder, one indexing at a time, and a store of vectors and metadata     *)
(* that are saved one after the other.  The text of version v has v        *)
(* chunks.  Left out: the text, scores, local folders, and other files,    *)
(* whose entries no operation on this one touches.                         *)
(*                                                                         *)
(* Source: internal/brain (brain.go, store.go, watcher.go).                *)
(***************************************************************************)
EXTENDS Naturals

CONSTANTS
    MaxVersion,     \* versions of the file
    MaxId,          \* bound: numbers given to chunks
    MaxCrash,       \* bound: restarts of the agent
    Sync            \* synchronisations

BrainAssumption == MaxVersion \in Nat /\ MaxId \in Nat /\ MaxCrash \in Nat

VARIABLES
    file,       \* its version, 0 if there is none
    event,      \* events not handled: of a write, of a removal
    index,      \* the indexing under way: pc, who asked, hash, text
    sync,       \* per synchronisation: pc, what it found
    graph,      \* vectors in memory: per number the version of its chunk, 0 if none
    meta,       \* metadata in memory: per number the version of its chunk and its hash
    lastID,
    save,       \* the save under way, which holds the store's lock: "none", "meta"
    disk,       \* saved graph, metadata and last number
    crashes

vars == <<file, event, index, sync, graph, meta, lastID, save, disk, crashes>>

Version == 1 .. MaxVersion
Id == 1 .. MaxId
Nothing == [text |-> 0, hash |-> 0]
Idle == [pc |-> "idle", by |-> "none", hash |-> 0, text |-> 0]
NoEvent == [write |-> FALSE, remove |-> FALSE]

Init ==
    /\ file = 0 /\ event = NoEvent
    /\ index = Idle /\ sync = [s \in Sync |-> [pc |-> "idle", found |-> FALSE]]
    /\ graph = [i \in Id |-> 0] /\ meta = [i \in Id |-> Nothing] /\ lastID = 0
    /\ save = "none" /\ disk = [graph |-> graph, meta |-> meta, last |-> 0]
    /\ crashes = 0

store == <<graph, meta, lastID, save, disk>>

-----------------------------------------------------------------------------
(* The store.                                                                    *)

Indexed == {i \in Id : meta[i] # Nothing}

\* removeFileChunks deletes vectors and metadata of the file together.
Without(f, none) == [i \in Id |-> IF i \in Indexed THEN none ELSE f[i]]

\* The graph is saved in the step that changes it; then the metadata are.
Saved(g) ==
    /\ graph' = g
    /\ \/ disk' = [disk EXCEPT !.graph = g] /\ save' = "meta"
       \/ UNCHANGED <<disk, save>>

RemoveFile ==
    /\ save = "none"
    /\ meta' = [i \in Id |-> Nothing] /\ Saved(Without(graph, 0))
    /\ UNCHANGED lastID

\* Fault: chunks are numbered by how many there are.
FirstIdByCount ==
    IF Indexed = {} THEN 1 ELSE 1 + (CHOOSE n \in Indexed : \A i \in Indexed : i <= n)
FirstId == lastID + 1

\* AddChunks: the version's chunks take the next numbers, in place of the file's old ones.
AddChunks(hash, text) ==
    LET new == FirstId .. FirstId + text - 1
    IN /\ save = "none" /\ new \subseteq Id
       /\ meta' = [i \in Id |-> IF i \in new THEN [text |-> text, hash |-> hash] ELSE Nothing]
       /\ lastID' = FirstId + text - 1
       /\ Saved([i \in Id |-> IF i \in new THEN text ELSE Without(graph, 0)[i]])

\* The file of the metadata is written in place, and a failed write leaves it torn, which
\* reads as empty.
SaveMetadata ==
    /\ save = "meta" /\ save' = "none"
    /\ disk' \in {[disk EXCEPT !.meta = meta, !.last = lastID],
                  [disk EXCEPT !.meta = [i \in Id |-> Nothing], !.last = 0]}
    /\ UNCHANGED <<file, event, index, sync, graph, meta, lastID, crashes>>

\* The agent dies and starts again, perhaps in the middle of a save.
Restart ==
    /\ crashes < MaxCrash /\ crashes' = crashes + 1
    /\ \/ UNCHANGED disk
       \/ save = "meta" /\ disk' = [disk EXCEPT !.meta = [i \in Id |-> Nothing], !.last = 0]
    /\ graph' = disk.graph /\ meta' = disk'.meta /\ lastID' = disk'.last
    /\ save' = "none" /\ event' = NoEvent /\ index' = Idle
    /\ sync' = [s \in Sync |-> IF sync[s].pc = "idle" THEN sync[s]
                             ELSE [sync[s] EXCEPT !.pc = "done"]]
    /\ UNCHANGED file

-----------------------------------------------------------------------------
(* The user and the watcher.                                                      *)

Write(v) ==
    /\ file # v /\ file' = v
    /\ event' = [event EXCEPT !.write = TRUE]
    /\ UNCHANGED <<index, sync, store, crashes>>

Remove ==
    /\ file # 0 /\ file' = 0
    /\ event' = [event EXCEPT !.remove = TRUE]
    /\ UNCHANGED <<index, sync, store, crashes>>

\* A removal clears the index at once, beside an indexing under way.
Removed ==
    /\ event.remove /\ RemoveFile
    /\ event' = [event EXCEPT !.remove = FALSE]
    /\ UNCHANGED <<file, index, sync, crashes>>

\* A file that was quiet for 1.5 s is indexed.
Quiet ==
    /\ event.write /\ index.pc = "idle"
    /\ event' = [event EXCEPT !.write = FALSE]
    /\ index' = [Idle EXCEPT !.pc = "hash", !.by = "watcher"]
    /\ UNCHANGED <<file, sync, store, crashes>>

\* The user takes a file's chunks out of the index by their hash.
RemoveFileByHash(h) ==
    /\ save = "none"
    /\ meta' = [i \in Id |-> IF meta[i].hash = h THEN Nothing ELSE meta[i]]
    /\ Saved([i \in Id |-> IF meta[i].hash = h THEN 0 ELSE graph[i]])
    /\ UNCHANGED <<file, event, index, sync, lastID, crashes>>

-----------------------------------------------------------------------------
(* IndexFile, under the manager's lock.                                           *)

\* When it ends, the synchronisation that asked goes on to its purge.
Ends ==
    /\ index' = Idle
    /\ sync' = [s \in Sync |-> IF index.by = s THEN [sync[s] EXCEPT !.pc = "purge"]
                             ELSE sync[s]]

\* Hash: the file may be gone, or be indexed already.
Hash ==
    /\ index.pc = "hash"
    /\ \/ file = 0 /\ RemoveFile /\ Ends
       \/ /\ file # 0 /\ save = "none" /\ UNCHANGED store
          /\ IF \E i \in Id : meta[i].hash = file THEN Ends
             ELSE index' = [index EXCEPT !.pc = "read", !.hash = file] /\ UNCHANGED sync
    /\ UNCHANGED <<file, event, crashes>>

\* The text is read after the hash was taken; the file may have no text, or be gone.
Read ==
    /\ index.pc = "read"
    /\ \/ file # 0 /\ index' = [index EXCEPT !.pc = "embed", !.text = file] /\ UNCHANGED sync
       \/ Ends
    /\ UNCHANGED <<file, event, store, crashes>>

\* The embeddings may fail.
EmbedFails ==
    /\ index.pc = "embed" /\ Ends
    /\ UNCHANGED <<file, event, store, crashes>>

Embed ==
    /\ index.pc = "embed"
    /\ AddChunks(index.hash, index.text) /\ Ends
    /\ UNCHANGED <<file, event, crashes>>

-----------------------------------------------------------------------------
(* SyncAll.                                                                        *)

\* The folder is read; a file in it is indexed.
SyncAll(s) ==
    /\ sync[s].pc = "idle"
    /\ \/ file # 0 /\ index.pc = "idle"
          /\ sync' = [sync EXCEPT ![s] = [pc |-> "wait", found |-> TRUE]]
          /\ index' = [Idle EXCEPT !.pc = "hash", !.by = s]
       \/ /\ file = 0 /\ sync' = [sync EXCEPT ![s] = [pc |-> "purge", found |-> FALSE]]
          /\ UNCHANGED index
    /\ UNCHANGED <<file, event, store, crashes>>

\* What was not in the folder when it was read is purged, also if it is there by now.
Purge(s) ==
    /\ sync[s].pc = "purge"
    /\ IF sync[s].found \/ Indexed = {} THEN save = "none" /\ UNCHANGED store ELSE RemoveFile
    /\ sync' = [sync EXCEPT ![s].pc = "done"]
    /\ UNCHANGED <<file, event, index, crashes>>

-----------------------------------------------------------------------------
Next ==
    \/ SaveMetadata \/ Restart \/ Remove \/ Removed \/ Quiet
    \/ Hash \/ Read \/ Embed \/ EmbedFails
    \/ \E v \in Version : Write(v) \/ RemoveFileByHash(v)
    \/ \E s \in Sync : SyncAll(s) \/ Purge(s)

Spec == Init /\ [][Next]_vars

-----------------------------------------------------------------------------
Chunk == [text : 0 .. MaxVersion, hash : 0 .. MaxVersion]
TypeOK ==
    /\ file \in 0 .. MaxVersion /\ event \in [write : BOOLEAN, remove : BOOLEAN]
    /\ index \in [pc : {"idle", "hash", "read", "embed"}, by : Sync \cup {"none", "watcher"},
                  hash : 0 .. MaxVersion, text : 0 .. MaxVersion]
    /\ sync \in [Sync -> [pc : {"idle", "wait", "purge", "done"}, found : BOOLEAN]]
    /\ graph \in [Id -> 0 .. MaxVersion] /\ meta \in [Id -> Chunk] /\ lastID \in 0 .. MaxId
    /\ save \in {"none", "meta"} /\ crashes \in 0 .. MaxCrash
    /\ disk \in [graph : [Id -> 0 .. MaxVersion], meta : [Id -> Chunk], last : 0 .. MaxId]

\* A vector belongs to the text that its number stands for, also after a crash or a failed
\* write between the save of the graph and that of the metadata (store.go:184).
VectorIsOfItsText == \A i \in Indexed : graph[i] \in {0, meta[i].text}

\* The file is indexed in one version at a time, with all its chunks or with none
\* (store.go:94).
OneVersionIndexed ==
    \A i \in Indexed, j \in Indexed : meta[i] = meta[j] /\ \A k \in i .. j : k \in Indexed

\* A file that is gone is not in the index; not an invariant: an indexing that was under
\* way adds it after the watcher removed it (watcher.go:74).
GoneIsNotIndexed ==
    (/\ file = 0 /\ event = NoEvent /\ index.pc = "idle"
     /\ \A s \in Sync : sync[s].pc \in {"idle", "done"}) => Indexed = {}
====
