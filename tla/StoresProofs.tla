---------------------------- MODULE StoresProofs ----------------------------
(***************************************************************************)
(* Proofs about the parts of a node that keep something twice (the index,  *)
(* files and their copies, settings, credentials, insights) or keep a      *)
(* record (memories, the audit log), for all values of their constants     *)
(* that MCParts!PartsAssumption admits: an invariant of each that its      *)
(* initial states have, that its steps keep, and that gives its types and  *)
(* properties.                                                             *)
(***************************************************************************)
EXTENDS MCParts, Sequences, FiniteSetTheorems, WellFoundedInduction, TLAPS

-----------------------------------------------------------------------------
(* Brain *)

AVersion == 0 .. MaxVersion
Graphs == [K!Id -> AVersion]
Metas == [K!Id -> K!Chunk]
AnIndex == [pc : {"idle", "hash", "read", "embed"}, by : Sync \cup {"none", "watcher"},
            hash : AVersion, text : AVersion]
StoreTyped ==
    kGraph \in Graphs /\ kMeta \in Metas /\ kLastID \in 0 .. MaxId /\ kSave \in {"none", "meta"}
OnDisk == [graph : Graphs, meta : Metas, last : 0 .. MaxId]
DiskTyped == kDisk \in OnDisk
IndexTyped == kIndex \in AnIndex
AboutTyped ==
    /\ kFile \in AVersion /\ kEvent \in [write : BOOLEAN, remove : BOOLEAN]
    /\ kSync \in [Sync -> [pc : {"idle", "wait", "purge", "done"}, found : BOOLEAN]]
    /\ kCrashes \in 0 .. MaxCrash
BrainTyped == StoreTyped /\ DiskTyped /\ IndexTyped /\ AboutTyped

\* Vectors g fit the metadata m, whose numbers were all given when l was the last one.
Fits(g, m, l) ==
    \A i \in K!Id : m[i] # K!Nothing => g[i] \in {0, m[i].text} /\ i <= l
OneRun(m) ==
    \A i, j \in K!Id : m[i] # K!Nothing /\ m[j] # K!Nothing =>
        m[i] = m[j] /\ \A k \in i .. j : m[k] # K!Nothing

\* Both copies fit, and so do the vectors in memory and the metadata on disk, which is what a
\* crash between the two saves puts together.
StoreFits ==
    /\ Fits(kGraph, kMeta, kLastID) /\ OneRun(kMeta)
    /\ Fits(kDisk.graph, kDisk.meta, kDisk.last) /\ OneRun(kDisk.meta)
    /\ Fits(kGraph, kDisk.meta, kDisk.last) /\ kDisk.last <= kLastID
    /\ kSave = "meta" => kDisk.graph = kGraph
BrainInv == BrainTyped /\ StoreFits

\* What the assumption says of the constants of the index.
LEMMA BrainConstants ==
    /\ MaxVersion \in Nat /\ MaxId \in Nat /\ MaxCrash \in Nat /\ K!Id = 1 .. MaxId
    /\ K!Nothing \in K!Chunk /\ K!Idle \in AnIndex
    /\ [i \in K!Id |-> 0] \in Graphs /\ [i \in K!Id |-> K!Nothing] \in Metas
<1>1. MaxVersion \in Nat /\ MaxId \in Nat /\ MaxCrash \in Nat
  BY PartsAssumption DEF K!BrainAssumption
<1>2. K!Nothing \in K!Chunk /\ K!Idle \in AnIndex
  BY <1>1 DEF K!Nothing, K!Chunk, K!Idle, AnIndex, AVersion
<1>3. K!Id = 1 .. MaxId
  BY DEF K!Id
<1> QED BY <1>1, <1>2, <1>3 DEF Graphs, Metas, AVersion

\* Nothing is fit by every graph.
LEMMA NothingFits ==
    ASSUME NEW m, \A i \in K!Id : m[i] = K!Nothing, NEW g, NEW l
    PROVE  Fits(g, m, l) /\ OneRun(m)
BY DEF Fits, OneRun

\* The index begins in its invariant.
LEMMA BrainStarts == K!Init => BrainInv
<1> SUFFICES ASSUME K!Init PROVE BrainInv
  OBVIOUS
<1> USE BrainConstants DEF K!Init
<1>1. StoreTyped
  BY DEF StoreTyped
<1>2. DiskTyped
  BY DEF DiskTyped, OnDisk
<1>3. IndexTyped
  BY DEF IndexTyped
<1>4. AboutTyped
  BY DEF AboutTyped, AVersion, K!NoEvent
<1>5. /\ \A i \in K!Id : kMeta[i] = K!Nothing /\ kDisk.meta[i] = K!Nothing
      /\ kDisk.last = 0 /\ kLastID = 0 /\ kDisk.graph = kGraph
  OBVIOUS
<1>6. StoreFits
  BY <1>5, NothingFits DEF StoreFits
<1> QED BY <1>1, <1>2, <1>3, <1>4, <1>6 DEF BrainInv, BrainTyped

\* A change of the store, whose graph may be saved at once and its metadata later.
LEMMA StoreChanges ==
    ASSUME StoreTyped, DiskTyped, StoreFits,
           NEW g \in Graphs, NEW m \in Metas, NEW l \in 0 .. MaxId,
           kSave = "none", kMeta' = m, kLastID' = l, K!Saved(g),
           kLastID <= l, Fits(g, m, l), OneRun(m),
           \A i \in K!Id : i <= kLastID => g[i] \in {0, kGraph[i]}
    PROVE  StoreTyped' /\ DiskTyped' /\ StoreFits'
<1> USE BrainConstants
<1>1. /\ kGraph' = g
      /\ \/ kDisk' = [kDisk EXCEPT !.graph = g] /\ kSave' = "meta"
         \/ UNCHANGED <<kDisk, kSave>>
  BY DEF K!Saved
<1>2. /\ kDisk' \in OnDisk /\ kDisk'.meta = kDisk.meta /\ kDisk'.last = kDisk.last
      /\ kDisk'.graph \in {g, kDisk.graph} /\ (kSave' = "meta" => kDisk'.graph = g)
  BY <1>1 DEF DiskTyped, OnDisk
<1>3. StoreTyped'
  BY <1>1 DEF StoreTyped, Graphs, Metas, K!Id, AVersion, K!Chunk
<1>4. DiskTyped'
  BY <1>2 DEF DiskTyped, OnDisk, Graphs, Metas, K!Id, AVersion, K!Chunk
<1>5. Fits(g, kDisk.meta, kDisk.last)
  <2> SUFFICES ASSUME NEW i \in K!Id, kDisk.meta[i] # K!Nothing
               PROVE  g[i] \in {0, kDisk.meta[i].text} /\ i <= kDisk.last
    BY DEF Fits
  <2>1. kGraph[i] \in {0, kDisk.meta[i].text} /\ i <= kDisk.last /\ kDisk.last <= kLastID
    BY DEF StoreFits, Fits
  <2>2. i \in Nat /\ kDisk.last \in Nat /\ kLastID \in Nat
    BY DEF DiskTyped, OnDisk, StoreTyped
  <2>3. i <= kLastID
    BY <2>1, <2>2
  <2> QED BY <2>1, <2>3
<1>6. kDisk.last <= l
  BY DEF StoreFits, DiskTyped, OnDisk, StoreTyped
<1>7. Fits(kDisk'.graph, kDisk.meta, kDisk.last)
  BY <1>2, <1>5 DEF StoreFits
<1>8. OneRun(kDisk.meta)
  BY DEF StoreFits
<1>9. /\ Fits(kGraph', kMeta', kLastID') /\ OneRun(kMeta')
      /\ Fits(kDisk'.graph, kDisk'.meta, kDisk'.last) /\ OneRun(kDisk'.meta)
      /\ Fits(kGraph', kDisk'.meta, kDisk'.last) /\ kDisk'.last <= kLastID'
      /\ kSave' = "meta" => kDisk'.graph = kGraph'
  BY <1>1, <1>2, <1>5, <1>6, <1>7, <1>8
<1>10. StoreFits'
  BY <1>9 DEF StoreFits, Fits, OneRun, K!Id, K!Nothing
<1> QED BY <1>3, <1>4, <1>10

\* The file's chunks are taken out of the store.
LEMMA RemoveKeepsStore ==
    ASSUME StoreTyped, DiskTyped, StoreFits, K!RemoveFile
    PROVE  StoreTyped' /\ DiskTyped' /\ StoreFits'
<1> USE BrainConstants
<1> DEFINE m == [i \in K!Id |-> K!Nothing]
           g == K!Without(kGraph, 0)
<1>1. kSave = "none" /\ kMeta' = m /\ K!Saved(g) /\ kLastID' = kLastID
  BY DEF K!RemoveFile
<1>2. g \in Graphs /\ \A i \in K!Id : g[i] \in {0, kGraph[i]}
  BY DEF K!Without, StoreTyped, Graphs, AVersion
<1>3. m \in Metas /\ \A i \in K!Id : m[i] = K!Nothing
  OBVIOUS
<1>4. Fits(g, m, kLastID) /\ OneRun(m)
  BY <1>3, NothingFits
<1>5. kLastID \in 0 .. MaxId /\ kLastID <= kLastID
  BY DEF StoreTyped
<1> HIDE DEF m, g
<1> QED BY <1>1, <1>2, <1>3, <1>4, <1>5, StoreChanges

\* The chunks of the text that was read take the place of the old ones.
LEMMA AddKeepsStore ==
    ASSUME StoreTyped, DiskTyped, StoreFits, NEW hash \in AVersion, NEW text \in AVersion,
           K!AddChunks(hash, text)
    PROVE  StoreTyped' /\ DiskTyped' /\ StoreFits'
<1> USE BrainConstants
<1>1. PICK new \in SUBSET K!Id : new = K!FirstId .. K!FirstId + text - 1
  BY DEF K!AddChunks
<1>2. \A i \in K!Id : i \in new <=> kLastID < i /\ i <= kLastID + text
  BY <1>1 DEF K!FirstId, StoreTyped, AVersion
<1> DEFINE c == [text |-> text, hash |-> hash]
           m == [i \in K!Id |-> IF i \in new THEN c ELSE K!Nothing]
           w == K!Without(kGraph, 0)
           g == [i \in K!Id |-> IF i \in new THEN text ELSE w[i]]
           l == K!FirstId + text - 1
<1>3. kSave = "none" /\ kMeta' = m /\ K!Saved(g) /\ kLastID' = l
  BY <1>1 DEF K!AddChunks
<1>4. l = kLastID + text /\ kLastID \in Nat /\ kLastID <= l
  BY DEF K!FirstId, StoreTyped, AVersion
<1>5. l \in 0 .. MaxId
  <2>1. CASE text = 0
    BY <1>4, <2>1 DEF StoreTyped
  <2>2. CASE text # 0
    <3>1. l \in K!FirstId .. K!FirstId + text - 1
      BY <1>4, <2>2 DEF K!FirstId, AVersion
    <3>2. l \in K!Id
      BY <1>1, <3>1
    <3> QED BY <3>2
  <2> QED BY <2>1, <2>2
<1>6. w \in Graphs /\ \A i \in K!Id : w[i] \in {0, kGraph[i]}
  BY DEF K!Without, StoreTyped, Graphs, AVersion
<1> HIDE DEF w
<1>7. g \in Graphs /\ \A i \in K!Id : g[i] = IF i \in new THEN text ELSE w[i]
  BY <1>6 DEF Graphs
<1>8. c \in K!Chunk /\ c.text = text
  BY DEF K!Chunk, AVersion
<1> HIDE DEF c
<1>9. m \in Metas /\ \A i \in K!Id : m[i] = IF i \in new THEN c ELSE K!Nothing
  BY <1>8 DEF Metas
<1> HIDE DEF g, m, l
<1>10. Fits(g, m, l)
  BY <1>2, <1>4, <1>7, <1>8, <1>9 DEF Fits
<1>11. OneRun(m)
  <2> SUFFICES ASSUME NEW i \in K!Id, NEW j \in K!Id, m[i] # K!Nothing, m[j] # K!Nothing
               PROVE  m[i] = m[j] /\ \A k \in i .. j : m[k] # K!Nothing
    BY DEF OneRun
  <2>1. i \in new /\ j \in new /\ m[i] = c /\ m[j] = c /\ c # K!Nothing
    BY <1>9
  <2>2. ASSUME NEW k \in i .. j PROVE k \in K!Id /\ k \in new
    <3>1. k \in K!Id
      OBVIOUS
    <3> QED BY <1>2, <1>4, <2>1, <3>1 DEF AVersion
  <2> QED BY <1>9, <2>1, <2>2
<1>12. \A i \in K!Id : i <= kLastID => g[i] \in {0, kGraph[i]}
  BY <1>2, <1>4, <1>6, <1>7
<1> QED BY <1>3, <1>4, <1>5, <1>7, <1>9, <1>10, <1>11, <1>12, StoreChanges

\* The chunks of one hash are taken out.
LEMMA RemoveByHashKeepsStore ==
    ASSUME StoreTyped, DiskTyped, StoreFits, NEW h, K!RemoveFileByHash(h)
    PROVE  StoreTyped' /\ DiskTyped' /\ StoreFits'
<1> USE BrainConstants
<1> DEFINE m == [i \in K!Id |-> IF kMeta[i].hash = h THEN K!Nothing ELSE kMeta[i]]
           g == [i \in K!Id |-> IF kMeta[i].hash = h THEN 0 ELSE kGraph[i]]
<1>1. kSave = "none" /\ kMeta' = m /\ K!Saved(g) /\ kLastID' = kLastID
  BY DEF K!RemoveFileByHash
<1>2. g \in Graphs /\ \A i \in K!Id : g[i] = IF kMeta[i].hash = h THEN 0 ELSE kGraph[i]
  BY DEF StoreTyped, Graphs, AVersion
<1>3. m \in Metas /\ \A i \in K!Id : m[i] = IF kMeta[i].hash = h THEN K!Nothing ELSE kMeta[i]
  BY DEF StoreTyped, Metas
<1> HIDE DEF m, g
<1>4. Fits(g, m, kLastID)
  BY <1>2, <1>3 DEF StoreFits, Fits
<1>5. OneRun(m)
  <2> SUFFICES ASSUME NEW i \in K!Id, NEW j \in K!Id, m[i] # K!Nothing, m[j] # K!Nothing
               PROVE  m[i] = m[j] /\ \A k \in i .. j : m[k] # K!Nothing
    BY DEF OneRun
  <2>1. /\ kMeta[i].hash # h /\ kMeta[j].hash # h /\ m[i] = kMeta[i] /\ m[j] = kMeta[j]
        /\ kMeta[i] # K!Nothing /\ kMeta[j] # K!Nothing
    BY <1>3
  <2>2. kMeta[i] = kMeta[j] /\ \A k \in i .. j : kMeta[k] # K!Nothing
    BY <2>1 DEF StoreFits, OneRun
  <2>3. ASSUME NEW k \in i .. j PROVE m[k] # K!Nothing
    <3>1. k \in K!Id
      OBVIOUS
    <3>2. kMeta[k] # K!Nothing
      BY <2>2
    <3>3. kMeta[i] = kMeta[k]
      BY <2>1, <3>1, <3>2 DEF StoreFits, OneRun
    <3> QED BY <1>3, <2>1, <3>1, <3>2, <3>3
  <2> QED BY <2>1, <2>2, <2>3
<1>6. \A i \in K!Id : i <= kLastID => g[i] \in {0, kGraph[i]}
  BY <1>2
<1>7. kLastID \in 0 .. MaxId /\ kLastID <= kLastID
  BY DEF StoreTyped
<1> QED BY <1>1, <1>2, <1>3, <1>4, <1>5, <1>6, <1>7, StoreChanges

\* A step that leaves the store alone.
LEMMA StoreStays ==
    ASSUME StoreTyped, DiskTyped, StoreFits, UNCHANGED <<kGraph, kMeta, kLastID, kSave, kDisk>>
    PROVE  StoreTyped' /\ DiskTyped' /\ StoreFits'
<1>1. StoreTyped' /\ DiskTyped'
  BY DEF StoreTyped, DiskTyped, OnDisk, Graphs, Metas, K!Id, AVersion, K!Chunk
<1>2. StoreFits'
  BY DEF StoreFits, Fits, OneRun, K!Id, K!Nothing
<1> QED BY <1>1, <1>2

\* Every step leaves the indexing, ends it, or takes it one step on.
LEMMA IndexStays ==
    ASSUME BrainTyped, K!Next
    PROVE  IndexTyped'
<1> USE BrainConstants
<1>0. kIndex \in AnIndex /\ kFile \in AVersion
  BY DEF BrainTyped, IndexTyped, AboutTyped
<1>1. ASSUME kIndex' = kIndex \/ kIndex' = K!Idle PROVE IndexTyped'
  BY <1>0, <1>1 DEF IndexTyped, AnIndex, AVersion
<1>2. CASE K!SaveMetadata \/ K!Restart \/ K!Remove \/ K!Removed
  BY <1>1, <1>2 DEF K!SaveMetadata, K!Restart, K!Remove, K!Removed
<1>3. CASE K!Quiet
  BY <1>3 DEF K!Quiet, K!Idle, IndexTyped, AnIndex, AVersion
<1>4. CASE K!Hash
  <2>1. CASE kIndex' = [kIndex EXCEPT !.pc = "read", !.hash = kFile]
    BY <1>0, <2>1 DEF IndexTyped, AnIndex, AVersion
  <2> QED BY <1>1, <1>4, <2>1 DEF K!Hash, K!Ends
<1>5. CASE K!Read
  <2>1. CASE kIndex' = [kIndex EXCEPT !.pc = "embed", !.text = kFile]
    BY <1>0, <2>1 DEF IndexTyped, AnIndex, AVersion
  <2> QED BY <1>1, <1>5, <2>1 DEF K!Read, K!Ends
<1>6. CASE K!Embed \/ K!EmbedFails
  BY <1>1, <1>6 DEF K!Embed, K!EmbedFails, K!Ends
<1>7. CASE \E v \in K!Version : K!Write(v) \/ K!RemoveFileByHash(v)
  BY <1>1, <1>7 DEF K!Write, K!RemoveFileByHash
<1>8. CASE \E s \in Sync : K!SyncAll(s) \/ K!Purge(s)
  <2>1. PICK s \in Sync : K!SyncAll(s) \/ K!Purge(s)
    BY <1>8
  <2>2. CASE kIndex' = [K!Idle EXCEPT !.pc = "hash", !.by = s]
    BY <2>2 DEF K!Idle, IndexTyped, AnIndex, AVersion
  <2> QED BY <1>1, <2>1, <2>2 DEF K!SyncAll, K!Purge
<1> QED BY <1>2, <1>3, <1>4, <1>5, <1>6, <1>7, <1>8 DEF K!Next

FileTyped == kFile \in AVersion
EventTyped == kEvent \in [write : BOOLEAN, remove : BOOLEAN]
SyncTyped == kSync \in [Sync -> [pc : {"idle", "wait", "purge", "done"}, found : BOOLEAN]]
CrashesTyped == kCrashes \in 0 .. MaxCrash

\* Every step keeps the types of the file, its events, the synchronisations and the crashes.
LEMMA AboutStays ==
    ASSUME AboutTyped, K!Next
    PROVE  AboutTyped'
<1> USE BrainConstants
<1>0. FileTyped /\ EventTyped /\ SyncTyped /\ CrashesTyped
  BY DEF AboutTyped, FileTyped, EventTyped, SyncTyped, CrashesTyped
<1> DEFINE End == [s \in Sync |-> IF kIndex.by = s THEN [kSync[s] EXCEPT !.pc = "purge"]
                                  ELSE kSync[s]]
<1>e. ASSUME kSync' = End PROVE SyncTyped'
  BY <1>0, <1>e DEF SyncTyped
<1>n. ASSUME UNCHANGED kSync PROVE SyncTyped'
  BY <1>0, <1>n DEF SyncTyped
<1>f. ASSUME UNCHANGED kFile PROVE FileTyped'
  BY <1>0, <1>f DEF FileTyped, AVersion
<1>v. ASSUME UNCHANGED kEvent PROVE EventTyped'
  BY <1>0, <1>v DEF EventTyped
<1>c. ASSUME UNCHANGED kCrashes PROVE CrashesTyped'
  BY <1>0, <1>c DEF CrashesTyped
<1> HIDE DEF End
<1> SUFFICES FileTyped' /\ EventTyped' /\ SyncTyped' /\ CrashesTyped'
  BY DEF AboutTyped, FileTyped, EventTyped, SyncTyped, CrashesTyped
<1>1. CASE K!SaveMetadata
  BY <1>1, <1>n, <1>f, <1>v, <1>c DEF K!SaveMetadata
<1>2. CASE K!Restart
  <2>1. kFile' = kFile /\ kEvent' = K!NoEvent /\ kCrashes < MaxCrash /\ kCrashes' = kCrashes + 1
    BY <1>2 DEF K!Restart
  <2>2. SyncTyped'
    BY <1>0, <1>2 DEF K!Restart, SyncTyped
  <2>3. EventTyped'
    BY <2>1 DEF EventTyped, K!NoEvent
  <2>4. CrashesTyped'
    BY <1>0, <2>1 DEF CrashesTyped
  <2> QED BY <1>f, <2>1, <2>2, <2>3, <2>4
<1>3. CASE K!Remove
  <2>1. FileTyped'
    BY <1>3 DEF K!Remove, FileTyped, AVersion
  <2>2. EventTyped'
    BY <1>0, <1>3 DEF K!Remove, EventTyped
  <2> QED BY <1>3, <1>n, <1>c, <2>1, <2>2 DEF K!Remove
<1>4. CASE K!Removed
  <2>1. EventTyped'
    BY <1>0, <1>4 DEF K!Removed, EventTyped
  <2> QED BY <1>4, <1>n, <1>c, <1>f, <2>1 DEF K!Removed
<1>5. CASE K!Quiet
  <2>1. EventTyped'
    BY <1>0, <1>5 DEF K!Quiet, EventTyped
  <2> QED BY <1>5, <1>n, <1>c, <1>f, <2>1 DEF K!Quiet
<1>6. CASE K!Hash \/ K!Read \/ K!Embed \/ K!EmbedFails
  <2>1. UNCHANGED <<kFile, kEvent, kCrashes>>
    BY <1>6 DEF K!Hash, K!Read, K!Embed, K!EmbedFails
  <2>2. UNCHANGED kSync \/ kSync' = End
    BY <1>6 DEF K!Hash, K!Read, K!Embed, K!EmbedFails, K!Ends, End
  <2> QED BY <1>e, <1>n, <1>f, <1>v, <1>c, <2>1, <2>2
<1>7. CASE \E v \in K!Version : K!Write(v)
  <2>1. FileTyped'
    BY <1>7 DEF K!Write, K!Version, FileTyped, AVersion
  <2>2. EventTyped'
    BY <1>0, <1>7 DEF K!Write, EventTyped
  <2> QED BY <1>7, <1>n, <1>c, <2>1, <2>2 DEF K!Write
<1>8. CASE \E v \in K!Version : K!RemoveFileByHash(v)
  BY <1>8, <1>n, <1>f, <1>v, <1>c DEF K!RemoveFileByHash
<1>9. CASE \E s \in Sync : K!SyncAll(s) \/ K!Purge(s)
  <2>1. PICK s \in Sync : K!SyncAll(s) \/ K!Purge(s)
    BY <1>9
  <2>2. UNCHANGED <<kFile, kEvent, kCrashes>>
    BY <2>1 DEF K!SyncAll, K!Purge
  <2>3. ASSUME K!SyncAll(s) PROVE SyncTyped'
    <3>1. PICK r \in [pc : {"idle", "wait", "purge", "done"}, found : BOOLEAN] :
            kSync' = [kSync EXCEPT ![s] = r]
      <4>1. /\ [pc |-> "wait", found |-> TRUE] \in [pc : {"idle", "wait", "purge", "done"}, found : BOOLEAN]
            /\ [pc |-> "purge", found |-> FALSE] \in [pc : {"idle", "wait", "purge", "done"}, found : BOOLEAN]
        OBVIOUS
      <4> QED BY <2>3, <4>1 DEF K!SyncAll
    <3> QED BY <1>0, <3>1 DEF SyncTyped
  <2>4. ASSUME K!Purge(s) PROVE SyncTyped'
    <3>1. kSync' = [kSync EXCEPT ![s].pc = "done"]
      BY <2>4 DEF K!Purge
    <3> QED BY <1>0, <3>1 DEF SyncTyped
  <2>5. SyncTyped'
    BY <2>1, <2>3, <2>4
  <2> QED BY <1>f, <1>v, <1>c, <2>2, <2>5
<1> QED BY <1>1, <1>2, <1>3, <1>4, <1>5, <1>6, <1>7, <1>8, <1>9 DEF K!Next

\* The metadata are saved as they are, or torn: either way they fit the vectors on disk.
LEMMA SaveKeepsStore ==
    ASSUME StoreTyped, DiskTyped, StoreFits, K!SaveMetadata
    PROVE  StoreTyped' /\ DiskTyped' /\ StoreFits'
<1> USE BrainConstants
<1> DEFINE none == [i \in K!Id |-> K!Nothing]
<1>1. /\ kSave = "meta" /\ kSave' = "none" /\ UNCHANGED <<kGraph, kMeta, kLastID>>
      /\ \/ kDisk' = [kDisk EXCEPT !.meta = kMeta, !.last = kLastID]
         \/ kDisk' = [kDisk EXCEPT !.meta = none, !.last = 0]
  BY DEF K!SaveMetadata
<1>2. none \in Metas /\ \A i \in K!Id : none[i] = K!Nothing
  OBVIOUS
<1> HIDE DEF none
<1>3. PICK m \in Metas, l \in 0 .. MaxId :
        /\ kDisk' = [kDisk EXCEPT !.meta = m, !.last = l] /\ l <= kLastID
        /\ (m = kMeta /\ l = kLastID) \/ m = none
  <2>1. kMeta \in Metas /\ kLastID \in 0 .. MaxId /\ 0 \in 0 .. MaxId
    BY DEF StoreTyped
  <2>2. 0 <= kLastID /\ kLastID <= kLastID
    BY <2>1
  <2>3. CASE kDisk' = [kDisk EXCEPT !.meta = kMeta, !.last = kLastID]
    BY <2>1, <2>2, <2>3
  <2>4. CASE kDisk' = [kDisk EXCEPT !.meta = none, !.last = 0]
    BY <1>2, <2>1, <2>2, <2>4
  <2> QED BY <1>1, <2>3, <2>4
<1>4. /\ kDisk' \in OnDisk /\ kDisk'.meta = m /\ kDisk'.last = l
      /\ kDisk'.graph = kDisk.graph /\ kDisk.graph = kGraph
  BY <1>1, <1>3 DEF DiskTyped, OnDisk, StoreFits
<1>5. Fits(kGraph, m, l) /\ OneRun(m)
  BY <1>2, <1>3, NothingFits DEF StoreFits
<1>6. StoreTyped'
  BY <1>1 DEF StoreTyped, Graphs, Metas, K!Id, AVersion, K!Chunk
<1>7. DiskTyped'
  BY <1>4 DEF DiskTyped, OnDisk, Graphs, Metas, K!Id, AVersion, K!Chunk
<1>8. Fits(kGraph, kMeta, kLastID) /\ OneRun(kMeta)
  BY DEF StoreFits
<1>9. StoreFits'
  BY <1>1, <1>3, <1>4, <1>5, <1>8 DEF StoreFits, Fits, OneRun, K!Id, K!Nothing
<1> QED BY <1>6, <1>7, <1>9

\* A restart loads what is on disk.
LEMMA RestartKeepsStore ==
    ASSUME StoreTyped, DiskTyped, StoreFits, K!Restart
    PROVE  StoreTyped' /\ DiskTyped' /\ StoreFits'
<1> USE BrainConstants
<1> DEFINE none == [i \in K!Id |-> K!Nothing]
<1>1. /\ kSave' = "none" /\ kGraph' = kDisk.graph /\ kMeta' = kDisk'.meta
      /\ kLastID' = kDisk'.last
      /\ UNCHANGED kDisk \/ kDisk' = [kDisk EXCEPT !.meta = none, !.last = 0]
  BY DEF K!Restart
<1>2. none \in Metas /\ \A i \in K!Id : none[i] = K!Nothing
  OBVIOUS
<1> HIDE DEF none
<1> DEFINE Loads ==
             /\ kDisk' \in OnDisk /\ kDisk'.graph = kDisk.graph
             /\ \/ kDisk'.meta = kDisk.meta /\ kDisk'.last = kDisk.last
                \/ kDisk'.meta = none /\ kDisk'.last = 0
<1>3. Loads
  <2>1. CASE UNCHANGED kDisk
    BY <2>1 DEF DiskTyped
  <2>2. CASE kDisk' = [kDisk EXCEPT !.meta = none, !.last = 0]
    <3>1. kDisk \in OnDisk /\ 0 \in 0 .. MaxId
      BY DEF DiskTyped
    <3>2. kDisk' \in OnDisk /\ kDisk'.graph = kDisk.graph
      BY <1>2, <2>2, <3>1 DEF OnDisk
    <3>3. kDisk'.meta = none /\ kDisk'.last = 0
      BY <2>2, <3>1 DEF OnDisk
    <3> QED BY <3>2, <3>3
  <2> QED BY <1>1, <2>1, <2>2
<1>4. DiskTyped'
  BY <1>3 DEF DiskTyped, OnDisk, Graphs, Metas, K!Id, AVersion, K!Chunk
<1>5. kGraph' \in Graphs /\ kMeta' \in Metas /\ kLastID' \in 0 .. MaxId
  BY <1>1, <1>3 DEF OnDisk
<1>6. StoreTyped'
  BY <1>1, <1>5 DEF StoreTyped, Graphs, Metas, K!Id, AVersion, K!Chunk
<1>7. Fits(kDisk.graph, kDisk'.meta, kDisk'.last) /\ OneRun(kDisk'.meta)
  BY <1>2, <1>3, NothingFits DEF StoreFits
<1>8. kLastID' <= kLastID'
  BY <1>5
<1>9. StoreFits'
  BY <1>1, <1>3, <1>7, <1>8 DEF StoreFits, Fits, OneRun, K!Id, K!Nothing
<1> QED BY <1>4, <1>6, <1>9

\* Every step of the index keeps its invariant.
LEMMA BrainInvStays == BrainInv /\ [K!Next]_(K!vars) => BrainInv'
<1> SUFFICES ASSUME BrainInv, [K!Next]_(K!vars) PROVE BrainInv'
  OBVIOUS
<1>0. StoreTyped /\ DiskTyped /\ IndexTyped /\ AboutTyped /\ StoreFits /\ BrainTyped
  BY DEF BrainInv, BrainTyped
<1>1. CASE UNCHANGED K!vars
  <2>1. IndexTyped'
    BY <1>0, <1>1 DEF K!vars, IndexTyped, AnIndex, AVersion
  <2>2. AboutTyped'
    BY <1>0, <1>1 DEF K!vars, AboutTyped, AVersion
  <2>3. StoreTyped' /\ DiskTyped' /\ StoreFits'
    BY <1>0, <1>1, StoreStays DEF K!vars
  <2> QED BY <2>1, <2>2, <2>3 DEF BrainInv, BrainTyped
<1>2. CASE K!Next
  <2>s. ASSUME UNCHANGED K!store PROVE StoreTyped' /\ DiskTyped' /\ StoreFits'
    BY <1>0, <2>s, StoreStays DEF K!store
  <2>1. StoreTyped' /\ DiskTyped' /\ StoreFits'
    <3>1. CASE K!SaveMetadata
      BY <1>0, <3>1, SaveKeepsStore
    <3>2. CASE K!Restart
      BY <1>0, <3>2, RestartKeepsStore
    <3>3. CASE K!RemoveFile
      BY <1>0, <3>3, RemoveKeepsStore
    <3>4. CASE K!Remove \/ K!Quiet \/ K!Read \/ K!EmbedFails
      BY <2>s, <3>4 DEF K!Remove, K!Quiet, K!Read, K!EmbedFails
    <3>5. CASE K!Removed \/ K!Hash
      BY <2>s, <3>3, <3>5 DEF K!Removed, K!Hash
    <3>6. CASE K!Embed
      <4>1. kIndex.hash \in AVersion /\ kIndex.text \in AVersion
        BY <1>0 DEF IndexTyped, AnIndex
      <4>2. K!AddChunks(kIndex.hash, kIndex.text)
        BY <3>6 DEF K!Embed
      <4> QED BY <1>0, <4>1, <4>2, AddKeepsStore
    <3>7. CASE \E v \in K!Version : K!Write(v) \/ K!RemoveFileByHash(v)
      <4>1. PICK v \in K!Version : K!Write(v) \/ K!RemoveFileByHash(v)
        BY <3>7
      <4>2. CASE K!Write(v)
        BY <2>s, <4>2 DEF K!Write
      <4>3. CASE K!RemoveFileByHash(v)
        BY <1>0, <4>3, RemoveByHashKeepsStore
      <4> QED BY <4>1, <4>2, <4>3
    <3>8. CASE \E s \in Sync : K!SyncAll(s) \/ K!Purge(s)
      BY <2>s, <3>3, <3>8 DEF K!SyncAll, K!Purge
    <3> QED BY <1>2, <3>1, <3>2, <3>4, <3>5, <3>6, <3>7, <3>8 DEF K!Next
  <2> QED BY <1>0, <1>2, <2>1, IndexStays, AboutStays DEF BrainInv, BrainTyped
<1> QED BY <1>1, <1>2

\* The invariant gives the type invariant and the properties of the index.
LEMMA BrainHolds == BrainInv => K!TypeOK /\ K!VectorIsOfItsText /\ K!OneVersionIndexed
<1> SUFFICES ASSUME BrainInv PROVE K!TypeOK /\ K!VectorIsOfItsText /\ K!OneVersionIndexed
  OBVIOUS
<1> USE BrainConstants
<1>1. K!TypeOK
  BY DEF BrainInv, BrainTyped, StoreTyped, DiskTyped, IndexTyped, AboutTyped, OnDisk, Graphs,
         Metas, AnIndex, AVersion, K!TypeOK
<1>2. Fits(kGraph, kMeta, kLastID) /\ OneRun(kMeta)
  BY DEF BrainInv, StoreFits
<1>3. K!VectorIsOfItsText
  BY <1>2 DEF K!VectorIsOfItsText, K!Indexed, Fits
<1>4. K!OneVersionIndexed
  <2> SUFFICES ASSUME NEW i \in K!Indexed, NEW j \in K!Indexed
               PROVE  kMeta[i] = kMeta[j] /\ \A k \in i .. j : k \in K!Indexed
    BY DEF K!OneVersionIndexed
  <2>1. kMeta[i] = kMeta[j] /\ \A k \in i .. j : kMeta[k] # K!Nothing
    BY <1>2 DEF OneRun, K!Indexed
  <2>2. i \in 1 .. MaxId /\ j \in 1 .. MaxId
    BY DEF K!Indexed
  <2>3. \A k \in i .. j : k \in K!Id
    BY <2>2
  <2> QED BY <2>1, <2>3 DEF K!Indexed
<1> QED BY <1>1, <1>3, <1>4

-----------------------------------------------------------------------------
(* Files *)

AChunk == 0 .. MaxUploads
AGet == [pc : {"idle", "copy"}, from : SUBSET Writer, size : 0 .. Chunks, got : Seq(AChunk)]
FilesKept == fFile \in [F!Members -> Seq(AChunk)] /\ \A n \in F!Members : Len(fFile[n]) <= Chunks
UploadsTyped == fUpload \in [Writer -> AChunk] /\ fVersion \in AChunk
SetsTyped ==
    /\ fPending \subseteq Writer /\ fFailed \subseteq Writer /\ fKnown \subseteq Writer
    /\ fClean \subseteq Reader /\ fDoubtful \subseteq Reader /\ fCrashes \in 0 .. MaxFileCrashes
GetsTyped == fGet \in [Reader -> AGet]
FilesTyped == FilesKept /\ UploadsTyped /\ SetsTyped /\ GetsTyped

\* What is being written has chunks of its own version only, and is noted in the log.
UploadsAreOwn ==
    \A n \in Writer : fUpload[n] # 0 =>
        n \in fPending /\ \A i \in DOMAIN fFile[n] : fFile[n][i] = fUpload[n]

\* A clean download has a part of a whole file that nobody is writing, from one node.
IsOf(g, n) ==
    /\ g.from = {n} /\ g.size = Chunks /\ fUpload[n] = 0 /\ F!Whole(fFile[n])
    /\ \A i \in DOMAIN g.got : g.got[i] = fFile[n][i]
CleanIsOfWhole ==
    \A r \in fClean : fGet[r].pc = "copy" => \E n \in Writer : IsOf(fGet[r], n)
FilesInv ==
    FilesTyped /\ UploadsAreOwn /\ CleanIsOfWhole /\ F!NoHalfIsLeft /\ F!CopyIsWhole

\* What the assumption says of the constants of the files.
LEMMA FilesConstants ==
    /\ Chunks \in Nat \ {0} /\ MaxUploads \in Nat /\ MaxFileCrashes \in Nat
    /\ \A r \in Reader : r \notin Writer /\ r \in F!Members
    /\ \A n \in Writer : n \notin Reader /\ n \in F!Members
    /\ F!NoFile \in Seq(AChunk) /\ Len(F!NoFile) = 1 /\ F!NoGet \in AGet
    /\ F!NoGet.pc = "idle"
<1>1. Chunks \in Nat \ {0} /\ MaxUploads \in Nat /\ MaxFileCrashes \in Nat
  BY PartsAssumption DEF F!FilesAssumption
<1>2. /\ \A r \in Reader : r \notin Writer /\ r \in F!Members
      /\ \A n \in Writer : n \notin Reader /\ n \in F!Members
  BY PartsAssumption DEF F!FilesAssumption, F!Members
<1>3. F!NoFile \in Seq(AChunk) /\ Len(F!NoFile) = 1
  BY <1>1 DEF F!NoFile, AChunk
<1>4. F!NoGet \in AGet /\ F!NoGet.pc = "idle"
  BY <1>1 DEF F!NoGet, AGet
<1> QED BY <1>1, <1>2, <1>3, <1>4

\* A sequence that grows keeps what it had.
LEMMA FileGrows ==
    ASSUME NEW S, NEW f \in Seq(S), NEW x \in S
    PROVE  /\ Append(f, x) \in Seq(S) /\ Len(Append(f, x)) = Len(f) + 1 /\ Len(f) \in Nat
           /\ \A i \in DOMAIN f : Append(f, x)[i] = f[i]
           /\ \A i \in DOMAIN Append(f, x) : i \in DOMAIN f \/ (i = Len(f) + 1 /\ Append(f, x)[i] = x)
OBVIOUS

\* The files of a node begin in their invariant.
LEMMA FilesStart == F!Init => FilesInv
<1> SUFFICES ASSUME F!Init PROVE FilesInv
  OBVIOUS
<1> USE FilesConstants DEF F!Init
<1>1. FilesKept
  <2>1. fFile \in [F!Members -> Seq(AChunk)]
    OBVIOUS
  <2>2. \A n \in F!Members : fFile[n] = F!NoFile
    OBVIOUS
  <2>3. Len(F!NoFile) <= Chunks
    OBVIOUS
  <2> QED BY <2>1, <2>2, <2>3 DEF FilesKept
<1>2. UploadsTyped /\ SetsTyped
  BY DEF UploadsTyped, SetsTyped, AChunk
<1>3. GetsTyped
  BY DEF GetsTyped
<1>4. UploadsAreOwn /\ CleanIsOfWhole
  BY DEF UploadsAreOwn, CleanIsOfWhole
<1>5. F!NoHalfIsLeft /\ F!CopyIsWhole
  BY DEF F!NoHalfIsLeft, F!CopyIsWhole
<1> QED BY <1>1, <1>2, <1>3, <1>4, <1>5 DEF FilesInv, FilesTyped

\* Every step of the files keeps their invariant.
LEMMA FilesInvStays == FilesInv /\ [F!Next]_(F!vars) => FilesInv'
<1> SUFFICES ASSUME FilesInv, [F!Next]_(F!vars) PROVE FilesInv'
  OBVIOUS
<1> USE FilesConstants
<1>0. /\ FilesKept /\ UploadsTyped /\ SetsTyped /\ GetsTyped /\ UploadsAreOwn /\ CleanIsOfWhole
      /\ F!NoHalfIsLeft /\ F!CopyIsWhole
      /\ \A n \in F!Members : fFile[n] \in Seq(AChunk)
      /\ \A n \in Writer : fUpload[n] \in AChunk
      /\ \A r \in Reader : fGet[r] \in AGet
  BY DEF FilesInv, FilesTyped, FilesKept, UploadsTyped, GetsTyped
\* An uploading node writes its file: f are the chunks it has then.
<1>1. ASSUME NEW n \in Writer, NEW f \in Seq(AChunk), Len(f) <= Chunks,
             fFile' = [fFile EXCEPT ![n] = f], NEW u \in AChunk \ {0},
             fUpload' = [fUpload EXCEPT ![n] = u], \A i \in DOMAIN f : f[i] = u,
             fPending' = fPending \cup {n},
             \A r \in fClean' : r \in fClean /\ ~(fGet[r].pc = "copy" /\ IsOf(fGet[r], n)),
             fVersion' \in AChunk, UNCHANGED <<fFailed, fKnown, fGet, fDoubtful, fCrashes>>
      PROVE  FilesInv'
  <2>1. /\ fFile'[n] = f /\ \A m \in F!Members \ {n} : fFile'[m] = fFile[m]
        /\ fUpload'[n] = u /\ \A m \in Writer \ {n} : fUpload'[m] = fUpload[m]
    BY <1>0, <1>1 DEF FilesKept, UploadsTyped
  <2>2. FilesKept'
    BY <1>0, <1>1, <2>1 DEF FilesKept, F!Members, AChunk
  <2>3. UploadsTyped' /\ GetsTyped'
    BY <1>0, <1>1 DEF UploadsTyped, GetsTyped, AGet, AChunk
  <2>4. SetsTyped'
    BY <1>0, <1>1 DEF SetsTyped
  <2>5. UploadsAreOwn'
    BY <1>0, <1>1, <2>1 DEF UploadsAreOwn
  <2>6. CleanIsOfWhole'
    <3> SUFFICES ASSUME NEW r \in fClean', fGet'[r].pc = "copy"
                 PROVE  \E m \in Writer : IsOf(fGet[r], m)'
      BY <1>1 DEF CleanIsOfWhole, IsOf
    <3>1. PICK m \in Writer : IsOf(fGet[r], m)
      BY <1>0, <1>1 DEF CleanIsOfWhole
    <3>2. m # n
      BY <1>1, <3>1
    <3>3. IsOf(fGet[r], m)'
      BY <1>1, <2>1, <3>1, <3>2 DEF IsOf
    <3> QED BY <3>3
  <2>7. F!NoHalfIsLeft'
    BY <1>0, <1>1, <2>1 DEF F!NoHalfIsLeft
  <2>8. F!CopyIsWhole'
    BY <1>0, <1>1, <2>1 DEF F!CopyIsWhole
  <2> QED BY <2>2, <2>3, <2>4, <2>5, <2>6, <2>7, <2>8 DEF FilesInv, FilesTyped
<1>2. ASSUME NEW n \in Writer, F!Truncate(n) PROVE FilesInv'
  <2>1. /\ fFile' = [fFile EXCEPT ![n] = <<>>] /\ fUpload' = [fUpload EXCEPT ![n] = fVersion']
        /\ fVersion' = fVersion + 1 /\ fVersion < MaxUploads
        /\ fPending' = fPending \cup {n}
        /\ fClean' = {r \in fClean : n \notin fGet[r].from}
        /\ UNCHANGED <<fFailed, fKnown, fGet, fDoubtful, fCrashes>>
    BY <1>2 DEF F!Truncate
  <2>2. fVersion' \in AChunk \ {0}
    BY <1>0, <2>1 DEF UploadsTyped, AChunk
  <2>3. \A r \in fClean' : r \in fClean /\ ~(fGet[r].pc = "copy" /\ IsOf(fGet[r], n))
    BY <2>1 DEF IsOf
  <2>4. PICK f \in Seq(AChunk) : f = <<>>
    <3>1. <<>> \in Seq(AChunk)
      OBVIOUS
    <3> QED BY <3>1
  <2>5. Len(f) <= Chunks /\ DOMAIN f = {}
    BY <2>4
  <2> QED BY <1>1, <2>1, <2>2, <2>3, <2>4, <2>5
<1>3. ASSUME NEW n \in Writer, F!WriteChunk(n) PROVE FilesInv'
  <2>1. /\ fUpload[n] # 0 /\ Len(fFile[n]) < Chunks
        /\ fFile' = [fFile EXCEPT ![n] = Append(fFile[n], fUpload[n])]
        /\ UNCHANGED <<fPending, fUpload, fVersion, fFailed, fCrashes, fKnown, fGet, fClean,
                       fDoubtful>>
    BY <1>0, <1>3 DEF F!WriteChunk, F!Reading
  <2>2. PICK f \in Seq(AChunk) : f = Append(fFile[n], fUpload[n])
    <3>1. fFile[n] \in Seq(AChunk) /\ fUpload[n] \in AChunk
      BY <1>0
    <3>2. Append(fFile[n], fUpload[n]) \in Seq(AChunk)
      BY <3>1, FileGrows
    <3> QED BY <3>2
  <2>3. /\ Len(f) <= Chunks /\ \A i \in DOMAIN f : f[i] = fUpload[n]
        /\ n \in fPending
    BY <1>0, <2>1, <2>2, FileGrows DEF UploadsAreOwn
  <2>4. fUpload' = [fUpload EXCEPT ![n] = fUpload[n]] /\ fPending' = fPending \cup {n}
    BY <1>0, <2>1, <2>3 DEF UploadsTyped
  <2>5. \A r \in fClean' : r \in fClean /\ ~(fGet[r].pc = "copy" /\ IsOf(fGet[r], n))
    BY <2>1 DEF IsOf
  <2>6. fUpload[n] \in AChunk \ {0} /\ fVersion' \in AChunk
    BY <1>0, <2>1 DEF UploadsTyped
  <2>7. /\ fFile' = [fFile EXCEPT ![n] = f]
        /\ UNCHANGED <<fFailed, fKnown, fGet, fDoubtful, fCrashes>>
    BY <2>1, <2>2
  <2> QED BY <1>1, <2>3, <2>4, <2>5, <2>6, <2>7
\* An upload is over; its file is whole, or it failed.
<1>4. ASSUME NEW n \in Writer, F!WriteFails(n) \/ F!WriteEnds(n) PROVE FilesInv'
  <2>1. /\ fUpload[n] # 0 /\ fUpload' = [fUpload EXCEPT ![n] = 0]
        /\ fPending' = fPending \ {n}
        /\ UNCHANGED <<fFile, fVersion, fGet, fClean, fDoubtful, fCrashes>>
        /\ fFailed' \subseteq fFailed \cup {n} /\ fFailed \subseteq fFailed' \cup {n}
        /\ fKnown' \subseteq fKnown \cup {n}
        /\ n \in fFailed' \/ Len(fFile[n]) = Chunks
    BY <1>0, <1>4 DEF F!WriteFails, F!WriteEnds, F!Heard, F!Reading
  <2>2. /\ fUpload'[n] = 0 /\ \A m \in Writer \ {n} : fUpload'[m] = fUpload[m]
    BY <1>0, <2>1 DEF UploadsTyped
  <2>3. FilesKept' /\ UploadsTyped' /\ GetsTyped'
    BY <1>0, <2>1 DEF FilesKept, UploadsTyped, GetsTyped, AGet, AChunk, F!Members
  <2>4. SetsTyped'
    BY <1>0, <2>1 DEF SetsTyped
  <2>5. UploadsAreOwn'
    BY <1>0, <2>1, <2>2 DEF UploadsAreOwn
  <2>6. CleanIsOfWhole'
    BY <1>0, <2>1, <2>2 DEF CleanIsOfWhole, IsOf
  <2>7. n \in fFailed' \/ F!Whole(fFile[n])
    <3>1. CASE Len(fFile[n]) = Chunks
      <4>1. /\ \A i \in DOMAIN fFile[n] : fFile[n][i] = fUpload[n] /\ fUpload[n] > 0
            /\ 1 \in DOMAIN fFile[n]
        BY <1>0, <2>1, <3>1 DEF UploadsAreOwn, AChunk
      <4> QED BY <3>1, <4>1 DEF F!Whole
    <3> QED BY <2>1, <3>1
  <2>8. F!NoHalfIsLeft'
    <3> SUFFICES ASSUME NEW m \in Writer \ fFailed', fUpload'[m] = 0
                 PROVE  fFile'[m] = F!NoFile \/ F!Whole(fFile[m])'
      BY DEF F!NoHalfIsLeft
    <3>1. CASE m = n
      BY <2>1, <2>7, <3>1
    <3>2. CASE m # n
      <4>1. m \notin fFailed /\ fUpload[m] = 0
        BY <2>1, <2>2, <3>2
      <4>2. fFile[m] = F!NoFile \/ F!Whole(fFile[m])
        BY <1>0, <4>1 DEF F!NoHalfIsLeft
      <4> QED BY <2>1, <4>2
    <3> QED BY <3>1, <3>2
  <2>9. F!CopyIsWhole'
    BY <1>0, <2>1 DEF F!CopyIsWhole
  <2> QED BY <2>3, <2>4, <2>5, <2>6, <2>8, <2>9 DEF FilesInv, FilesTyped
\* A reader goes on with its download, which is clean or is not.
<1>5. ASSUME NEW r \in Reader, NEW g \in AGet, fGet' = [fGet EXCEPT ![r] = g],
             fClean' \subseteq fClean \cup {r},
             r \in fClean' /\ g.pc = "copy" => \E n \in Writer : IsOf(g, n),
             UNCHANGED <<fFile, fPending, fUpload, fVersion, fFailed, fKnown, fDoubtful, fCrashes>>
      PROVE  FilesInv'
  <2>1. FilesKept' /\ UploadsTyped' /\ UploadsAreOwn' /\ F!NoHalfIsLeft' /\ F!CopyIsWhole'
    BY <1>0, <1>5
    DEF FilesKept, F!Members, UploadsTyped, AChunk, UploadsAreOwn, F!NoHalfIsLeft, F!CopyIsWhole
  <2>2. SetsTyped'
    BY <1>0, <1>5 DEF SetsTyped
  <2>3. GetsTyped'
    BY <1>0, <1>5 DEF GetsTyped, AGet, AChunk
  <2>4. fGet'[r] = g /\ \A q \in Reader \ {r} : fGet'[q] = fGet[q]
    BY <1>0, <1>5 DEF GetsTyped
  <2>5. CleanIsOfWhole'
    <3> SUFFICES ASSUME NEW q \in fClean', fGet'[q].pc = "copy"
                 PROVE  \E n \in Writer : IsOf(fGet[q], n)'
      BY DEF CleanIsOfWhole
    <3>1. CASE q = r
      <4>1. PICK n \in Writer : IsOf(g, n)
        BY <1>5, <2>4, <3>1
      <4>2. IsOf(fGet[q], n)'
        BY <1>5, <2>4, <3>1, <4>1 DEF IsOf
      <4> QED BY <4>2
    <3>2. CASE q # r
      <4>1. q \in fClean /\ q \in Reader /\ fGet'[q] = fGet[q]
        BY <1>0, <1>5, <2>4, <3>2 DEF SetsTyped
      <4>2. PICK n \in Writer : IsOf(fGet[q], n)
        BY <1>0, <4>1 DEF CleanIsOfWhole
      <4>3. IsOf(fGet[q], n)'
        BY <1>5, <4>1, <4>2 DEF IsOf
      <4> QED BY <4>3
    <3> QED BY <3>1, <3>2
  <2> QED BY <2>1, <2>2, <2>3, <2>5 DEF FilesInv, FilesTyped
<1>6. ASSUME NEW r \in Reader, F!Request(r) PROVE FilesInv'
  <2>1. PICK n \in fKnown :
          /\ fGet' = [fGet EXCEPT ![r] = [pc |-> "copy", from |-> {n}, size |-> Len(fFile[n]),
                                          got |-> <<>>]]
          /\ fClean' = IF fUpload[n] = 0 /\ F!Whole(fFile[n]) THEN fClean \cup {r} ELSE fClean \ {r}
    BY <1>6 DEF F!Request
  <2>2. UNCHANGED <<fFile, fPending, fUpload, fVersion, fFailed, fKnown, fDoubtful, fCrashes>>
    BY <1>6 DEF F!Request
  <2>3. n \in Writer
    BY <1>0 DEF SetsTyped
  <2>4. PICK g \in AGet : /\ g = [pc |-> "copy", from |-> {n}, size |-> Len(fFile[n]), got |-> <<>>]
    <3>1. Len(fFile[n]) \in 0 .. Chunks
      BY <1>0, <2>3 DEF FilesKept
    <3>2. {n} \in SUBSET Writer /\ <<>> \in Seq(AChunk)
      BY <2>3
    <3> QED BY <3>1, <3>2 DEF AGet
  <2>5. r \in fClean' => IsOf(g, n)
    <3>1. g.from = {n} /\ g.size = Len(fFile[n]) /\ DOMAIN g.got = {}
      BY <2>4
    <3> QED BY <2>1, <3>1 DEF IsOf, F!Whole
  <2>6. fGet' = [fGet EXCEPT ![r] = g] /\ fClean' \subseteq fClean \cup {r}
    BY <2>1, <2>4
  <2> QED BY <1>5, <2>2, <2>3, <2>5, <2>6
<1>7. ASSUME NEW r \in Reader, F!Breaks(r) PROVE FilesInv'
  BY <1>0, <1>5, <1>7 DEF F!Breaks
<1>8. ASSUME NEW r \in Reader, F!Copy(r) PROVE FilesInv'
  <2>1. PICK n \in fGet[r].from :
          /\ Len(fGet[r].got) < Len(fFile[n])
          /\ fGet' = [fGet EXCEPT ![r].got = Append(fGet[r].got, fFile[n][Len(fGet[r].got) + 1])]
    BY <1>8 DEF F!Copy
  <2>2. /\ fGet[r].pc = "copy" /\ UNCHANGED fClean
        /\ UNCHANGED <<fFile, fPending, fUpload, fVersion, fFailed, fKnown, fDoubtful, fCrashes>>
    BY <1>8 DEF F!Copy
  <2>3. fGet[r] \in AGet /\ n \in Writer /\ fGet[r].got \in Seq(AChunk)
    BY <1>0 DEF AGet
  <2>4. PICK c \in AChunk : c = fFile[n][Len(fGet[r].got) + 1]
    BY <1>0, <2>1, <2>3
  <2>5. PICK f \in Seq(AChunk) : f = Append(fGet[r].got, c)
    <3>1. Append(fGet[r].got, c) \in Seq(AChunk)
      BY <2>3, FileGrows
    <3> QED BY <3>1
  <2> DEFINE g == [fGet[r] EXCEPT !.got = f]
  <2>6. g \in AGet /\ g.pc = "copy" /\ g.from = fGet[r].from /\ g.size = fGet[r].size /\ g.got = f
    BY <2>2, <2>3 DEF AGet
  <2>7. fGet' = [fGet EXCEPT ![r] = g]
    BY <1>0, <2>1, <2>4, <2>5 DEF GetsTyped, AGet
  <2> HIDE DEF g
  <2>8. ASSUME r \in fClean PROVE IsOf(g, n)
    <3>1. IsOf(fGet[r], n)
      <4>1. PICK m \in Writer : IsOf(fGet[r], m)
        BY <1>0, <2>2, <2>8 DEF CleanIsOfWhole
      <4>2. m = n
        BY <4>1 DEF IsOf
      <4> QED BY <4>1, <4>2
    <3>2. \A i \in DOMAIN f : i \in DOMAIN fGet[r].got \/ i = Len(fGet[r].got) + 1
      BY <2>3, <2>5, FileGrows
    <3>3. \A i \in DOMAIN f : f[i] = fFile[n][i]
      BY <2>3, <2>4, <2>5, <3>1, <3>2, FileGrows DEF IsOf
    <3> QED BY <2>6, <3>1, <3>3 DEF IsOf
  <2> QED BY <1>5, <2>2, <2>3, <2>6, <2>7, <2>8
<1>9. ASSUME NEW r \in Reader, F!Rename(r) PROVE FilesInv'
  <2>1. /\ fGet[r].pc = "copy" /\ Len(fGet[r].got) = fGet[r].size
        /\ fFile' = [fFile EXCEPT ![r] = fGet[r].got] /\ fGet' = [fGet EXCEPT ![r] = F!NoGet]
        /\ fDoubtful' = IF r \in fClean THEN fDoubtful \ {r} ELSE fDoubtful \cup {r}
        /\ UNCHANGED <<fPending, fUpload, fVersion, fFailed, fKnown, fClean, fCrashes>>
    BY <1>9 DEF F!Rename
  <2>2. /\ fGet[r].got \in Seq(AChunk) /\ Len(fGet[r].got) <= Chunks
    BY <1>0, <2>1 DEF AGet
  <2>3. /\ fFile'[r] = fGet[r].got /\ \A m \in F!Members \ {r} : fFile'[m] = fFile[m]
        /\ fGet'[r] = F!NoGet /\ \A q \in Reader \ {r} : fGet'[q] = fGet[q]
    BY <1>0, <2>1 DEF FilesKept, GetsTyped
  <2>4. FilesKept'
    BY <1>0, <2>1, <2>2, <2>3 DEF FilesKept, F!Members, AChunk
  <2>5. UploadsTyped' /\ GetsTyped'
    BY <1>0, <2>1 DEF UploadsTyped, GetsTyped, AGet, AChunk
  <2>6. SetsTyped'
    BY <1>0, <2>1 DEF SetsTyped
  <2>7. \A m \in Writer : fFile'[m] = fFile[m]
    BY <2>3
  <2>8. UploadsAreOwn' /\ F!NoHalfIsLeft'
    BY <1>0, <2>1, <2>7 DEF UploadsAreOwn, F!NoHalfIsLeft
  <2>9. CleanIsOfWhole'
    <3> SUFFICES ASSUME NEW q \in fClean', fGet'[q].pc = "copy"
                 PROVE  \E n \in Writer : IsOf(fGet[q], n)'
      BY DEF CleanIsOfWhole
    <3>1. q \in fClean /\ fGet'[q] = fGet[q]
      BY <1>0, <2>1, <2>3 DEF SetsTyped
    <3>2. PICK n \in Writer : IsOf(fGet[q], n)
      BY <1>0, <3>1 DEF CleanIsOfWhole
    <3>3. IsOf(fGet[q], n)'
      BY <2>1, <2>7, <3>1, <3>2 DEF IsOf
    <3> QED BY <3>3
  <2>10. r \in fClean => F!Whole(fGet[r].got)
    <3> SUFFICES ASSUME r \in fClean PROVE F!Whole(fGet[r].got)
      OBVIOUS
    <3>1. PICK n \in Writer : IsOf(fGet[r], n)
      BY <1>0, <2>1 DEF CleanIsOfWhole
    <3>2. /\ Len(fGet[r].got) = Chunks /\ Len(fFile[n]) = Chunks
          /\ fFile[n] \in Seq(AChunk)
      BY <1>0, <2>1, <3>1 DEF IsOf, F!Whole
    <3>3. DOMAIN fGet[r].got = DOMAIN fFile[n] /\ 1 \in DOMAIN fFile[n]
      BY <2>2, <3>2
    <3> QED BY <3>1, <3>2, <3>3 DEF IsOf, F!Whole
  <2>11. F!CopyIsWhole'
    <3> SUFFICES ASSUME NEW q \in Reader \ fDoubtful'
                 PROVE  fFile'[q] = F!NoFile \/ F!Whole(fFile[q])'
      BY DEF F!CopyIsWhole
    <3>1. CASE q = r
      <4>1. r \in fClean
        BY <2>1, <3>1
      <4>2. fFile'[q] = fGet[r].got
        BY <2>3, <3>1
      <4> QED BY <2>10, <4>1, <4>2 DEF F!Whole
    <3>2. CASE q # r
      <4>1. q \notin fDoubtful /\ fFile'[q] = fFile[q]
        BY <2>1, <2>3, <3>2
      <4> QED BY <1>0, <4>1 DEF F!CopyIsWhole, F!Whole
    <3> QED BY <3>1, <3>2
  <2> QED BY <2>4, <2>5, <2>6, <2>8, <2>9, <2>11 DEF FilesInv, FilesTyped
<1>10. ASSUME NEW n \in F!Members, F!Restart(n) PROVE FilesInv'
  <2>1. /\ fCrashes < MaxFileCrashes /\ fCrashes' = fCrashes + 1
        /\ fPending' = fPending \ {n}
        /\ fUpload' = [w \in Writer |-> IF w = n THEN 0 ELSE fUpload[w]]
        /\ fGet' = [r \in Reader |-> IF r = n \/ n \in fGet[r].from THEN F!NoGet ELSE fGet[r]]
        /\ UNCHANGED <<fVersion, fFailed, fKnown, fClean, fDoubtful>>
    BY <1>10 DEF F!Restart
  <2>2. PICK f \in Seq(AChunk) :
          /\ fFile' = [fFile EXCEPT ![n] = f] /\ f \in {F!NoFile, fFile[n]}
          /\ n \in fPending => f = F!NoFile
          /\ n \notin Writer => f = fFile[n]
    <3>1. PICK lost \in (IF n \in Writer /\ F!Has(n) THEN BOOLEAN ELSE {FALSE}) :
             fFile' = [fFile EXCEPT ![n] = F!Recovered(n, lost)]
      BY <1>10 DEF F!Restart
    <3>2. F!Recovered(n, lost) = F!NoFile \/ F!Recovered(n, lost) = fFile[n]
      BY DEF F!Recovered
    <3>3. n \in fPending => F!Recovered(n, lost) = F!NoFile
      BY DEF F!Recovered
    <3>4. n \notin Writer => F!Recovered(n, lost) = fFile[n]
      BY <1>0, <3>1 DEF F!Recovered, SetsTyped
    <3> QED BY <1>0, <3>1, <3>2, <3>3, <3>4
  <2>3. /\ fFile'[n] = f /\ \A m \in F!Members \ {n} : fFile'[m] = fFile[m]
    BY <1>0, <2>2 DEF FilesKept
  <2>4. FilesKept'
    <3>0. Len(fFile[n]) <= Chunks /\ Len(F!NoFile) <= Chunks
      BY <1>0 DEF FilesKept
    <3>1. Len(f) <= Chunks
      BY <2>2, <3>0
    <3> QED BY <1>0, <2>2, <2>3, <3>1 DEF FilesKept, F!Members, AChunk
  <2>5. UploadsTyped'
    BY <1>0, <2>1 DEF UploadsTyped, AChunk
  <2>6. GetsTyped'
    BY <1>0, <2>1 DEF GetsTyped, AGet, AChunk
  <2>7. SetsTyped'
    BY <1>0, <2>1 DEF SetsTyped
  <2>8. \A w \in Writer : fUpload'[w] = IF w = n THEN 0 ELSE fUpload[w]
    BY <2>1
  <2>9. UploadsAreOwn'
    BY <1>0, <2>1, <2>3, <2>8 DEF UploadsAreOwn
  <2>10. F!NoHalfIsLeft'
    <3> SUFFICES ASSUME NEW m \in Writer \ fFailed', fUpload'[m] = 0
                 PROVE  fFile'[m] = F!NoFile \/ F!Whole(fFile[m])'
      BY DEF F!NoHalfIsLeft
    <3>1. CASE m = n
      <4>1. fUpload[n] # 0 => f = F!NoFile
        BY <1>0, <2>2, <3>1 DEF UploadsAreOwn
      <4>2. fUpload[n] = 0 => fFile[n] = F!NoFile \/ F!Whole(fFile[n])
        BY <1>0, <2>1, <3>1 DEF F!NoHalfIsLeft
      <4> QED BY <2>2, <2>3, <3>1, <4>1, <4>2 DEF F!Whole
    <3>2. CASE m # n
      <4>1. m \notin fFailed /\ fUpload[m] = 0 /\ fFile'[m] = fFile[m]
        BY <2>1, <2>3, <2>8, <3>2
      <4> QED BY <1>0, <4>1 DEF F!NoHalfIsLeft, F!Whole
    <3> QED BY <3>1, <3>2
  <2>11. F!CopyIsWhole'
    <3>1. \A q \in Reader : fFile'[q] = fFile[q]
      BY <2>2, <2>3
    <3> QED BY <1>0, <2>1, <3>1 DEF F!CopyIsWhole
  <2>12. CleanIsOfWhole'
    <3> SUFFICES ASSUME NEW q \in fClean', fGet'[q].pc = "copy"
                 PROVE  \E m \in Writer : IsOf(fGet[q], m)'
      BY DEF CleanIsOfWhole
    <3>1. q \in fClean /\ q \in Reader /\ fGet'[q] = fGet[q] /\ n \notin fGet[q].from
      BY <1>0, <2>1 DEF SetsTyped
    <3>2. PICK m \in Writer : IsOf(fGet[q], m)
      BY <1>0, <3>1 DEF CleanIsOfWhole
    <3>3. m # n
      BY <3>1, <3>2 DEF IsOf
    <3>4. IsOf(fGet[q], m)'
      BY <2>3, <2>8, <3>1, <3>2, <3>3 DEF IsOf
    <3> QED BY <3>4
  <2> QED BY <2>4, <2>5, <2>6, <2>7, <2>9, <2>10, <2>11, <2>12 DEF FilesInv, FilesTyped
<1>11. ASSUME UNCHANGED F!vars PROVE FilesInv'
  <2>1. FilesKept' /\ UploadsTyped' /\ SetsTyped' /\ GetsTyped'
    BY <1>0, <1>11
    DEF F!vars, FilesKept, F!Members, UploadsTyped, SetsTyped, GetsTyped, AGet, AChunk
  <2>2. UploadsAreOwn' /\ CleanIsOfWhole' /\ F!NoHalfIsLeft' /\ F!CopyIsWhole'
    BY <1>0, <1>11
    DEF F!vars, UploadsAreOwn, CleanIsOfWhole, IsOf, F!NoHalfIsLeft, F!CopyIsWhole
  <2> QED BY <2>1, <2>2 DEF FilesInv, FilesTyped
<1> QED
  BY <1>2, <1>3, <1>4, <1>6, <1>7, <1>8, <1>9, <1>10, <1>11 DEF F!Next

\* The invariant of the files implies what the runs check of them.
LEMMA FilesHold == FilesInv => F!TypeOK /\ F!CopyIsWhole /\ F!NoHalfIsLeft
BY DEF FilesInv, FilesTyped, FilesKept, UploadsTyped, SetsTyped, GetsTyped, AGet, AChunk, F!TypeOK

-----------------------------------------------------------------------------
(* Settings *)

AHandler == [pc : {"idle", "save", "commit", "get", "set"}, node : Node, data : E!Records]
RecordsTyped ==
    /\ eMemory \in [Node -> E!Records] /\ eDisk \in [Node -> E!Records]
    /\ eEngine \in [Node -> Policies] /\ eWire \subseteq E!Records
HandlersTyped == eHandler \in [Handler -> AHandler]
StampsTyped == eUsed \subseteq E!Stamp /\ eUnsure \subseteq Node /\ eCrashes \in 0 .. MaxCrash
EchoTyped == eEchoed \in BOOLEAN
SettingsTyped == RecordsTyped /\ HandlersTyped /\ StampsTyped /\ EchoTyped

\* A record is somewhere: at a node, on the wire, or copied by a handler.
Kept(r) ==
    \/ \E n \in Node : eMemory[n] = r \/ eDisk[n] = r
    \/ r \in eWire \/ r = E!Default
    \/ \E h \in Handler : eHandler[h].data = r
StampsAreUsed ==
    /\ 0 \in eUsed
    /\ \A r \in E!Records : Kept(r) => r.at \in eUsed
    /\ \A r, s \in E!Records : Kept(r) /\ Kept(s) /\ r.at = s.at => r = s

\* Unless a node is excepted one handler changes its settings, and it has what it copied, and
\* put on disk or in force what it says.
Works(h, n) == eHandler[h].pc # "idle" /\ eHandler[h].node = n
Agrees(h, n) ==
    /\ eHandler[h].pc \in {"commit", "set"} => eHandler[h].data = eMemory[n]
    /\ eHandler[h].pc \in {"get", "set"} => eDisk[n] = eMemory[n]
SettingsAgree ==
    \A n \in Node \ eUnsure :
        /\ \A h \in Handler : Works(h, n) => Agrees(h, n)
        /\ \A g, h \in Handler : Works(g, n) /\ Works(h, n) => g = h
        /\ (\A h \in Handler : ~Works(h, n)) =>
             eEngine[n] = eMemory[n].policies /\ eDisk[n] = eMemory[n]
SettingsInv == SettingsTyped /\ (~eEchoed => StampsAreUsed) /\ SettingsAgree

\* What the assumption says of the constants of the settings.
LEMMA SettingsConstants ==
    /\ Node # {} /\ Limit # {} /\ Policies # {} /\ MaxStamp \in Nat /\ MaxCrash \in Nat
    /\ E!Default \in E!Records /\ E!Default.at = 0
    /\ E!Idle \in AHandler /\ E!Idle.pc = "idle" /\ E!Idle.data = E!Default
<1>1. /\ Node # {} /\ Limit # {} /\ Policies # {} /\ MaxStamp \in Nat /\ MaxCrash \in Nat
  BY PartsAssumption DEF E!SettingsAssumption
<1>2. (CHOOSE x \in Limit : TRUE) \in Limit /\ (CHOOSE x \in Policies : TRUE) \in Policies
  BY <1>1
<1>3. E!Default \in E!Records /\ E!Default.at = 0
  BY <1>1, <1>2 DEF E!Default, E!Records, E!Stamp
<1>4. (CHOOSE n \in Node : TRUE) \in Node
  BY <1>1
<1>5. E!Idle \in AHandler /\ E!Idle.pc = "idle" /\ E!Idle.data = E!Default
  BY <1>3, <1>4 DEF E!Idle, AHandler
<1> QED BY <1>1, <1>3, <1>5

\* The settings of a cluster begin in their invariant.
LEMMA SettingsStarts == E!Init => SettingsInv
<1> SUFFICES ASSUME E!Init PROVE SettingsInv
  OBVIOUS
<1>1. E!Default.policies \in Policies
  BY SettingsConstants DEF E!Records
<1>2. RecordsTyped /\ HandlersTyped
  BY <1>1, SettingsConstants DEF E!Init, RecordsTyped, HandlersTyped
<1>3. StampsTyped
  BY SettingsConstants DEF E!Init, StampsTyped, E!Stamp
<1>4. EchoTyped
  BY DEF E!Init, EchoTyped
<1>5. \A r \in E!Records : Kept(r) => r = E!Default
  BY SettingsConstants DEF E!Init, Kept
<1>6. StampsAreUsed
  BY <1>5, SettingsConstants DEF E!Init, StampsAreUsed
<1>7. SettingsAgree
  BY SettingsConstants DEF E!Init, SettingsAgree, Works, Agrees
<1> QED BY <1>2, <1>3, <1>4, <1>6, <1>7 DEF SettingsInv, SettingsTyped

\* A handler that is not idle is at work on its node.
LEMMA BusyMeansWorks ==
    ASSUME NEW n \in Node
    PROVE  E!Busy(n) <=> \E h \in Handler : Works(h, n)
BY DEF E!Busy, E!At, Works

\* Every step keeps the invariant of the settings.
LEMMA SettingsInvStays == SettingsInv /\ [E!Next]_(E!vars) => SettingsInv'
<1> SUFFICES ASSUME SettingsInv, [E!Next]_(E!vars) PROVE SettingsInv'
  OBVIOUS
<1> USE SettingsConstants
<1>0. /\ RecordsTyped /\ HandlersTyped /\ StampsTyped /\ EchoTyped
      /\ (~eEchoed => StampsAreUsed) /\ SettingsAgree
  BY DEF SettingsInv, SettingsTyped
<1>1. EchoTyped'
  BY <1>0 DEF E!Next, E!vars, E!Merge, E!Send, E!ApplySyncableFields, E!Marshal, E!Commit,
     E!SaveFails, E!GetPolicies, E!SetPolicies, E!Restart, EchoTyped
\* Steps that stamp no record.
<1>2. ASSUME UNCHANGED <<eUsed, eEchoed>>, \A r \in E!Records : Kept(r)' => Kept(r)
      PROVE  ~eEchoed' => StampsAreUsed'
  <2>1. E!Records' = E!Records
    BY DEF E!Records, E!Stamp
  <2> QED BY <1>0, <1>2, <2>1 DEF StampsAreUsed
\* A change of the record of a node, by a handler that was idle.
<1>3. ASSUME NEW n \in Node, NEW h \in Handler, NEW r \in E!Records,
             E!Changes(n, h, r), eHandler[h].pc = "idle",
             UNCHANGED <<eDisk, eEngine, eWire, eCrashes>>
      PROVE  /\ RecordsTyped' /\ HandlersTyped' /\ eUnsure' \subseteq Node /\ SettingsAgree'
             /\ \A s \in E!Records : Kept(s)' => Kept(s) \/ s = r
  <2> DEFINE x == [E!Idle EXCEPT !.pc = "save", !.node = n]
  <2>1. x \in AHandler /\ x.pc = "save" /\ x.node = n /\ x.data = E!Default
    BY DEF AHandler
  <2>2. /\ eMemory' = [eMemory EXCEPT ![n] = r] /\ eHandler' = [eHandler EXCEPT ![h] = x]
        /\ eUnsure' = IF E!Busy(n) THEN eUnsure \cup {n} ELSE eUnsure
    BY <1>3 DEF E!Changes
  <2> HIDE DEF x
  <2>3. RecordsTyped' /\ HandlersTyped' /\ eUnsure' \subseteq Node
    BY <1>0, <1>3, <2>1, <2>2
    DEF RecordsTyped, HandlersTyped, StampsTyped, E!Records, E!Stamp, AHandler
  <2>4. /\ eMemory'[n] = r /\ \A m \in Node \ {n} : eMemory'[m] = eMemory[m]
        /\ eHandler'[h] = x /\ \A g \in Handler \ {h} : eHandler'[g] = eHandler[g]
    BY <1>0, <2>2 DEF RecordsTyped, HandlersTyped
  <2>5. \A s \in E!Records : Kept(s)' => Kept(s) \/ s = r
    BY <1>3, <2>1, <2>4 DEF Kept
  <2>6. SettingsAgree'
    <3> SUFFICES ASSUME NEW m \in Node \ eUnsure'
                 PROVE  /\ \A g \in Handler : Works(g, m)' => Agrees(g, m)'
                        /\ \A f, g \in Handler : Works(f, m)' /\ Works(g, m)' => f = g
                        /\ (\A g \in Handler : ~Works(g, m)') =>
                             eEngine'[m] = eMemory'[m].policies /\ eDisk'[m] = eMemory'[m]
      BY DEF SettingsAgree, Works, Agrees
    <3>1. m \notin eUnsure
      BY <2>2
    <3>2. CASE m = n
      <4>1. \A g \in Handler : ~Works(g, n)
        BY <2>2, <3>2, BusyMeansWorks
      <4>2. Works(h, n)' /\ \A g \in Handler \ {h} : ~Works(g, n)'
        BY <2>1, <2>4, <4>1 DEF Works
      <4>3. Agrees(h, n)'
        BY <2>1, <2>4 DEF Agrees
      <4> QED BY <3>2, <4>2, <4>3
    <3>3. CASE m # n
      <4>1. ~Works(h, m)' /\ ~Works(h, m)
        BY <1>3, <2>1, <2>4, <3>3 DEF Works
      <4>2. \A g \in Handler \ {h} : (Works(g, m)' <=> Works(g, m)) /\ (Agrees(g, m)' <=> Agrees(g, m))
        BY <1>3, <2>4, <3>3 DEF Works, Agrees
      <4> QED BY <1>0, <1>3, <2>4, <3>1, <3>3, <4>1, <4>2 DEF SettingsAgree
    <3> QED BY <3>2, <3>3
  <2> QED BY <2>3, <2>5, <2>6
<1>4. ASSUME NEW n \in Node, NEW h \in Handler, E!Merge(n, h) PROVE SettingsInv'
  <2>1. PICK l \in Limit, p \in Policies, t \in E!Stamp :
          /\ \/ t \notin eUsed /\ eUsed' = eUsed \cup {t} /\ eEchoed' = eEchoed
             \/ eEchoed' = TRUE /\ eUsed' = eUsed
          /\ E!Changes(n, h, [limit |-> l, policies |-> p, at |-> t])
    <3>1. eMemory[n].at \in E!Stamp
      BY <1>0 DEF RecordsTyped, E!Records
    <3> QED BY <1>4, <3>1 DEF E!Merge
  <2>2. PICK r \in E!Records : r = [limit |-> l, policies |-> p, at |-> t]
    BY DEF E!Records
  <2>3. /\ E!Changes(n, h, r) /\ r.at = t /\ eHandler[h].pc = "idle"
        /\ UNCHANGED <<eDisk, eEngine, eWire, eCrashes>>
    BY <1>4, <2>1, <2>2 DEF E!Merge, E!At
  <2>4. /\ RecordsTyped' /\ HandlersTyped' /\ eUnsure' \subseteq Node /\ SettingsAgree'
        /\ \A s \in E!Records : Kept(s)' => Kept(s) \/ s = r
    BY <1>3, <2>3
  <2>5. StampsTyped'
    BY <1>0, <2>1, <2>3, <2>4 DEF StampsTyped, E!Stamp
  <2>6. ~eEchoed' => StampsAreUsed'
    <3>1. E!Records' = E!Records
      BY DEF E!Records, E!Stamp
    <3> QED BY <1>0, <2>1, <2>3, <2>4, <3>1 DEF StampsAreUsed
  <2> QED BY <1>1, <2>4, <2>5, <2>6 DEF SettingsInv, SettingsTyped
<1>5. ASSUME NEW n \in Node, NEW h \in Handler, E!ApplySyncableFields(n, h) PROVE SettingsInv'
  <2>1. PICK r \in eWire : E!Changes(n, h, r)
    BY <1>5 DEF E!ApplySyncableFields, E!Merged
  <2>2. /\ eHandler[h].pc = "idle" /\ r \in E!Records
        /\ UNCHANGED <<eDisk, eEngine, eWire, eCrashes, eUsed, eEchoed>>
    BY <1>0, <1>5 DEF E!ApplySyncableFields, E!At, RecordsTyped
  <2>3. /\ RecordsTyped' /\ HandlersTyped' /\ eUnsure' \subseteq Node /\ SettingsAgree'
        /\ \A s \in E!Records : Kept(s)' => Kept(s) \/ s = r
    BY <1>3, <2>1, <2>2
  <2>4. Kept(r)
    BY DEF Kept
  <2>5. ~eEchoed' => StampsAreUsed'
    BY <1>2, <2>2, <2>3, <2>4
  <2>6. StampsTyped'
    BY <1>0, <2>2, <2>3 DEF StampsTyped, E!Stamp
  <2> QED BY <1>1, <2>3, <2>5, <2>6 DEF SettingsInv, SettingsTyped
<1>6. ASSUME NEW n \in Node, E!Send(n) PROVE SettingsInv'
  <2>1. /\ eWire' = {eMemory[n]}
        /\ UNCHANGED <<eMemory, eDisk, eEngine, eHandler, eUsed, eEchoed, eUnsure, eCrashes>>
    BY <1>6 DEF E!Send
  <2>2. RecordsTyped' /\ HandlersTyped' /\ StampsTyped'
    BY <1>0, <2>1
    DEF RecordsTyped, HandlersTyped, StampsTyped, E!Records, E!Stamp, AHandler
  <2>3. \A s \in E!Records : Kept(s)' => Kept(s)
    BY <2>1 DEF Kept
  <2>4. SettingsAgree'
    BY <1>0, <2>1 DEF SettingsAgree, Works, Agrees
  <2>5. ~eEchoed' => StampsAreUsed'
    BY <1>2, <2>1, <2>3
  <2> QED BY <1>1, <2>2, <2>4, <2>5 DEF SettingsInv, SettingsTyped
\* A step of the handler h at its node, with what it does to the disk and the engine of that
\* node, which it alone works on or which is excepted.
<1>7. ASSUME NEW h \in Handler, NEW n \in Node, NEW x \in AHandler, NEW d \in E!Records,
             NEW p \in Policies,
             eHandler[h].pc # "idle", eHandler[h].node = n,
             eHandler' = [eHandler EXCEPT ![h] = x],
             eDisk' = [eDisk EXCEPT ![n] = d], eEngine' = [eEngine EXCEPT ![n] = p],
             Kept(d), Kept(x.data), x.pc = "idle" \/ x.node = n,
             eUnsure \subseteq eUnsure', eUnsure' \subseteq Node,
             n \notin eUnsure' =>
               /\ x.pc \in {"commit", "set"} => x.data = eMemory[n]
               /\ x.pc \in {"get", "set"} => d = eMemory[n]
               /\ x.pc = "idle" => p = eMemory[n].policies /\ d = eMemory[n],
             UNCHANGED <<eMemory, eWire, eUsed, eEchoed, eCrashes>>
      PROVE  SettingsInv'
  <2>1. RecordsTyped' /\ HandlersTyped' /\ StampsTyped'
    BY <1>0, <1>7
    DEF RecordsTyped, HandlersTyped, StampsTyped, E!Records, E!Stamp, AHandler
  <2>2. /\ eDisk'[n] = d /\ eEngine'[n] = p /\ eHandler'[h] = x
        /\ \A g \in Handler \ {h} : eHandler'[g] = eHandler[g]
        /\ \A m \in Node \ {n} : eDisk'[m] = eDisk[m] /\ eEngine'[m] = eEngine[m]
    BY <1>0, <1>7 DEF RecordsTyped, HandlersTyped
  <2>3. \A s \in E!Records : Kept(s)' => Kept(s)
    BY <1>7, <2>2 DEF Kept
  <2>4. SettingsAgree'
    <3> SUFFICES ASSUME NEW m \in Node \ eUnsure'
                 PROVE  /\ \A g \in Handler : Works(g, m)' => Agrees(g, m)'
                        /\ \A f, g \in Handler : Works(f, m)' /\ Works(g, m)' => f = g
                        /\ (\A g \in Handler : ~Works(g, m)') =>
                             eEngine'[m] = eMemory'[m].policies /\ eDisk'[m] = eMemory'[m]
      BY DEF SettingsAgree, Works, Agrees
    <3>1. m \notin eUnsure
      BY <1>7
    <3>2. CASE m = n
      <4>1. \A g \in Handler \ {h} : ~Works(g, n)
        BY <1>0, <1>7, <3>1, <3>2 DEF SettingsAgree, Works
      <4>2. \A g \in Handler \ {h} : ~Works(g, n)'
        BY <2>2, <4>1 DEF Works
      <4>3. Works(h, n)' => Agrees(h, n)'
        BY <1>7, <2>2, <3>2 DEF Works, Agrees
      <4>4. ~Works(h, n)' => eEngine'[n] = eMemory'[n].policies /\ eDisk'[n] = eMemory'[n]
        BY <1>7, <2>2, <3>2 DEF Works
      <4> QED BY <3>2, <4>2, <4>3, <4>4
    <3>3. CASE m # n
      <4>1. ~Works(h, m)' /\ ~Works(h, m)
        BY <1>7, <2>2, <3>3 DEF Works
      <4>2. \A g \in Handler \ {h} : (Works(g, m)' <=> Works(g, m)) /\ (Agrees(g, m)' <=> Agrees(g, m))
        BY <1>7, <2>2, <3>3 DEF Works, Agrees
      <4>3. eEngine'[m] = eEngine[m] /\ eDisk'[m] = eDisk[m] /\ eMemory'[m] = eMemory[m]
        BY <1>7, <2>2, <3>3
      <4>4. /\ \A g \in Handler : Works(g, m) => Agrees(g, m)
            /\ \A f, g \in Handler : Works(f, m) /\ Works(g, m) => f = g
            /\ (\A g \in Handler : ~Works(g, m)) =>
                 eEngine[m] = eMemory[m].policies /\ eDisk[m] = eMemory[m]
        BY <1>0, <3>1 DEF SettingsAgree
      <4> QED BY <4>1, <4>2, <4>3, <4>4
    <3> QED BY <3>2, <3>3
  <2>5. ~eEchoed' => StampsAreUsed'
    BY <1>2, <1>7, <2>3
  <2> QED BY <1>1, <2>1, <2>4, <2>5 DEF SettingsInv, SettingsTyped
<1>8. ASSUME NEW h \in Handler,
             \/ E!Marshal(h) \/ E!Commit(h) \/ E!SaveFails(h) \/ E!GetPolicies(h)
             \/ E!SetPolicies(h)
      PROVE  SettingsInv'
  <2>1. PICK n \in Node : n = eHandler[h].node
    BY <1>0 DEF HandlersTyped, AHandler
  <2>2. /\ eHandler[h] \in AHandler /\ eMemory[n] \in E!Records /\ eDisk[n] \in E!Records
        /\ eEngine[n] \in Policies /\ eHandler[h].data \in E!Records
        /\ eHandler[h].data.policies \in Policies
    BY <1>0 DEF HandlersTyped, RecordsTyped, AHandler, E!Records
  <2>3. /\ Kept(eMemory[n]) /\ Kept(eDisk[n]) /\ Kept(E!Default) /\ Kept(eHandler[h].data)
    BY DEF Kept
  <2>4. /\ eDisk = [eDisk EXCEPT ![n] = eDisk[n]]
        /\ eEngine = [eEngine EXCEPT ![n] = eEngine[n]]
    BY <1>0 DEF RecordsTyped
  <2>5. n \notin eUnsure /\ eHandler[h].pc # "idle" => Agrees(h, n)
    BY <1>0, <2>1 DEF SettingsAgree, Works
  <2>6. eUnsure \subseteq Node
    BY <1>0 DEF StampsTyped
  <2>7. CASE E!Marshal(h) \/ E!GetPolicies(h)
    <3>1. PICK at \in {"commit", "set"} :
            /\ eHandler' = [eHandler EXCEPT ![h].pc = at, ![h].data = eMemory[n]]
            /\ at = "set" => eHandler[h].pc = "get"
            /\ eHandler[h].pc # "idle"
            /\ UNCHANGED <<eMemory, eDisk, eEngine, eWire, eUsed, eEchoed, eUnsure, eCrashes>>
      BY <2>1, <2>7 DEF E!Marshal, E!GetPolicies, E!At
    <3> DEFINE x == [eHandler[h] EXCEPT !.pc = at, !.data = eMemory[n]]
    <3>2. x \in AHandler /\ x.pc = at /\ x.data = eMemory[n] /\ x.node = n
      BY <2>1, <2>2 DEF AHandler
    <3>3. eHandler' = [eHandler EXCEPT ![h] = x]
      BY <1>0, <3>1 DEF HandlersTyped, AHandler
    <3> HIDE DEF x
    <3>4. n \notin eUnsure' => (at = "set" => eDisk[n] = eMemory[n])
      BY <2>5, <3>1 DEF Agrees
    <3>5. n \notin eUnsure' =>
            /\ x.pc \in {"commit", "set"} => x.data = eMemory[n]
            /\ x.pc \in {"get", "set"} => eDisk[n] = eMemory[n]
            /\ x.pc = "idle" => eEngine[n] = eMemory[n].policies /\ eDisk[n] = eMemory[n]
      BY <3>2, <3>4
    <3>6. /\ eDisk' = [eDisk EXCEPT ![n] = eDisk[n]]
          /\ eEngine' = [eEngine EXCEPT ![n] = eEngine[n]]
          /\ UNCHANGED <<eMemory, eWire, eUsed, eEchoed, eCrashes>>
          /\ eUnsure \subseteq eUnsure' /\ eUnsure' \subseteq Node
      BY <2>4, <2>6, <3>1
    <3>7. Kept(x.data) /\ x \in AHandler /\ x.node = n
      BY <2>3, <3>2
    <3>8. eDisk[n] \in E!Records /\ eEngine[n] \in Policies /\ Kept(eDisk[n])
      BY <2>2, <2>3
    <3>9. /\ eHandler[h].pc # "idle" /\ eHandler[h].node = n
          /\ eHandler' = [eHandler EXCEPT ![h] = x]
          /\ eDisk' = [eDisk EXCEPT ![n] = eDisk[n]] /\ eEngine' = [eEngine EXCEPT ![n] = eEngine[n]]
          /\ Kept(eDisk[n]) /\ Kept(x.data) /\ (x.pc = "idle" \/ x.node = n)
          /\ eUnsure \subseteq eUnsure' /\ eUnsure' \subseteq Node
          /\ UNCHANGED <<eMemory, eWire, eUsed, eEchoed, eCrashes>>
      BY <2>1, <3>1, <3>3, <3>6, <3>7, <3>8
    <3> QED BY <1>7, <3>5, <3>7, <3>8, <3>9
  <2>8. CASE E!Commit(h) \/ E!SaveFails(h)
    <3>1. /\ eHandler' = [eHandler EXCEPT ![h].pc = "get", ![h].data = E!Default]
          /\ eHandler[h].pc = "commit"
          /\ UNCHANGED <<eMemory, eEngine, eWire, eUsed, eEchoed, eCrashes>>
          /\ \/ eDisk' = [eDisk EXCEPT ![n] = eHandler[h].data] /\ eUnsure' = eUnsure
             \/ eDisk' = eDisk /\ eUnsure' = eUnsure \cup {n}
      BY <2>1, <2>8 DEF E!Commit, E!SaveFails, E!At
    <3> DEFINE x == [eHandler[h] EXCEPT !.pc = "get", !.data = E!Default]
    <3>2. x \in AHandler /\ x.pc = "get" /\ x.data = E!Default /\ x.node = n
      BY <2>1, <2>2 DEF AHandler
    <3>3. eHandler' = [eHandler EXCEPT ![h] = x]
      BY <1>0, <3>1 DEF HandlersTyped, AHandler
    <3> HIDE DEF x
    <3>4. n \notin eUnsure => eHandler[h].data = eMemory[n]
      BY <2>5, <3>1 DEF Agrees
    <3>5. PICK d \in E!Records :
            /\ eDisk' = [eDisk EXCEPT ![n] = d] /\ Kept(d)
            /\ n \notin eUnsure' => d = eMemory[n]
      BY <2>2, <2>3, <2>4, <3>1, <3>4
    <3>6. n \notin eUnsure' =>
            /\ x.pc \in {"commit", "set"} => x.data = eMemory[n]
            /\ x.pc \in {"get", "set"} => d = eMemory[n]
            /\ x.pc = "idle" => eEngine[n] = eMemory[n].policies /\ d = eMemory[n]
      BY <3>2, <3>5
    <3>7. /\ eEngine' = [eEngine EXCEPT ![n] = eEngine[n]]
          /\ UNCHANGED <<eMemory, eWire, eUsed, eEchoed, eCrashes>>
          /\ eUnsure \subseteq eUnsure' /\ eUnsure' \subseteq Node
      BY <2>4, <2>6, <3>1
    <3>8. Kept(x.data) /\ x \in AHandler /\ x.node = n
      BY <2>3, <3>2
    <3>9. eEngine[n] \in Policies
      BY <2>2
    <3>10. /\ eHandler[h].pc # "idle" /\ eHandler[h].node = n
          /\ eHandler' = [eHandler EXCEPT ![h] = x]
          /\ eDisk' = [eDisk EXCEPT ![n] = d] /\ eEngine' = [eEngine EXCEPT ![n] = eEngine[n]]
          /\ Kept(d) /\ Kept(x.data) /\ (x.pc = "idle" \/ x.node = n)
          /\ eUnsure \subseteq eUnsure' /\ eUnsure' \subseteq Node
          /\ UNCHANGED <<eMemory, eWire, eUsed, eEchoed, eCrashes>>
      BY <2>1, <3>1, <3>3, <3>5, <3>7, <3>8
    <3> QED BY <1>7, <3>5, <3>6, <3>8, <3>9, <3>10
  <2>9. CASE E!SetPolicies(h)
    <3>1. /\ eHandler' = [eHandler EXCEPT ![h] = E!Idle] /\ eHandler[h].pc = "set"
          /\ eEngine' = [eEngine EXCEPT ![n] = eHandler[h].data.policies]
          /\ UNCHANGED <<eMemory, eDisk, eWire, eUsed, eEchoed, eUnsure, eCrashes>>
      BY <2>1, <2>9 DEF E!SetPolicies, E!At
    <3>2. n \notin eUnsure' => /\ eHandler[h].data.policies = eMemory[n].policies
                               /\ eDisk[n] = eMemory[n]
      BY <2>5, <3>1 DEF Agrees
    <3> QED BY <1>7, <2>1, <2>2, <2>3, <2>4, <2>6, <3>1, <3>2
  <2> QED BY <1>8, <2>7, <2>8, <2>9
<1>9. ASSUME NEW n \in Node, E!Restart(n) PROVE SettingsInv'
  <2>1. /\ eMemory' = [eMemory EXCEPT ![n] = eDisk[n]]
        /\ eEngine' = [eEngine EXCEPT ![n] = eDisk[n].policies]
        /\ eHandler' = [h \in Handler |-> IF eHandler[h].node = n THEN E!Idle ELSE eHandler[h]]
        /\ eUnsure' = eUnsure \ {n} /\ UNCHANGED <<eDisk, eWire, eUsed, eEchoed>>
        /\ eCrashes < MaxCrash /\ eCrashes' = eCrashes + 1
    BY <1>9 DEF E!Restart
  <2>2. eDisk[n] \in E!Records /\ eDisk[n].policies \in Policies
    BY <1>0 DEF RecordsTyped, E!Records
  <2>3. RecordsTyped'
    BY <1>0, <2>1, <2>2 DEF RecordsTyped, E!Records, E!Stamp
  <2>4. HandlersTyped'
    BY <1>0, <2>1 DEF HandlersTyped, AHandler, E!Records, E!Stamp
  <2>5. StampsTyped'
    <3>1. eUnsure' \subseteq Node
      BY <1>0, <2>1 DEF StampsTyped
    <3>2. eCrashes' \in 0 .. MaxCrash
      BY <1>0, <2>1 DEF StampsTyped
    <3> QED BY <1>0, <2>1, <3>1, <3>2 DEF StampsTyped, E!Stamp
  <2>6. /\ eMemory'[n] = eDisk[n] /\ eEngine'[n] = eDisk[n].policies
        /\ \A m \in Node \ {n} : eMemory'[m] = eMemory[m] /\ eEngine'[m] = eEngine[m]
    BY <1>0, <2>1 DEF RecordsTyped
  <2>7. \A s \in E!Records : Kept(s)' => Kept(s)
    BY <2>1, <2>6 DEF Kept
  <2>8. SettingsAgree'
    <3> SUFFICES ASSUME NEW m \in Node \ eUnsure'
                 PROVE  /\ \A g \in Handler : Works(g, m)' => Agrees(g, m)'
                        /\ \A f, g \in Handler : Works(f, m)' /\ Works(g, m)' => f = g
                        /\ (\A g \in Handler : ~Works(g, m)') =>
                             eEngine'[m] = eMemory'[m].policies /\ eDisk'[m] = eMemory'[m]
      BY DEF SettingsAgree, Works, Agrees
    <3>1. CASE m = n
      <4>1. \A g \in Handler : ~Works(g, n)'
        BY <2>1 DEF Works
      <4> QED BY <2>1, <2>6, <3>1, <4>1
    <3>2. CASE m # n
      <4>1. \A g \in Handler : (Works(g, m)' <=> Works(g, m)) /\ (Works(g, m) => eHandler'[g] = eHandler[g])
        BY <2>1, <3>2 DEF Works
      <4>2. \A g \in Handler : Works(g, m) => (Agrees(g, m)' <=> Agrees(g, m))
        BY <2>1, <2>6, <3>2, <4>1 DEF Agrees
      <4>3. eEngine'[m] = eEngine[m] /\ eDisk'[m] = eDisk[m] /\ eMemory'[m] = eMemory[m]
        BY <2>1, <2>6, <3>2
      <4>4. /\ \A g \in Handler : Works(g, m) => Agrees(g, m)
            /\ \A f, g \in Handler : Works(f, m) /\ Works(g, m) => f = g
            /\ (\A g \in Handler : ~Works(g, m)) =>
                 eEngine[m] = eMemory[m].policies /\ eDisk[m] = eMemory[m]
        BY <1>0, <2>1, <3>2 DEF SettingsAgree
      <4> QED BY <4>1, <4>2, <4>3, <4>4
    <3> QED BY <3>1, <3>2
  <2>9. ~eEchoed' => StampsAreUsed'
    BY <1>2, <2>1, <2>7
  <2> QED BY <1>1, <2>3, <2>4, <2>5, <2>8, <2>9 DEF SettingsInv, SettingsTyped
<1>10. ASSUME UNCHANGED E!vars PROVE SettingsInv'
  <2>1. RecordsTyped' /\ HandlersTyped' /\ StampsTyped'
    BY <1>0, <1>10
    DEF E!vars, RecordsTyped, HandlersTyped, StampsTyped, E!Records, E!Stamp, AHandler
  <2>2. \A s \in E!Records : Kept(s)' => Kept(s)
    BY <1>10 DEF E!vars, Kept
  <2>3. SettingsAgree'
    BY <1>0, <1>10 DEF E!vars, SettingsAgree, Works, Agrees
  <2>4. ~eEchoed' => StampsAreUsed'
    BY <1>2, <1>10, <2>2 DEF E!vars
  <2> QED BY <1>1, <2>1, <2>3, <2>4 DEF SettingsInv, SettingsTyped
<1> QED BY <1>4, <1>5, <1>6, <1>8, <1>9, <1>10 DEF E!Next

\* The invariant of the settings implies what the runs check of them.
LEMMA SettingsHolds ==
    SettingsInv => E!TypeOK /\ E!SameStampSameSettings /\ E!ShownIsEnforced
<1> SUFFICES ASSUME SettingsInv
             PROVE  E!TypeOK /\ E!SameStampSameSettings /\ E!ShownIsEnforced
  OBVIOUS
<1>1. E!TypeOK
  BY DEF SettingsInv, SettingsTyped, RecordsTyped, HandlersTyped, AHandler, StampsTyped,
     EchoTyped, E!TypeOK
<1>2. E!SameStampSameSettings
  <2>1. \A r \in E!Everywhere : r \in E!Records /\ Kept(r)
    BY DEF SettingsInv, SettingsTyped, RecordsTyped, E!Everywhere, Kept
  <2> QED BY <2>1 DEF SettingsInv, StampsAreUsed, E!SameStampSameSettings
<1>3. E!ShownIsEnforced
  <2> SUFFICES ASSUME NEW n \in Node \ eUnsure, ~E!Busy(n)
               PROVE  eEngine[n] = eMemory[n].policies /\ eDisk[n] = eMemory[n]
    BY DEF E!ShownIsEnforced
  <2>1. \A h \in Handler : ~Works(h, n)
    BY BusyMeansWorks
  <2> QED BY <2>1 DEF SettingsInv, SettingsAgree
<1> QED BY <1>1, <1>2, <1>3

-----------------------------------------------------------------------------
(* Vault *)

\* An operation on the vault that is under way, by its place in the code.
VaultOp ==
    [pc : {"read", "decrypt", "encrypt", "key_decrypt", "key_encrypt", "write"},
     kind : {"store", "get", "delete"}, name : Name, names : SUBSET Name]
SealedFile == [key : V!Unset .. MaxKeys, names : SUBSET Name]
KeysTyped ==
    vKeyFile \in 0 .. MaxKeys /\ vMaster \in V!Unset .. MaxKeys /\ vMade \in 0 .. MaxKeys
NamesTyped == vFile \in SealedFile /\ vStored \subseteq Name
VaultOpTyped == vOp \in VaultOp \cup {V!Idle}
FaultsTyped == vFaults \in 0 .. MaxFaults
ExcusedTyped == vExcused \in BOOLEAN
VaultTyped == KeysTyped /\ NamesTyped /\ VaultOpTyped /\ FaultsTyped /\ ExcusedTyped

\* A process that has a key has the one in the file, and a new one is made only by a process
\* that has none and finds none.
KeyIsOnDisk ==
    /\ vMaster \in {V!Unset, vKeyFile}
    /\ vOp.pc \in {"key_decrypt", "key_encrypt"} =>
         vMaster = V!Unset /\ vKeyFile = 0 /\ vMade > 0

\* Outside of a write the vault is sealed with that key and has what was stored; and what an
\* operation is about to write has it too.
FileHasStored ==
    \/ vFile = V!NoFile /\ vStored = {}
    \/ vKeyFile > 0 /\ vFile.key = vKeyFile /\ vStored \subseteq vFile.names
WriteHasStored ==
    /\ vOp.pc \in {"decrypt", "key_decrypt"} => vFile # V!NoFile
    /\ vOp.pc \in {"encrypt", "key_encrypt"} /\ ~vExcused => vStored \subseteq vOp.names
    /\ vOp.pc = "write" =>
         /\ vMaster # V!Unset /\ vMaster > 0
         /\ ~vExcused => V!Changed(vStored) \subseteq vOp.names
VaultInv ==
    /\ VaultTyped /\ KeyIsOnDisk /\ WriteHasStored
    /\ ~vExcused /\ vOp.pc # "write" => FileHasStored

\* What the assumption says of the constants of the vault.
LEMMA VaultConstants ==
    /\ MaxKeys \in Nat /\ MaxFaults \in Nat /\ V!Unset = 0 - 1
    /\ V!Idle.pc = "idle"
BY PartsAssumption DEF V!VaultAssumption, V!Unset, V!Idle

\* The vault begins in its invariant.
LEMMA VaultStarts == V!Init => VaultInv
<1> SUFFICES ASSUME V!Init PROVE VaultInv
  OBVIOUS
<1>1. NamesTyped
  <2>1. V!Unset \in V!Unset .. MaxKeys
    BY VaultConstants
  <2> QED BY <2>1 DEF V!Init, NamesTyped, SealedFile, V!NoFile, V!Sealed
<1>2. KeysTyped /\ VaultOpTyped /\ FaultsTyped
  BY VaultConstants DEF V!Init, KeysTyped, VaultOpTyped, FaultsTyped
<1>3. KeyIsOnDisk /\ WriteHasStored /\ FileHasStored
  BY VaultConstants DEF V!Init, KeyIsOnDisk, WriteHasStored, FileHasStored
<1>4. ExcusedTyped
  BY DEF V!Init, ExcusedTyped
<1> QED BY <1>1, <1>2, <1>3, <1>4 DEF VaultInv, VaultTyped

\* Every step of the vault keeps its invariant.
LEMMA VaultInvStays == VaultInv /\ [V!Next]_(V!vars) => VaultInv'
<1> SUFFICES ASSUME VaultInv, [V!Next]_(V!vars) PROVE VaultInv'
  OBVIOUS
<1> USE VaultConstants
<1>0. /\ VaultTyped /\ KeysTyped /\ NamesTyped /\ VaultOpTyped /\ FaultsTyped
      /\ ExcusedTyped /\ KeyIsOnDisk /\ WriteHasStored
      /\ ~vExcused /\ vOp.pc # "write" => FileHasStored
  BY DEF VaultInv, VaultTyped
<1>1. \A at \in {"decrypt", "encrypt", "key_decrypt", "key_encrypt", "write"},
         names \in SUBSET Name :
        vOp # V!Idle =>
          LET x == [vOp EXCEPT !.pc = at]
              y == [vOp EXCEPT !.pc = at, !.names = names]
          IN  /\ x \in VaultOp /\ x.pc = at /\ x.kind = vOp.kind /\ x.names = vOp.names
              /\ x.name = vOp.name
              /\ y \in VaultOp /\ y.pc = at /\ y.kind = vOp.kind /\ y.names = names
              /\ y.name = vOp.name
  BY <1>0 DEF KeysTyped, NamesTyped, VaultOpTyped, FaultsTyped, VaultOp
<1>2. \A names \in SUBSET Name : vOp # V!Idle => V!Changed(names) \subseteq Name
  BY <1>0 DEF KeysTyped, NamesTyped, VaultOpTyped, FaultsTyped, VaultOp, V!Changed
<1>a. ExcusedTyped'
  BY <1>0 DEF V!Next, V!vars, V!ReadKey, V!WriteKey, V!Begin, V!Read, V!Decrypt, V!Encrypt,
     V!Write, V!Restart, ExcusedTyped
<1> DEFINE Typed == KeysTyped /\ NamesTyped /\ VaultOpTyped /\ FaultsTyped
<1>b. Typed' /\ KeyIsOnDisk' /\ WriteHasStored' /\ (~vExcused' /\ vOp'.pc # "write" => FileHasStored')
      => VaultInv'
  BY <1>a DEF VaultInv, VaultTyped
<1>3. CASE V!ReadKey
  <2>1. /\ vOp.pc \in {"decrypt", "encrypt"} /\ vMaster = V!Unset /\ UNCHANGED <<vFile, vStored>>
    BY <1>3 DEF V!ReadKey
  <2>2. CASE vKeyFile > 0 /\ vMaster' = vKeyFile /\ UNCHANGED <<vFaults, vKeyFile, vOp, vMade, vExcused>>
    <3>1. Typed'
      BY <1>0, <2>2, <2>1 DEF KeysTyped, NamesTyped, VaultOpTyped, FaultsTyped
    <3>2. KeyIsOnDisk' /\ WriteHasStored'
      BY <1>0, <2>1, <2>2 DEF KeyIsOnDisk, WriteHasStored
    <3>3. ~vExcused' => FileHasStored'
      BY <1>0, <2>1, <2>2 DEF FileHasStored
    <3> QED BY <3>1, <3>2, <3>3, <1>b
  <2>3. CASE /\ \/ vKeyFile = 0 /\ UNCHANGED <<vFaults, vExcused>>
                \/ vFaults < MaxFaults /\ vFaults' = vFaults + 1 /\ vExcused' = TRUE
             /\ vMade < MaxKeys /\ vMade' = vMade + 1
             /\ vOp' = [vOp EXCEPT !.pc = IF vOp.pc = "decrypt" THEN "key_decrypt" ELSE "key_encrypt"]
             /\ vKeyFile' = 0 /\ UNCHANGED vMaster
    <3>0. vOp \in VaultOp
      BY <1>0, <2>1 DEF KeysTyped, NamesTyped, VaultOpTyped, FaultsTyped, V!Idle
    <3>1. /\ vOp' \in VaultOp /\ vOp'.names = vOp.names
          /\ vOp'.pc = IF vOp.pc = "decrypt" THEN "key_decrypt" ELSE "key_encrypt"
      BY <2>1, <2>3, <3>0 DEF VaultOp
    <3>2. Typed'
      <4>1. vFaults' \in 0 .. MaxFaults
        BY <1>0, <2>3 DEF KeysTyped, NamesTyped, VaultOpTyped, FaultsTyped
      <4>2. /\ vMade' \in 0 .. MaxKeys /\ vKeyFile' \in 0 .. MaxKeys
            /\ vMaster' \in V!Unset .. MaxKeys
        BY <1>0, <2>3 DEF KeysTyped, NamesTyped, VaultOpTyped, FaultsTyped
      <4> QED BY <1>0, <2>1, <3>1, <4>1, <4>2 DEF KeysTyped, NamesTyped, VaultOpTyped, FaultsTyped, VaultOp, V!Idle
    <3>3. KeyIsOnDisk' /\ WriteHasStored'
      BY <1>0, <2>1, <2>3, <3>1 DEF KeysTyped, NamesTyped, VaultOpTyped, FaultsTyped, KeyIsOnDisk, WriteHasStored, V!NoFile, V!Sealed
    <3>4. ~vExcused' => FileHasStored'
      BY <1>0, <2>1, <2>3 DEF KeysTyped, NamesTyped, VaultOpTyped, FaultsTyped, FileHasStored, V!NoFile, V!Sealed
    <3> QED BY <3>2, <3>3, <3>4, <1>b
  <2> QED BY <1>3, <2>2, <2>3 DEF V!ReadKey, V!NoFault, V!Fault
<1>4. CASE V!WriteKey
  <2>1. /\ vOp.pc \in {"key_decrypt", "key_encrypt"} /\ vKeyFile = 0 /\ vMade > 0
        /\ UNCHANGED <<vFile, vMade, vStored, vExcused>>
        /\ vOp' = [vOp EXCEPT !.pc = IF vOp.pc = "key_decrypt" THEN "decrypt" ELSE "encrypt"]
        /\ vKeyFile' = vMaster' /\ vMaster' \in {0, vMade} /\ vFaults' \in 0 .. MaxFaults
    BY <1>0, <1>4 DEF V!WriteKey, V!After, V!NoFault, V!Fault, KeyIsOnDisk, KeysTyped, NamesTyped, VaultOpTyped, FaultsTyped
  <2>2. /\ vOp' \in VaultOp /\ vOp'.names = vOp.names
        /\ vOp'.pc = IF vOp.pc = "key_decrypt" THEN "decrypt" ELSE "encrypt"
    BY <1>0, <2>1 DEF KeysTyped, NamesTyped, VaultOpTyped, FaultsTyped, VaultOp, V!Idle
  <2>3. Typed'
    BY <1>0, <2>1, <2>2 DEF KeysTyped, NamesTyped, VaultOpTyped, FaultsTyped, VaultOp, V!Idle
  <2>4. KeyIsOnDisk' /\ WriteHasStored'
    BY <1>0, <2>1, <2>2 DEF KeyIsOnDisk, WriteHasStored, V!NoFile, V!Sealed
  <2>5. ~vExcused' => FileHasStored'
    BY <1>0, <2>1 DEF FileHasStored, V!NoFile, V!Sealed
  <2> QED BY <2>3, <2>4, <2>5, <1>b
<1>5. CASE V!Begin
  <2>1. PICK x \in VaultOp : vOp' = x /\ x.pc = "read"
    <3>1. PICK kind \in {"store", "get", "delete"}, c \in Name :
            vOp' = [pc |-> "read", kind |-> kind, name |-> c, names |-> {}]
      BY <1>5 DEF V!Begin
    <3> QED BY <3>1 DEF VaultOp
  <2>2. vOp = V!Idle /\ UNCHANGED <<vKeyFile, vMaster, vFile, vMade, vFaults, vStored, vExcused>>
    BY <1>5 DEF V!Begin
  <2>3. Typed' /\ KeyIsOnDisk' /\ WriteHasStored'
    BY <1>0, <2>1, <2>2 DEF KeysTyped, NamesTyped, VaultOpTyped, FaultsTyped, KeyIsOnDisk, WriteHasStored, VaultOp, V!Idle
  <2>4. ~vExcused' => FileHasStored'
    BY <1>0, <2>2 DEF FileHasStored, V!NoFile, V!Sealed
  <2> QED BY <2>3, <2>4, <1>b
<1>6. CASE V!Read
  <2>1. vOp.pc = "read" /\ UNCHANGED <<vKeyFile, vMaster, vFile, vMade>> /\ vOp \in VaultOp
    BY <1>0, <1>6 DEF V!Read, KeysTyped, NamesTyped, VaultOpTyped, FaultsTyped
  <2>2. /\ vFaults' \in 0 .. MaxFaults /\ vStored' \subseteq vStored
        /\ ~vExcused' => ~vExcused
    <3>1. vStored' \subseteq vStored
      BY <1>6 DEF V!Read
    <3>2. \/ V!Fault /\ vExcused' = TRUE
          \/ UNCHANGED <<vFaults, vExcused>>
      BY <1>6 DEF V!Read, V!NoFault
    <3>3. /\ vFaults' \in 0 .. MaxFaults
          /\ ~vExcused' => ~vExcused
      BY <1>0, <3>2 DEF KeysTyped, NamesTyped, VaultOpTyped, FaultsTyped, V!Fault
    <3> QED BY <3>1, <3>3
  <2>3. \/ vOp' = [vOp EXCEPT !.pc = "decrypt"] /\ vFile # V!NoFile
        \/ vOp' = [vOp EXCEPT !.pc = "encrypt"] /\ (~vExcused' => vFile = V!NoFile)
        \/ vOp' = V!Idle
    BY <1>6 DEF V!Read
  <2>4. /\ vOp' \in VaultOp \cup {V!Idle}
        /\ \/ vOp'.pc = "decrypt" /\ vFile # V!NoFile
           \/ vOp'.pc = "encrypt" /\ (~vExcused' => vFile = V!NoFile)
           \/ vOp'.pc = "idle"
    BY <2>1, <2>3 DEF VaultOp
  <2>5. Typed'
    BY <1>0, <2>1, <2>2, <2>4 DEF KeysTyped, NamesTyped, VaultOpTyped, FaultsTyped, VaultOp, V!Idle
  <2>6. ~vExcused' => FileHasStored' /\ FileHasStored
    BY <1>0, <2>1, <2>2 DEF FileHasStored, V!NoFile, V!Sealed
  <2>7. KeyIsOnDisk' /\ WriteHasStored'
    BY <1>0, <2>1, <2>2, <2>4, <2>6
    DEF KeysTyped, NamesTyped, VaultOpTyped, FaultsTyped, KeyIsOnDisk, WriteHasStored, FileHasStored, V!NoFile, V!Sealed
  <2> QED BY <2>5, <2>6, <2>7, <1>b
<1>7. CASE V!Decrypt
  <2>1. /\ vOp.pc = "decrypt" /\ vMaster # V!Unset /\ vOp \in VaultOp
        /\ UNCHANGED <<vKeyFile, vMaster, vFile, vMade, vFaults, vStored, vExcused>>
    BY <1>0, <1>7 DEF V!Decrypt, KeysTyped, NamesTyped, VaultOpTyped, FaultsTyped
  <2>2. PICK names \in SUBSET Name :
          /\ names = IF V!Opens(vMaster) THEN vFile.names ELSE {}
          /\ vOp' \in {V!Idle, [vOp EXCEPT !.pc = "encrypt", !.names = names]}
    <3> DEFINE n == IF V!Opens(vMaster) THEN vFile.names ELSE {}
    <3>1. n \in SUBSET Name
      BY <1>0 DEF NamesTyped, SealedFile
    <3>2. vOp' \in {V!Idle, [vOp EXCEPT !.pc = "encrypt", !.names = n]}
      BY <1>7 DEF V!Decrypt
    <3> QED BY <3>1, <3>2
  <2>3. /\ vOp' \in VaultOp \cup {V!Idle}
        /\ vOp'.pc = "idle" \/ (vOp'.pc = "encrypt" /\ vOp'.names = names)
    BY <2>1, <2>2 DEF VaultOp
  <2>4. ~vExcused => FileHasStored /\ vStored \subseteq names
    BY <1>0, <2>1, <2>2 DEF KeyIsOnDisk, WriteHasStored, FileHasStored, V!Opens
  <2>5. Typed'
    BY <1>0, <2>1, <2>3 DEF KeysTyped, NamesTyped, VaultOpTyped, FaultsTyped, VaultOp, V!Idle
  <2>6. KeyIsOnDisk' /\ WriteHasStored'
    BY <1>0, <2>1, <2>3, <2>4 DEF KeyIsOnDisk, WriteHasStored
  <2>7. ~vExcused' => FileHasStored'
    BY <2>1, <2>4 DEF FileHasStored, V!NoFile, V!Sealed
  <2> QED BY <2>5, <2>6, <2>7, <1>b
<1>8. CASE V!Encrypt
  <2>1. /\ vOp.pc = "encrypt" /\ vMaster # V!Unset /\ vOp \in VaultOp
        /\ UNCHANGED <<vKeyFile, vMaster, vMade, vFaults, vStored, vExcused>>
    BY <1>0, <1>8 DEF V!Encrypt, KeysTyped, NamesTyped, VaultOpTyped, FaultsTyped
  <2>2. CASE vOp' = V!Idle /\ UNCHANGED vFile
    <3>1. Typed'
      BY <1>0, <2>1, <2>2 DEF KeysTyped, NamesTyped, VaultOpTyped, FaultsTyped
    <3>2. KeyIsOnDisk' /\ WriteHasStored'
      BY <1>0, <2>1, <2>2 DEF KeyIsOnDisk, WriteHasStored
    <3>3. ~vExcused' => FileHasStored'
      BY <1>0, <2>1, <2>2 DEF FileHasStored
    <3> QED BY <3>1, <3>2, <3>3, <1>b
  <2>3. CASE vMaster # 0 /\ vFile' = V!Torn /\ vOp' = [vOp EXCEPT !.pc = "write", !.names = V!Changed(vOp.names)]
    <3>1. PICK names \in SUBSET Name : names = V!Changed(vOp.names)
      BY <2>1 DEF V!Changed, VaultOp
    <3>2. /\ vOp' \in VaultOp /\ vOp'.pc = "write" /\ vOp'.names = names
          /\ vOp'.kind = vOp.kind /\ vOp'.name = vOp.name
      BY <2>1, <2>3, <3>1 DEF VaultOp
    <3>3. ~vExcused => V!Changed(vStored) \subseteq names
      BY <1>0, <2>1, <3>1 DEF WriteHasStored, V!Changed
    <3>4. V!Changed(vStored)' = V!Changed(vStored)
      BY <2>1, <3>2 DEF V!Changed
    <3>5. Typed'
      <4>1. vFile' \in SealedFile
        BY <2>3 DEF SealedFile, V!Torn, V!Sealed
      <4> QED BY <1>0, <2>1, <3>2, <4>1 DEF KeysTyped, NamesTyped, VaultOpTyped, FaultsTyped
    <3>6. KeyIsOnDisk' /\ WriteHasStored'
      BY <1>0, <2>1, <2>3, <3>2, <3>3, <3>4 DEF KeyIsOnDisk, WriteHasStored, KeysTyped, NamesTyped, VaultOpTyped, FaultsTyped
    <3> QED BY <3>2, <3>5, <3>6, <1>b
  <2> QED BY <1>8, <2>2, <2>3 DEF V!Encrypt
<1>9. CASE V!Write
  <2>1. /\ vOp.pc = "write" /\ vOp' = V!Idle /\ vOp \in VaultOp
        /\ UNCHANGED <<vKeyFile, vMaster, vMade>>
    BY <1>0, <1>9 DEF V!Write, KeysTyped, NamesTyped, VaultOpTyped, FaultsTyped
  <2>2. CASE /\ vFile' = V!Sealed(vMaster, vOp.names) /\ UNCHANGED <<vFaults, vExcused>>
             /\ vStored' = V!Changed(vStored)
    <3>1. Typed'
      <4>1. vFile' \in SealedFile
        BY <1>0, <2>1, <2>2 DEF KeysTyped, SealedFile, VaultOp, V!Sealed
      <4>2. vStored' \subseteq Name
        BY <1>0, <1>2, <2>1, <2>2 DEF NamesTyped
      <4> QED BY <1>0, <2>1, <2>2, <4>1, <4>2 DEF KeysTyped, NamesTyped, VaultOpTyped, FaultsTyped
    <3>2. KeyIsOnDisk' /\ WriteHasStored'
      BY <1>0, <2>1 DEF KeyIsOnDisk, WriteHasStored
    <3>3. ~vExcused' => FileHasStored'
      BY <1>0, <2>1, <2>2 DEF KeyIsOnDisk, WriteHasStored, FileHasStored, V!Sealed
    <3> QED BY <3>1, <3>2, <3>3, <1>b
  <2>3. CASE V!Fault /\ vExcused' = TRUE /\ UNCHANGED <<vFile, vStored>>
    <3>1. Typed'
      BY <1>0, <2>1, <2>3 DEF KeysTyped, NamesTyped, VaultOpTyped, FaultsTyped, VaultOp, V!Fault, V!Idle
    <3>2. KeyIsOnDisk' /\ WriteHasStored'
      BY <1>0, <2>1 DEF KeyIsOnDisk, WriteHasStored
    <3> QED BY <2>3, <3>1, <3>2, <1>b
  <2> QED BY <1>9, <2>2, <2>3 DEF V!Write, V!NoFault
<1>10. CASE V!Restart
  <2>1. /\ vMaster' = V!Unset /\ vOp' = V!Idle /\ vExcused' = (vExcused \/ vOp.pc = "write")
        /\ vFaults < MaxFaults /\ vFaults' = vFaults + 1
        /\ UNCHANGED <<vKeyFile, vFile, vMade, vStored>>
    BY <1>10 DEF V!Restart, V!Fault
  <2>2. Typed' /\ KeyIsOnDisk' /\ WriteHasStored'
    BY <1>0, <2>1 DEF KeysTyped, NamesTyped, VaultOpTyped, FaultsTyped, VaultOp, KeyIsOnDisk, WriteHasStored, V!Idle
  <2>3. ~vExcused' => FileHasStored'
    BY <1>0, <2>1 DEF FileHasStored, V!NoFile, V!Sealed
  <2> QED BY <2>2, <2>3, <1>b
<1>11. CASE UNCHANGED V!vars
  <2>1. Typed'
    BY <1>0, <1>11 DEF V!vars, KeysTyped, NamesTyped, VaultOpTyped, FaultsTyped
  <2>2. KeyIsOnDisk' /\ WriteHasStored'
    BY <1>0, <1>11 DEF V!vars, KeyIsOnDisk, WriteHasStored, V!Changed
  <2>3. ~vExcused' /\ vOp'.pc # "write" => FileHasStored'
    BY <1>0, <1>11 DEF V!vars, FileHasStored
  <2> QED BY <2>1, <2>2, <2>3, <1>b
<1> QED BY <1>3, <1>4, <1>5, <1>6, <1>7, <1>8, <1>9, <1>10, <1>11 DEF V!Next

\* The invariant of the vault implies what the runs check of it.
LEMMA VaultHolds == VaultInv => V!TypeOK /\ V!StoredIsKept
<1> SUFFICES ASSUME VaultInv PROVE V!TypeOK /\ V!StoredIsKept
  OBVIOUS
<1>1. V!TypeOK
  <2>1. vOp.pc \in {"idle", "read", "decrypt", "encrypt", "key_decrypt", "key_encrypt", "write"}
    BY VaultConstants DEF VaultInv, VaultTyped, VaultOpTyped, VaultOp
  <2> QED BY <2>1
          DEF VaultInv, VaultTyped, KeysTyped, NamesTyped, SealedFile, FaultsTyped, ExcusedTyped,
              V!TypeOK
<1>2. V!StoredIsKept
  BY VaultConstants
  DEF VaultInv, KeyIsOnDisk, FileHasStored, V!StoredIsKept, V!Opens
<1> QED BY <1>1, <1>2

-----------------------------------------------------------------------------
(* Pulse *)

\* Only an idle daemon is at no rule.
Place ==
    {p \in [pc : {"idle", "rule", "save", "rename"}, rule : 0 .. Rules, tmp : U!States] :
       p.rule = 0 => p.pc = "idle"}
ListsTyped == uInsights \in U!States /\ uDisk \in U!States
StepTyped == uStep \in Place
RestTyped ==
    /\ uCooling \subseteq 1 .. Rules /\ uFaults \in 0 .. MaxFaults
    /\ uGone \subseteq Insight /\ uUnsaved \subseteq Insight /\ uExcused \subseteq Insight
AnnouncedTyped == uAnnounced \in [Insight -> 0 .. 2]
FailedTyped == uFailed \in BOOLEAN

\* What is not on the disk as it is in memory is known to be unsaved; nothing is when the
\* last save succeeded and no other is due; and the file that is about to be renamed is up
\* to date.
DiskIsKnown ==
    /\ \A x \in Insight \ uUnsaved : uDisk[x] = uInsights[x]
    /\ uStep.pc \in {"idle", "rule"} /\ ~uFailed => uUnsaved = {}
    /\ uStep.pc = "rename" => uStep.tmp = uInsights
InsightsAreKnown ==
    \A x \in Insight \ uExcused :
        /\ uAnnounced[x] <= 1
        /\ uInsights[x] = "new" => uAnnounced[x] = 0
        /\ x \in uGone => uInsights[x] = "dismissed"
PulseTyped == ListsTyped /\ StepTyped /\ RestTyped /\ AnnouncedTyped /\ FailedTyped
PulseInv == PulseTyped /\ DiskIsKnown /\ InsightsAreKnown

\* What the assumption says of the constants of the pulse.
LEMMA PulseConstants ==
    /\ Rules \in Nat \ {0} /\ MaxFaults \in Nat /\ U!Nothing \in U!States
    /\ U!Idle \in Place /\ U!Idle.pc = "idle"
    /\ \A at \in {"rule", "save"}, rule \in 1 .. Rules :
         U!At(at, rule) \in Place /\ U!At(at, rule).pc = at
<1>1. Rules \in Nat \ {0} /\ MaxFaults \in Nat
  BY PartsAssumption DEF U!PulseAssumption
<1>2. U!Nothing \in U!States
  BY DEF U!Nothing, U!States
<1>3. U!Idle \in Place /\ U!Idle.pc = "idle"
  BY <1>1, <1>2 DEF U!Idle, U!At, Place
<1>4. ASSUME NEW at \in {"rule", "save"}, NEW rule \in 1 .. Rules
      PROVE  U!At(at, rule) \in Place /\ U!At(at, rule).pc = at
  BY <1>1, <1>2 DEF U!At, Place
<1> QED BY <1>1, <1>2, <1>3, <1>4

\* The step after one that is over is the next rule, or none.
LEMMA AfterAStep ==
    ASSUME StepTyped
    PROVE  U!NextRule \in Place /\ U!NextRule.pc \in {"idle", "rule"}
<1>1. CASE uStep.rule = Rules
  BY <1>1, PulseConstants DEF U!NextRule
<1>2. CASE uStep.rule # Rules
  <2>0. uStep.rule \in 0 .. Rules
    BY DEF StepTyped, Place
  <2>1. uStep.rule + 1 \in 1 .. Rules
    BY <1>2, <2>0, PulseConstants
  <2> QED BY <1>2, <2>1, PulseConstants DEF U!NextRule
<1> QED BY <1>1, <1>2

\* The daemon begins in its invariant.
LEMMA PulseStarts == U!Init => PulseInv
<1> SUFFICES ASSUME U!Init PROVE PulseInv
  OBVIOUS
<1>1. ListsTyped /\ StepTyped
  BY PulseConstants DEF U!Init, ListsTyped, StepTyped
<1>2. RestTyped /\ AnnouncedTyped
  BY PulseConstants DEF U!Init, RestTyped, AnnouncedTyped
<1>3. FailedTyped
  BY DEF U!Init, FailedTyped
<1>4. DiskIsKnown
  BY PulseConstants DEF U!Init, DiskIsKnown
<1>5. InsightsAreKnown
  BY DEF U!Init, InsightsAreKnown
<1> QED BY <1>1, <1>2, <1>3, <1>4, <1>5 DEF PulseInv, PulseTyped

\* Every step of the daemon keeps its invariant.
LEMMA PulseInvStays == PulseInv /\ [U!Next]_(U!vars) => PulseInv'
<1> SUFFICES ASSUME PulseInv, [U!Next]_(U!vars) PROVE PulseInv'
  OBVIOUS
<1> USE PulseConstants
<1>0. /\ ListsTyped /\ StepTyped /\ RestTyped /\ AnnouncedTyped /\ FailedTyped
      /\ DiskIsKnown /\ InsightsAreKnown
  BY DEF PulseInv, PulseTyped
<1>1. FailedTyped'
  BY <1>0 DEF U!Next, U!vars, U!Start, U!CheckRule, U!ClearHistory, U!SaveFails, U!Save,
     U!Rename, U!Restart, U!CooldownEnds, U!DismissInsight, FailedTyped
\* Steps that leave the insights and the disk as they are.
<1>2. ASSUME UNCHANGED <<uInsights, uDisk, uAnnounced, uGone, uExcused>>,
             uStep' \in Place, RestTyped',
             uUnsaved' = uUnsaved \/ (uUnsaved' = {} /\ \A x \in Insight : uDisk[x] = uInsights[x]),
             uStep'.pc \in {"idle", "rule"} /\ ~uFailed' =>
                 uUnsaved' = {} \/ (uStep.pc \in {"idle", "rule"} /\ ~uFailed),
             uStep'.pc = "rename" => uStep'.tmp = uInsights
      PROVE  PulseInv'
  <2>1. ListsTyped' /\ StepTyped' /\ AnnouncedTyped'
    BY <1>0, <1>2 DEF ListsTyped, StepTyped, AnnouncedTyped, U!States, Place
  <2>2. DiskIsKnown'
    BY <1>0, <1>2 DEF DiskIsKnown
  <2>3. InsightsAreKnown'
    BY <1>0, <1>2 DEF InsightsAreKnown
  <2> QED BY <1>1, <1>2, <2>1, <2>2, <2>3 DEF PulseInv, PulseTyped
<1>3. CASE U!Start
  <2>1. /\ uStep.pc = "idle" /\ uStep' \in Place /\ uStep'.pc = "rule"
        /\ UNCHANGED <<uInsights, uCooling, uDisk, uFaults, uAnnounced, uGone, uUnsaved,
                       uFailed, uExcused>>
    BY <1>3 DEF U!Start
  <2>2. RestTyped'
    BY <1>0, <2>1 DEF RestTyped
  <2> QED BY <1>2, <2>1, <2>2
<1>4. CASE U!CheckRule
  <2>1. PICK found \in SUBSET {x \in Insight : RuleOf[x] = uStep.rule} :
          /\ uInsights' = [x \in Insight |-> IF x \in U!Fresh(found) THEN "active" ELSE uInsights[x]]
          /\ uAnnounced' = [x \in Insight |-> IF x \in U!Fresh(found) /\ uAnnounced[x] < 2
                                                THEN uAnnounced[x] + 1 ELSE uAnnounced[x]]
          /\ uCooling' = IF U!Fresh(found) = {} THEN uCooling ELSE uCooling \cup {uStep.rule}
          /\ uUnsaved' = uUnsaved \cup U!Fresh(found)
          /\ uStep' = IF U!Fresh(found) = {} THEN U!NextRule ELSE U!At("save", uStep.rule)
    BY <1>4 DEF U!CheckRule
  <2>2. PICK fresh \in SUBSET Insight :
          fresh = U!Fresh(found) /\ \A x \in fresh : uInsights[x] = "new"
    <3>1. U!Fresh(found) \in SUBSET Insight
      BY DEF U!Fresh
    <3>2. \A x \in U!Fresh(found) : uInsights[x] = "new"
      BY DEF U!Fresh
    <3> QED BY <3>1, <3>2
  <2>3. /\ uStep.pc = "rule" /\ UNCHANGED <<uDisk, uFaults, uGone, uFailed, uExcused>>
    BY <1>4 DEF U!CheckRule
  <2>4. /\ \A x \in fresh : uInsights'[x] = "active" /\ uAnnounced'[x] \in 0 .. 2
             /\ (uAnnounced[x] = 0 => uAnnounced'[x] = 1)
        /\ \A x \in Insight \ fresh : uInsights'[x] = uInsights[x] /\ uAnnounced'[x] = uAnnounced[x]
    BY <1>0, <2>1, <2>2 DEF AnnouncedTyped
  <2>5. ListsTyped'
    BY <1>0, <2>1, <2>2, <2>3 DEF ListsTyped, U!States
  <2>6. AnnouncedTyped'
    BY <1>0, <2>1, <2>2 DEF AnnouncedTyped
  <2>7. InsightsAreKnown'
    BY <1>0, <2>2, <2>3, <2>4 DEF InsightsAreKnown
  <2>8. CASE fresh = {}
    <3>1. /\ uStep' \in Place /\ uStep'.pc \in {"idle", "rule"} /\ uUnsaved' = uUnsaved
          /\ uCooling' = uCooling
      BY <1>0, <2>1, <2>2, <2>8, AfterAStep
    <3>2. RestTyped' /\ StepTyped'
      BY <1>0, <2>3, <3>1 DEF RestTyped, StepTyped, Place, U!States
    <3>3. DiskIsKnown'
      BY <1>0, <2>3, <2>4, <2>8, <3>1 DEF DiskIsKnown
    <3> QED BY <1>1, <2>5, <2>6, <2>7, <3>2, <3>3 DEF PulseInv, PulseTyped
  <2>9. CASE fresh # {}
    <3>1. PICK r \in 1 .. Rules : r = uStep.rule
      BY <1>0, <2>3 DEF StepTyped, Place
    <3>2. /\ uStep' = U!At("save", r) /\ uUnsaved' = uUnsaved \cup fresh
          /\ uCooling' = uCooling \cup {r}
      BY <2>1, <2>2, <2>9, <3>1
    <3>4. uStep' \in Place /\ uStep'.pc = "save"
      BY <3>2
    <3>5. RestTyped' /\ StepTyped'
      BY <1>0, <2>3, <3>2, <3>4 DEF RestTyped, StepTyped, Place, U!States
    <3>6. DiskIsKnown'
      BY <1>0, <2>3, <2>4, <3>2, <3>4 DEF DiskIsKnown
    <3> QED BY <1>1, <2>5, <2>6, <2>7, <3>5, <3>6 DEF PulseInv, PulseTyped
  <2> QED BY <2>8, <2>9
<1>5. ASSUME NEW x \in Insight, U!DismissInsight(x) PROVE PulseInv'
  <2>1. /\ uInsights[x] # "new" /\ uInsights' = [uInsights EXCEPT ![x] = "dismissed"]
        /\ uGone' = uGone \cup {x} /\ uUnsaved' = uUnsaved \cup {x}
        /\ uStep' = U!At("save", Rules)
        /\ UNCHANGED <<uCooling, uDisk, uFaults, uAnnounced, uFailed, uExcused>>
    BY <1>5 DEF U!DismissInsight
  <2>2. uStep' \in Place /\ uStep'.pc = "save"
    BY <2>1
  <2>3. /\ ListsTyped' /\ uInsights'[x] = "dismissed"
        /\ \A z \in Insight \ {x} : uInsights'[z] = uInsights[z]
    BY <1>0, <2>1 DEF ListsTyped, U!States
  <2>4. StepTyped' /\ RestTyped' /\ AnnouncedTyped'
    BY <1>0, <2>1, <2>2 DEF StepTyped, Place, U!States, RestTyped, AnnouncedTyped
  <2>5. DiskIsKnown'
    BY <1>0, <2>1, <2>2, <2>3 DEF DiskIsKnown
  <2>6. InsightsAreKnown'
    <3> SUFFICES ASSUME NEW z \in Insight \ uExcused'
                 PROVE  /\ uAnnounced'[z] <= 1
                        /\ uInsights'[z] = "new" => uAnnounced'[z] = 0
                        /\ z \in uGone' => uInsights'[z] = "dismissed"
      BY DEF InsightsAreKnown
    <3>1. /\ uAnnounced[z] <= 1 /\ uAnnounced' = uAnnounced
          /\ uInsights[z] = "new" => uAnnounced[z] = 0
          /\ z \in uGone => uInsights[z] = "dismissed"
      BY <1>0, <2>1 DEF InsightsAreKnown
    <3>2. z = x \/ (uInsights'[z] = uInsights[z] /\ (z \in uGone' => z \in uGone))
      BY <2>1, <2>3
    <3> QED BY <2>3, <3>1, <3>2
  <2> QED BY <1>1, <2>3, <2>4, <2>5, <2>6 DEF PulseInv, PulseTyped
<1>6. CASE U!ClearHistory
  <2>1. /\ uInsights' = U!Nothing /\ uGone' = {} /\ uAnnounced' = [x \in Insight |-> 0]
        /\ uUnsaved' = Insight /\ uStep' = U!At("save", Rules)
        /\ UNCHANGED <<uCooling, uDisk, uFaults, uFailed, uExcused>>
    BY <1>6 DEF U!ClearHistory
  <2>2. uStep' \in Place /\ uStep'.pc = "save"
    BY <2>1
  <2>3. ListsTyped' /\ StepTyped' /\ RestTyped' /\ AnnouncedTyped'
    BY <1>0, <2>1, <2>2
    DEF ListsTyped, StepTyped, Place, U!States, RestTyped, AnnouncedTyped
  <2>4. DiskIsKnown' /\ InsightsAreKnown'
    BY <2>1, <2>2 DEF DiskIsKnown, InsightsAreKnown
  <2> QED BY <1>1, <2>3, <2>4 DEF PulseInv, PulseTyped
<1>7. CASE U!SaveFails
  <2>1. /\ uFailed' = TRUE /\ uStep' \in Place /\ uStep'.pc \in {"idle", "rule"}
        /\ uFaults' \in 0 .. MaxFaults
        /\ UNCHANGED <<uInsights, uCooling, uDisk, uAnnounced, uGone, uUnsaved, uExcused>>
    BY <1>0, <1>7, AfterAStep DEF U!SaveFails, U!Fault, RestTyped
  <2>2. RestTyped'
    BY <1>0, <2>1 DEF RestTyped
  <2> QED BY <1>2, <2>1, <2>2
<1>8. CASE U!Save
  <2> DEFINE x == [uStep EXCEPT !.pc = "rename", !.tmp = uInsights]
  <2>1. x \in Place /\ x.pc = "rename" /\ x.tmp = uInsights
    <3>1. /\ uStep \in [pc : {"idle", "rule", "save", "rename"}, rule : 0 .. Rules, tmp : U!States]
          /\ uStep.rule # 0 /\ uInsights \in U!States
      BY <1>0, <1>8 DEF StepTyped, Place, ListsTyped, U!Save
    <3> QED BY <3>1 DEF Place
  <2>2. /\ uStep' = x
        /\ UNCHANGED <<uInsights, uCooling, uDisk, uFaults, uAnnounced, uGone, uUnsaved,
                       uFailed, uExcused>>
    BY <1>8 DEF U!Save
  <2> HIDE DEF x
  <2>3. RestTyped'
    BY <1>0, <2>2 DEF RestTyped
  <2> QED BY <1>2, <2>1, <2>2, <2>3
<1>9. CASE U!Rename
  <2>1. /\ uDisk' = uInsights /\ uStep' \in Place /\ uStep'.pc \in {"idle", "rule"}
        /\ uUnsaved' = {}
        /\ UNCHANGED <<uInsights, uCooling, uFaults, uAnnounced, uGone, uExcused>>
    BY <1>0, <1>9, AfterAStep DEF U!Rename, DiskIsKnown
  <2>2. ListsTyped' /\ StepTyped' /\ RestTyped' /\ AnnouncedTyped'
    BY <1>0, <2>1 DEF ListsTyped, StepTyped, Place, U!States, RestTyped, AnnouncedTyped
  <2>3. DiskIsKnown'
    BY <2>1 DEF DiskIsKnown
  <2>4. InsightsAreKnown'
    BY <1>0, <2>1 DEF InsightsAreKnown
  <2> QED BY <1>1, <2>2, <2>3, <2>4 DEF PulseInv, PulseTyped
<1>10. CASE U!Restart
  <2>1. /\ uInsights' = uDisk /\ uCooling' = {} /\ uStep' = U!Idle /\ uUnsaved' = {}
        /\ UNCHANGED <<uDisk, uAnnounced, uGone>> /\ uFaults' \in 0 .. MaxFaults
    BY <1>0, <1>10 DEF U!Restart, U!Fault, RestTyped
  <2>2. /\ uExcused \subseteq uExcused' /\ uExcused' \subseteq Insight
        /\ \A x \in Insight \ uExcused' : uDisk[x] = uInsights[x]
    BY <1>0, <1>10 DEF U!Restart, DiskIsKnown, RestTyped
  <2>3. ListsTyped' /\ StepTyped' /\ RestTyped' /\ AnnouncedTyped'
    BY <1>0, <2>1, <2>2 DEF ListsTyped, StepTyped, Place, U!States, RestTyped, AnnouncedTyped
  <2>4. DiskIsKnown'
    BY <2>1 DEF DiskIsKnown
  <2>5. InsightsAreKnown'
    BY <1>0, <2>1, <2>2 DEF InsightsAreKnown
  <2> QED BY <1>1, <2>3, <2>4, <2>5 DEF PulseInv, PulseTyped
<1>11. ASSUME \/ UNCHANGED U!vars
              \/ \E r \in 1 .. Rules : U!CooldownEnds(r)
       PROVE  PulseInv'
  <2>1. /\ uCooling' \subseteq uCooling
        /\ UNCHANGED <<uInsights, uDisk, uStep, uFaults, uAnnounced, uGone, uUnsaved, uFailed,
                       uExcused>>
    BY <1>11 DEF U!vars, U!CooldownEnds
  <2>2. RestTyped' /\ uStep' \in Place /\ (uStep'.pc = "rename" => uStep'.tmp = uInsights)
    BY <1>0, <2>1 DEF RestTyped, StepTyped, DiskIsKnown
  <2> QED BY <1>2, <2>1, <2>2
<1> QED BY <1>3, <1>4, <1>5, <1>6, <1>7, <1>8, <1>9, <1>10, <1>11 DEF U!Next

\* The invariant of the daemon implies what the runs check of it.
LEMMA PulseHolds == PulseInv => U!TypeOK /\ U!InsightsAreTold
<1> SUFFICES ASSUME PulseInv PROVE U!TypeOK /\ U!InsightsAreTold
  OBVIOUS
<1>1. U!TypeOK
  BY DEF PulseInv, PulseTyped, ListsTyped, StepTyped, Place, RestTyped, AnnouncedTyped,
     FailedTyped, U!TypeOK
<1>2. U!InsightsAreTold
  BY DEF PulseInv, InsightsAreKnown, U!InsightsAreTold
<1> QED BY <1>1, <1>2

-----------------------------------------------------------------------------
(* Finite sets *)

\* Of the bad subsets of a finite set one has no bad proper subset.
LEMMA Smallest ==
    ASSUME NEW S, IsFiniteSet(S), NEW Bad \in SUBSET SUBSET S, Bad # {}
    PROVE  \E s \in Bad : \A u \in SUBSET s : u # s => u \notin Bad
<1>1. Bad \subseteq FiniteSubsetsOf(S)
  BY FS_FiniteSubsetsOfFinite
<1>2. PICK s \in Bad : \A u \in Bad : ~ (<<u, s>> \in StrictSubsetOrdering(S))
  BY <1>1, FS_StrictSubsetOrderingWellFounded, WFMin
<1>3. ASSUME NEW u \in SUBSET s, u # s, u \in Bad
      PROVE  FALSE
  <2>1. <<u, s>> \in (SUBSET S) \X (SUBSET S)
    BY <1>3
  <2>2. <<u, s>> \in StrictSubsetOrdering(S)
    BY <2>1, <1>3 DEF StrictSubsetOrdering
  <2> QED BY <2>2, <1>2, <1>3
<1> QED BY <1>3

-----------------------------------------------------------------------------
(* Memory *)

AMemory == [id : 1 .. MaxAdds, content : Content, embedded : Content]
ACaller == [pc : {"idle", "add", "search", "mark"}, content : Content,
            found : SUBSET (1 .. MaxAdds)]
MemoriesTyped == mMems \subseteq AMemory /\ mDisk.mems \subseteq AMemory
CreatedTyped == mCreated \in 0 .. MaxAdds
MemoryCallersTyped == mCaller \in [Caller -> ACaller]

\* u is the order in which the members of I were used.
OrderOf(u, I) == u \subseteq I \X I /\ M!Orders(u, I)
\* Memories m that were used in the order u: distinct, few enough, and ordered.
Distinct(m) == \A x, y \in m : x # y => x.id # y.id /\ ~M!IsSimilar(x.embedded, y.embedded)
Recorded(m, u, c) ==
    /\ Distinct(m) /\ IsFiniteSet(m) /\ Cardinality(m) <= MaxCount
    /\ OrderOf(u, M!IdsOf(m))
    /\ \A x \in m : x.id <= c
MemoryInv ==
    /\ MemoriesTyped /\ CreatedTyped /\ MemoryCallersTyped
    /\ Recorded(mMems, mUsed, mCreated) /\ Recorded(mDisk.mems, mDisk.used, mCreated)

\* What the assumption says of the constants of the memories.
LEMMA MemoryConstants == Content # {} /\ MaxCount \in Nat /\ MaxAdds \in Nat
BY PartsAssumption DEF M!MemoryAssumption

\* The cardinality of the model is that of the lemmas.
LEMMA MemoryCardinality == ASSUME NEW S PROVE M!Cardinality(S) = Cardinality(S)
BY DEF M!Cardinality, Cardinality

\* An order without some of its members is one of the others.
LEMMA OrderWithout ==
    ASSUME NEW u, NEW I, OrderOf(u, I), NEW S
    PROVE  OrderOf(M!Without(u, S), I \ S)
<1>1. \A a, b : <<a, b>> \in M!Without(u, S) <=> <<a, b>> \in u /\ a \notin S /\ b \notin S
  BY DEF M!Without
<1>2. M!Without(u, S) \subseteq (I \ S) \X (I \ S)
  BY DEF M!Without, OrderOf
<1> HIDE DEF M!Without
<1> QED BY <1>1, <1>2 DEF OrderOf, M!Orders

\* What was used last comes after all others.
LEMMA OrderWith ==
    ASSUME NEW u, NEW I, OrderOf(u, I), NEW i, i \notin I
    PROVE  OrderOf(u \cup (I \X {i}), I \cup {i})
<1>1. \A a, b : <<a, b>> \in u \cup (I \X {i}) <=> <<a, b>> \in u \/ (a \in I /\ b = i)
  OBVIOUS
<1>2. u \cup (I \X {i}) \subseteq (I \cup {i}) \X (I \cup {i})
  BY DEF OrderOf
<1>3. \A a, b : <<a, b>> \in u => a \in I /\ b \in I
  BY DEF OrderOf
<1>4. PICK v : v = u \cup (I \X {i})
  OBVIOUS
<1>5. \A a, b : <<a, b>> \in v <=> <<a, b>> \in u \/ (a \in I /\ b = i)
  BY <1>1, <1>4
<1>6. M!Orders(v, I \cup {i})
  <2>1. \A a, b \in I \cup {i} : a = b \/ <<a, b>> \in v \/ <<b, a>> \in v
    BY <1>5 DEF OrderOf, M!Orders
  <2>2. \A a, b \in I \cup {i} : <<a, b>> \in v => <<b, a>> \notin v
    BY <1>5, <1>3 DEF OrderOf, M!Orders
  <2>3. \A a, b, c \in I \cup {i} : <<a, b>> \in v /\ <<b, c>> \in v => <<a, c>> \in v
    BY <1>5, <1>3 DEF OrderOf, M!Orders
  <2> QED BY <2>1, <2>2, <2>3 DEF M!Orders
<1> QED BY <1>2, <1>4, <1>6 DEF OrderOf

\* Memories that are used come after the others, in the order of their use.
LEMMA OrderTouched ==
    ASSUME NEW u, NEW I, OrderOf(u, I), NEW S \in SUBSET I,
           NEW r \in SUBSET (S \X S), M!Orders(r, S)
    PROVE  OrderOf(M!Without(u, S) \cup ((I \ S) \X S) \cup r, I)
<1>1. PICK v : v = M!Without(u, S) \cup ((I \ S) \X S) \cup r
  OBVIOUS
<1>2. \A a, b : <<a, b>> \in v <=>
        \/ <<a, b>> \in u /\ a \notin S /\ b \notin S
        \/ a \in I /\ a \notin S /\ b \in S
        \/ <<a, b>> \in r
  BY <1>1 DEF M!Without
<1>3. v \subseteq I \X I
  BY <1>1 DEF M!Without, OrderOf
<1>4. \A a, b : /\ <<a, b>> \in u => a \in I /\ b \in I
                /\ <<a, b>> \in r => a \in S /\ b \in S
  BY DEF OrderOf
<1>5. \A a \in S : a \in I
  OBVIOUS
<1>6. M!Orders(v, I)
  <2>1. \A a, b \in I : a = b \/ <<a, b>> \in v \/ <<b, a>> \in v
    BY <1>2 DEF OrderOf, M!Orders
  <2>2. \A a, b \in I : <<a, b>> \in v => <<b, a>> \notin v
    BY <1>2, <1>4 DEF OrderOf, M!Orders
  <2>3. \A a, b, c \in I : <<a, b>> \in v /\ <<b, c>> \in v => <<a, c>> \in v
    BY <1>2, <1>4 DEF OrderOf, M!Orders
  <2> QED BY <2>1, <2>2, <2>3 DEF M!Orders
<1> QED BY <1>1, <1>3, <1>6 DEF OrderOf

\* Of finitely many ordered memories one was used first.
LEMMA LeastRecent ==
    ASSUME NEW I, IsFiniteSet(I), I # {}, NEW u, M!Orders(u, I)
    PROVE  \E m \in I : \A n \in I : <<n, m>> \notin u
<1> DEFINE Bad == {s \in SUBSET I : s # {} /\ \A m \in s : \E n \in s : <<n, m>> \in u}
<1>0. I \notin Bad => \E m \in I : \A n \in I : <<n, m>> \notin u
  OBVIOUS
<1> SUFFICES ASSUME Bad # {} PROVE FALSE
  BY <1>0
<1>9. Bad \in SUBSET SUBSET I
  OBVIOUS
<1> HIDE DEF Bad
<1>1. PICK s \in Bad : \A t \in SUBSET s : t # s => t \notin Bad
  BY <1>9, Smallest
<1> USE DEF Bad
<1>2. PICK x \in s : TRUE
  OBVIOUS
<1>3. s \ {x} \notin Bad /\ s \ {x} \in SUBSET I
  BY <1>1
<1>4. PICK y \in s : <<y, x>> \in u
  OBVIOUS
<1>5. y # x
  BY <1>4 DEF M!Orders
<1>6. PICK z \in s \ {x} : \A n \in s \ {x} : <<n, z>> \notin u
  BY <1>3, <1>5
<1>7. <<x, z>> \in u
  BY <1>1, <1>6
<1>8. <<y, z>> \in u
  BY <1>4, <1>7 DEF M!Orders
<1> QED BY <1>5, <1>6, <1>8

\* No memory is a state of the memories.
LEMMA NothingRecorded == ASSUME NEW c PROVE Recorded({}, {}, c)
<1>1. M!IdsOf({}) = {} /\ IsFiniteSet({}) /\ Cardinality({}) = 0
  BY FS_EmptySet DEF M!IdsOf
<1> QED BY <1>1, MemoryConstants DEF Recorded, Distinct, OrderOf, M!Orders

\* The memories begin in their invariant.
LEMMA MemoryStarts == M!Init => MemoryInv
<1> SUFFICES ASSUME M!Init PROVE MemoryInv
  OBVIOUS
<1> USE MemoryConstants DEF M!Init
<1>1. MemoriesTyped /\ CreatedTyped
  BY DEF MemoriesTyped, CreatedTyped
<1>2. MemoryCallersTyped
  BY DEF MemoryCallersTyped, ACaller, M!Idle
<1>3. Recorded({}, {}, mCreated)
  BY NothingRecorded
<1> QED BY <1>1, <1>2, <1>3 DEF MemoryInv

\* What was recorded stays so when others are made.
LEMMA RecordedLater ==
    ASSUME NEW m \in SUBSET AMemory, NEW u, NEW c \in Nat, NEW d \in Nat, c <= d, Recorded(m, u, c)
    PROVE  Recorded(m, u, d)
<1>1. \A x \in m : x.id \in Nat
  BY MemoryConstants DEF AMemory
<1> QED BY <1>1 DEF Recorded

\* The parts of the invariant in the next state.
LEMMA MemoryMoves ==
    ASSUME MemoriesTyped', CreatedTyped', MemoryCallersTyped',
           Recorded(mMems', mUsed', mCreated'), Recorded(mDisk'.mems, mDisk'.used, mCreated')
    PROVE  MemoryInv'
BY DEF MemoryInv, Recorded, Distinct, OrderOf, M!IdsOf, M!IsSimilar, M!Orders

\* A change is kept on the disk, or fails to be.
LEMMA MemorySaved ==
    ASSUME MemoryInv, M!Save, mMems' \subseteq AMemory, Recorded(mMems', mUsed', mCreated'),
           CreatedTyped', mCreated <= mCreated', MemoryCallersTyped'
    PROVE  MemoryInv'
<1>1. mCreated \in Nat /\ mCreated' \in Nat
  BY MemoryConstants DEF MemoryInv, CreatedTyped
<1>2. Recorded(mDisk.mems, mDisk.used, mCreated')
  BY <1>1, RecordedLater DEF MemoryInv, MemoriesTyped
<1>3. CASE mDisk' = [mems |-> mMems', used |-> mUsed']
  <2>1. mDisk'.mems = mMems' /\ mDisk'.used = mUsed'
    BY <1>3
  <2> QED BY <2>1, MemoryMoves DEF MemoriesTyped
<1>4. CASE mDisk' = mDisk
  BY <1>2, <1>4, MemoryMoves DEF MemoryInv, MemoriesTyped
<1> QED BY <1>3, <1>4 DEF M!Save

\* Marking memories as used changes their order only.
LEMMA TouchOrders ==
    ASSUME MemoryInv, NEW S \in SUBSET M!IdsOf(mMems), M!Touch(S)
    PROVE  OrderOf(mUsed', M!IdsOf(mMems))
<1>1. M!Ids = M!IdsOf(mMems)
  BY DEF M!Ids, M!IdsOf
<1>2. PICK r \in SUBSET (S \X S) :
        M!Orders(r, S) /\ mUsed' = M!Without(mUsed, S) \cup ((M!IdsOf(mMems) \ S) \X S) \cup r
  BY <1>1 DEF M!Touch
<1>3. OrderOf(mUsed, M!IdsOf(mMems))
  BY DEF MemoryInv, Recorded
<1> QED BY <1>2, <1>3, OrderTouched

\* A duplicate takes another content.
LEMMA RefreshFine ==
    ASSUME MemoryInv, NEW m \in mMems, NEW c \in Content, M!Refresh(m, c)
    PROVE  mMems' \subseteq AMemory /\ Recorded(mMems', mUsed', mCreated') /\ mCreated' = mCreated
<1> DEFINE n == [m EXCEPT !.content = c]
<1>1. m \in AMemory
  BY DEF MemoryInv, MemoriesTyped
<1>2. n \in AMemory /\ n.id = m.id /\ n.embedded = m.embedded
  BY <1>1 DEF AMemory
<1>3. mMems' = (mMems \ {m}) \cup {n} /\ mCreated' = mCreated
  BY DEF M!Refresh
<1> HIDE DEF n
<1>4. mMems' \subseteq AMemory
  BY <1>2, <1>3 DEF MemoryInv, MemoriesTyped
<1>5. Distinct(mMems) /\ IsFiniteSet(mMems) /\ Cardinality(mMems) <= MaxCount
  BY DEF MemoryInv, Recorded
<1>6. Distinct(mMems')
  BY <1>2, <1>3, <1>5 DEF Distinct
<1>7. n \notin mMems \ {m}
  BY <1>2, <1>5 DEF Distinct
<1>8. IsFiniteSet(mMems') /\ Cardinality(mMems') = Cardinality(mMems)
  <2>1. IsFiniteSet(mMems \ {m}) /\ Cardinality(mMems \ {m}) = Cardinality(mMems) - 1
    BY <1>5, FS_RemoveElement
  <2>2. IsFiniteSet(mMems') /\ Cardinality(mMems') = Cardinality(mMems \ {m}) + 1
    BY <1>3, <1>7, <2>1, FS_AddElement
  <2> QED BY <2>1, <2>2, <1>5, FS_CardinalityType
<1>9. M!IdsOf(mMems') = M!IdsOf(mMems)
  BY <1>2, <1>3 DEF M!IdsOf
<1>10. OrderOf(mUsed', M!IdsOf(mMems))
  <2>1. {m.id} \subseteq M!IdsOf(mMems) /\ M!Touch({m.id})
    BY DEF M!IdsOf, M!Refresh
  <2> QED BY <2>1, TouchOrders
<1>11. \A x \in mMems' : x.id <= mCreated
  BY <1>2, <1>3 DEF MemoryInv, Recorded
<1> QED BY <1>3, <1>4, <1>5, <1>6, <1>8, <1>9, <1>10, <1>11 DEF Recorded

\* A new memory is recorded; the least recently used one goes when there are too many.
LEMMA CreateFine ==
    ASSUME MemoryInv, NEW c \in Content, M!Duplicates(c) = {}, M!Create(c)
    PROVE  /\ mMems' \subseteq AMemory /\ Recorded(mMems', mUsed', mCreated')
           /\ mCreated' \in 0 .. MaxAdds /\ mCreated <= mCreated'
<1> DEFINE i == mCreated + 1
           n == [id |-> i, content |-> c, embedded |-> c]
           more == mMems \cup {n}
           order == mUsed \cup (M!Ids \X {i})
           lru == M!LeastRecent(more, order)
           gone == IF Cardinality(more) > MaxCount THEN lru ELSE {}
           S == M!IdsOf(gone)
<1>1. i = mCreated + 1 /\ order = mUsed \cup (M!IdsOf(mMems) \X {i})
  BY DEF M!Ids, M!IdsOf
<1>2. n = [id |-> i, content |-> c, embedded |-> c]
  OBVIOUS
<1>3. more = mMems \cup {n}
  OBVIOUS
<1>4. S = M!IdsOf(gone)
  OBVIOUS
<1>5. lru = {m \in more : \A x \in more : <<x.id, m.id>> \notin order}
  BY DEF M!LeastRecent
<1>6. gone = IF Cardinality(more) > MaxCount THEN lru ELSE {}
  OBVIOUS
<1>7. /\ mCreated < MaxAdds /\ mCreated' = i
      /\ mMems' = more \ gone /\ mUsed' = M!Without(order, S)
  <2>1. mCreated < MaxAdds /\ mCreated' = i
    BY DEF M!Create
  <2>2. mMems' = more \ gone
    BY MemoryCardinality DEF M!Create
  <2>3. mUsed' = M!Without(order, S)
    BY MemoryCardinality DEF M!Create
  <2> QED BY <2>1, <2>2, <2>3
<1> HIDE DEF i, n, more, order, lru, gone, S
<1>8. mCreated \in Nat /\ MaxAdds \in Nat /\ mCreated <= MaxAdds /\ i \in 1 .. MaxAdds
  BY <1>1, <1>7, MemoryConstants DEF MemoryInv, CreatedTyped
<1>9. n \in AMemory /\ n.id = i /\ n.embedded = c
  BY <1>2, <1>8 DEF AMemory
<1>10. /\ mMems \subseteq AMemory /\ Distinct(mMems) /\ IsFiniteSet(mMems)
       /\ Cardinality(mMems) <= MaxCount /\ OrderOf(mUsed, M!IdsOf(mMems))
       /\ \A m \in mMems : m.id <= mCreated
  BY DEF MemoryInv, MemoriesTyped, Recorded
<1>11. \A m \in mMems : m.id \in Nat /\ m.id < i /\ ~M!IsSimilar(m.embedded, c)
  BY <1>1, <1>8, <1>10 DEF AMemory, M!Duplicates
<1>12. Distinct(more)
  BY <1>3, <1>9, <1>10, <1>11 DEF Distinct, M!IsSimilar
<1>13. M!IdsOf(more) = M!IdsOf(mMems) \cup {i}
  BY <1>3, <1>9 DEF M!IdsOf
<1>14. OrderOf(order, M!IdsOf(more))
  <2>1. i \notin M!IdsOf(mMems)
    BY <1>8, <1>11 DEF M!IdsOf
  <2> QED BY <2>1, <1>1, <1>10, <1>13, OrderWith
<1>15. n \notin mMems /\ IsFiniteSet(more) /\ Cardinality(more) = Cardinality(mMems) + 1
  <2>1. n \notin mMems
    BY <1>8, <1>9, <1>11
  <2> QED BY <2>1, <1>3, <1>10, FS_AddElement
<1>16. gone \subseteq more
  BY <1>5, <1>6
<1>17. M!IdsOf(mMems') = M!IdsOf(more) \ S
  BY <1>4, <1>7, <1>12, <1>16 DEF M!IdsOf, Distinct
<1>18. OrderOf(mUsed', M!IdsOf(mMems'))
  BY <1>7, <1>14, <1>17, OrderWithout
<1>19. IsFiniteSet(mMems') /\ Cardinality(mMems') <= MaxCount
  <2>1. CASE Cardinality(more) <= MaxCount
    <3>1. gone = {} /\ mMems' = more
      BY <2>1, <1>6, <1>7, <1>15, MemoryConstants, FS_CardinalityType
    <3> QED BY <3>1, <2>1, <1>15
  <2>2. CASE Cardinality(more) > MaxCount
    <3>1. \E m \in gone : TRUE
      <4>1. IsFiniteSet(M!IdsOf(more)) /\ M!IdsOf(more) # {}
        <5>1. M!IdsOf(more) \subseteq 1 .. MaxAdds
          BY <1>3, <1>9, <1>10 DEF M!IdsOf, AMemory
        <5>2. IsFiniteSet(1 .. MaxAdds)
          BY MemoryConstants, FS_Interval
        <5>3. i \in M!IdsOf(more)
          BY <1>13
        <5> QED BY <5>1, <5>3, <5>2, FS_Subset
      <4>2. PICK a \in M!IdsOf(more) : \A b \in M!IdsOf(more) : <<b, a>> \notin order
        BY <4>1, <1>14, LeastRecent DEF OrderOf
      <4>3. PICK m \in more : m.id = a
        BY <4>2 DEF M!IdsOf
      <4>4. \A x \in more : x.id \in M!IdsOf(more)
        BY DEF M!IdsOf
      <4>5. m \in lru
        BY <4>2, <4>3, <4>4, <1>5
      <4> QED BY <4>5, <2>2, <1>6
    <3>2. PICK m \in gone : TRUE
      BY <3>1
    <3>3. IsFiniteSet(more \ {m}) /\ Cardinality(more \ {m}) = Cardinality(more) - 1
      BY <3>2, <1>15, <1>16, FS_RemoveElement
    <3>4. more \ gone \subseteq more \ {m}
      BY <3>2
    <3>5. IsFiniteSet(more \ gone) /\ Cardinality(more \ gone) <= Cardinality(more \ {m})
      BY <3>3, <3>4, FS_Subset
    <3>6. /\ Cardinality(more \ gone) \in Nat /\ Cardinality(more) \in Nat
          /\ Cardinality(mMems) \in Nat
      BY <3>5, <1>15, <1>10, FS_CardinalityType
    <3> QED BY <3>3, <3>5, <3>6, <1>7, <1>10, <1>15, MemoryConstants
  <2> QED BY <2>1, <2>2, <1>15, MemoryConstants, FS_CardinalityType
<1>20. mMems' \subseteq more
  BY <1>7
<1>21. mMems' \subseteq AMemory /\ \A m \in mMems' : m.id <= i
  BY <1>3, <1>8, <1>9, <1>10, <1>11, <1>20
<1>22. Distinct(mMems')
  BY <1>12, <1>20 DEF Distinct
<1> QED BY <1>1, <1>7, <1>8, <1>18, <1>19, <1>21, <1>22 DEF Recorded

\* Of memories with numbers one is the first.
LEMMA FirstMemory ==
    ASSUME NEW S \in SUBSET AMemory, S # {}
    PROVE  (CHOOSE m \in S : \A n \in S : m.id <= n.id) \in S
<1>1. M!IdsOf(S) \subseteq Nat /\ M!IdsOf(S) # {}
  BY MemoryConstants DEF M!IdsOf, AMemory
<1>2. PICK a \in M!IdsOf(S) : \A b \in M!IdsOf(S) : <<b, a>> \notin OpToRel(<, Nat)
  BY <1>1, NatLessThanWellFounded, WFMin
<1>3. \A b \in M!IdsOf(S) : a <= b
  <2>1. SUFFICES ASSUME NEW b \in M!IdsOf(S) PROVE a <= b
    OBVIOUS
  <2>2. <<b, a>> \in Nat \X Nat
    BY <1>1
  <2>3. <<b, a>> \notin {ss \in Nat \X Nat : ss[1] < ss[2]}
    BY <1>2 DEF OpToRel
  <2>4. ~ (b < a)
    BY <2>2, <2>3
  <2> QED BY <2>4, <1>1
<1>4. \E m \in S : \A n \in S : m.id <= n.id
  BY <1>2, <1>3 DEF M!IdsOf
<1> QED BY <1>4

\* Adding a memory keeps the invariant.
LEMMA AddFine == ASSUME MemoryInv, NEW p \in Caller, M!AddMemory(p) PROVE MemoryInv'
<1> DEFINE c == mCaller[p].content
           dups == M!Duplicates(c)
<1>1. c \in Content
  BY DEF MemoryInv, MemoryCallersTyped, ACaller
<1>2. MemoryCallersTyped'
  BY MemoryConstants DEF MemoryInv, MemoryCallersTyped, ACaller, M!AddMemory, M!Return, M!Idle
<1>3. M!Save
  BY DEF M!AddMemory
<1>4. CASE dups = {}
  <2>1. M!Create(c)
    BY <1>4 DEF M!AddMemory
  <2>2. /\ mMems' \subseteq AMemory /\ Recorded(mMems', mUsed', mCreated')
        /\ mCreated' \in 0 .. MaxAdds /\ mCreated <= mCreated'
    BY <1>1, <1>4, <2>1, CreateFine
  <2> QED BY <2>2, <1>2, <1>3, MemorySaved DEF CreatedTyped
<1>5. CASE dups # {}
  <2>1. dups \subseteq mMems /\ dups \in SUBSET AMemory
    BY DEF M!Duplicates, MemoryInv, MemoriesTyped
  <2>2. PICK m : m = CHOOSE x \in dups : \A n \in dups : x.id <= n.id
    OBVIOUS
  <2>3. m \in mMems
    BY <2>1, <2>2, <1>5, FirstMemory
  <2>4. M!Refresh(m, c)
    BY <1>5, <2>2 DEF M!AddMemory
  <2>5. mMems' \subseteq AMemory /\ Recorded(mMems', mUsed', mCreated') /\ mCreated' = mCreated
    BY <1>1, <2>3, <2>4, RefreshFine
  <2>6. mCreated \in 0 .. MaxAdds
    BY DEF MemoryInv, CreatedTyped
  <2> QED BY <2>5, <2>6, <1>2, <1>3, MemorySaved, MemoryConstants DEF CreatedTyped
<1> QED BY <1>4, <1>5

\* Every step keeps the invariant of the memories.
LEMMA MemoryInvStays == MemoryInv /\ [M!Next]_(M!vars) => MemoryInv'
<1> SUFFICES ASSUME MemoryInv, [M!Next]_(M!vars) PROVE MemoryInv'
  OBVIOUS
<1>1. mCreated \in 0 .. MaxAdds /\ mCreated <= mCreated
  BY MemoryConstants DEF MemoryInv, CreatedTyped
<1>2. ASSUME UNCHANGED <<mMems, mUsed, mDisk, mCreated>>, MemoryCallersTyped'
      PROVE  MemoryInv'
  BY <1>2, MemoryMoves DEF MemoryInv, MemoriesTyped, CreatedTyped
<1>3. ASSUME NEW p \in Caller, NEW c \in Content, M!Embed(p, c)
      PROVE  MemoryInv'
  <2>1. M!Idle \in ACaller
    BY MemoryConstants DEF ACaller, M!Idle
  <2>2. /\ [M!Idle EXCEPT !.pc = "add", !.content = c] \in ACaller
        /\ [M!Idle EXCEPT !.pc = "search"] \in ACaller
    BY <2>1 DEF ACaller
  <2>3. MemoryCallersTyped'
    BY <1>3, <2>2 DEF MemoryInv, MemoryCallersTyped, M!Embed
  <2> QED BY <2>3, <1>2, <1>3 DEF M!Embed
<1>4. ASSUME NEW p \in Caller, M!SearchMemories(p)
      PROVE  MemoryInv'
  <2>1. M!Ids \subseteq 1 .. MaxAdds
    BY DEF M!Ids, M!IdsOf, MemoryInv, MemoriesTyped, AMemory
  <2>2. PICK S \in SUBSET M!Ids :
          mCaller' = [mCaller EXCEPT ![p].pc = IF S = {} THEN "idle" ELSE "mark", ![p].found = S]
    BY <1>4 DEF M!SearchMemories
  <2>3. MemoryCallersTyped'
    BY <2>1, <2>2 DEF MemoryInv, MemoryCallersTyped, ACaller
  <2> QED BY <2>3, <1>2, <1>4 DEF M!SearchMemories
<1>5. ASSUME NEW p \in Caller, M!MarkUsed(p)
      PROVE  MemoryInv'
  <2>1. MemoryCallersTyped'
    BY <1>5, MemoryConstants
    DEF MemoryInv, MemoryCallersTyped, ACaller, M!MarkUsed, M!Return, M!Idle
  <2>2. mCaller[p].found \cap M!Ids \subseteq M!IdsOf(mMems)
    BY DEF M!Ids, M!IdsOf
  <2>3. OrderOf(mUsed', M!IdsOf(mMems)) /\ mMems' = mMems /\ mCreated' = mCreated /\ M!Save
    BY <1>5, <2>2, TouchOrders DEF M!MarkUsed
  <2>4. mMems' \subseteq AMemory /\ Recorded(mMems', mUsed', mCreated')
    BY <2>3 DEF MemoryInv, MemoriesTyped, Recorded
  <2> QED BY <2>1, <2>3, <2>4, <1>1, MemorySaved DEF CreatedTyped
<1>6. ASSUME NEW i \in M!Ids, M!DeleteMemory(i)
      PROVE  MemoryInv'
  <2>1. /\ mMems' = {m \in mMems : m.id # i} /\ mUsed' = M!Without(mUsed, {i})
        /\ M!Save /\ mCreated' = mCreated /\ mCaller' = mCaller
    BY <1>6 DEF M!DeleteMemory
  <2>2. M!IdsOf(mMems') = M!IdsOf(mMems) \ {i}
    BY <2>1 DEF M!IdsOf
  <2>3. OrderOf(mUsed', M!IdsOf(mMems'))
    BY <2>1, <2>2, OrderWithout DEF MemoryInv, Recorded
  <2>4. /\ mMems' \subseteq mMems /\ IsFiniteSet(mMems) /\ Cardinality(mMems) <= MaxCount
    BY <2>1 DEF MemoryInv, Recorded
  <2>5. IsFiniteSet(mMems') /\ Cardinality(mMems') <= Cardinality(mMems)
    BY <2>4, FS_Subset
  <2>6. Cardinality(mMems') <= MaxCount
    BY <2>4, <2>5, FS_CardinalityType, MemoryConstants
  <2>7. mMems' \subseteq AMemory /\ Recorded(mMems', mUsed', mCreated')
    BY <2>1, <2>3, <2>4, <2>5, <2>6 DEF MemoryInv, MemoriesTyped, Recorded, Distinct
  <2> QED BY <2>1, <2>7, <1>1, MemorySaved DEF MemoryInv, MemoryCallersTyped, CreatedTyped
<1>7. ASSUME M!ClearAll
      PROVE  MemoryInv'
  <2>1. /\ mMems' = {} /\ mUsed' = {} /\ M!Save /\ mCreated' = mCreated /\ mCaller' = mCaller
    BY <1>7 DEF M!ClearAll
  <2>2. Recorded(mMems', mUsed', mCreated')
    BY <2>1, NothingRecorded
  <2> QED BY <2>1, <2>2, <1>1, MemorySaved DEF MemoryInv, MemoryCallersTyped, CreatedTyped
<1>8. ASSUME M!Restart
      PROVE  MemoryInv'
  <2>1. /\ mMems' = mDisk.mems /\ mUsed' = mDisk.used /\ mCreated' = mCreated /\ mDisk' = mDisk
        /\ mCaller' = [p \in Caller |-> M!Idle]
    BY <1>8 DEF M!Restart
  <2>2. MemoryCallersTyped'
    BY <2>1, MemoryConstants DEF MemoryCallersTyped, ACaller, M!Idle
  <2> QED BY <2>1, <2>2, MemoryMoves DEF MemoryInv, MemoriesTyped, CreatedTyped
<1>9. ASSUME UNCHANGED M!vars
      PROVE  MemoryInv'
  BY <1>2, <1>9 DEF M!vars, MemoryInv, MemoryCallersTyped
<1> QED BY <1>3, <1>4, <1>5, <1>6, <1>7, <1>8, <1>9, AddFine DEF M!Next

\* The invariant gives the types and that memories are distinct, bounded and ordered.
LEMMA MemoryHolds == MemoryInv => M!TypeOK /\ M!MemoriesAreDistinct
<1> SUFFICES ASSUME MemoryInv PROVE M!TypeOK /\ M!MemoriesAreDistinct
  OBVIOUS
<1>1. M!IdsOf(mMems) = M!Ids
  BY DEF M!IdsOf, M!Ids
<1>2. M!MemoriesAreDistinct
  <2>1. Distinct(mMems) /\ Cardinality(mMems) <= MaxCount /\ OrderOf(mUsed, M!IdsOf(mMems))
    BY DEF MemoryInv, Recorded
  <2> QED BY <1>1, <2>1, MemoryCardinality DEF Distinct, OrderOf, M!MemoriesAreDistinct
<1>3. \A m \in SUBSET AMemory : M!IdsOf(m) \subseteq 1 .. MaxAdds
  BY DEF M!IdsOf, AMemory
<1>4. /\ mUsed \subseteq (1 .. MaxAdds) \X (1 .. MaxAdds)
      /\ mDisk.used \subseteq (1 .. MaxAdds) \X (1 .. MaxAdds)
  <2>1. M!IdsOf(mMems) \subseteq 1 .. MaxAdds /\ M!IdsOf(mDisk.mems) \subseteq 1 .. MaxAdds
    BY <1>3 DEF MemoryInv, MemoriesTyped
  <2> QED BY <2>1 DEF MemoryInv, Recorded, OrderOf
<1>5. M!TypeOK
  BY <1>4 DEF MemoryInv, MemoriesTyped, CreatedTyped, MemoryCallersTyped, AMemory, ACaller, M!TypeOK
<1> QED BY <1>2, <1>5

-----------------------------------------------------------------------------
(* Audit *)

ALog == [exists : BOOLEAN, log : SUBSET (1 .. MaxEvents), torn : BOOLEAN]
LogFilesTyped == aFiles \in [A!Index -> ALog]
RotationTyped ==
    /\ aOpen \in BOOLEAN /\ aWritten \in 0 .. MaxEvents /\ aWritten <= aEvents
    /\ aRotation \in {"no", "shift", "open"} /\ aNext \in 0 .. Rotations
    /\ aRotation = "shift" => aNext < Rotations
EventsTyped ==
    /\ aEvents \in 0 .. MaxEvents /\ aFaults \in 0 .. MaxFaults
    /\ aGlued \subseteq 1 .. MaxEvents /\ aUnshifted \in BOOLEAN
AuditTyped == LogFilesTyped /\ RotationTyped /\ EventsTyped

\* A file that is not there has no events, and the open one is there.
LogFilesFine ==
    /\ \A i \in A!Index : ~aFiles[i].exists => aFiles[i].log = {}
    /\ \A i \in A!Index : aFiles[i].log \subseteq 1 .. aEvents
    /\ aOpen => aRotation = "no" /\ aFiles[0].exists
\* A rename has a free name to rename to, but for the oldest file.
Vacant ==
    ~aUnshifted =>
        /\ aRotation = "shift" /\ aNext + 1 < Rotations => aFiles[aNext + 1].log = {}
        /\ aRotation = "open" => aFiles[0].log = {}
\* The file that need not be full: the current one, or the one that is renamed to next.
Gap == IF aRotation = "shift" THEN aNext + 1 ELSE 0
IsFull(i) == Cardinality(aFiles[i].log) = Full
\* Without faults every file is full that has a younger one, and all are when an event is gone.
Faultless ==
    /\ ~aUnshifted /\ aGlued = {} /\ \A i \in A!Index : ~aFiles[i].torn
    /\ aRotation = "no" =>
         aOpen /\ aWritten = Cardinality(aFiles[0].log) /\ Cardinality(aFiles[0].log) < Full
OlderAreFull ==
    /\ \A i, j \in A!Index \ {Gap} : i <= j /\ aFiles[j].log # {} => IsFull(i)
    /\ A!Kept # 1 .. aEvents \/ aFiles[Rotations].log # {} =>
         \A i \in A!Index \ {Gap} : IsFull(i)
FilesAreFull == Faultless /\ OlderAreFull
AuditInv ==
    /\ AuditTyped /\ LogFilesFine /\ Vacant /\ A!LogIsInOrder /\ A!OldestAreDropped
    /\ aFaults = 0 => FilesAreFull

\* What the assumption says of the constants of the log.
LEMMA AuditConstants ==
    Rotations \in Nat \ {0} /\ Full \in Nat \ {0} /\ MaxEvents \in Nat /\ MaxFaults \in Nat
BY PartsAssumption DEF A!AuditAssumption

\* The cardinality of the model is that of the lemmas, and events can be counted.
LEMMA EventsCounted ==
    /\ \A S : A!Cardinality(S) = Cardinality(S)
    /\ \A S \in SUBSET (1 .. MaxEvents) : IsFiniteSet(S) /\ Cardinality(S) \in Nat
    /\ Cardinality({}) = 0
<1>1. ASSUME NEW S PROVE A!Cardinality(S) = Cardinality(S)
  BY DEF A!Cardinality, Cardinality
<1>2. IsFiniteSet(1 .. MaxEvents)
  BY AuditConstants, FS_Interval
<1>3. ASSUME NEW S \in SUBSET (1 .. MaxEvents) PROVE IsFiniteSet(S) /\ Cardinality(S) \in Nat
  <2>1. IsFiniteSet(S)
    BY <1>2, FS_Subset
  <2> QED BY <2>1, FS_CardinalityType
<1> QED BY <1>1, <1>3, FS_EmptySet

\* The first n events are no more than n.
LEMMA EventsAtMost ==
    ASSUME NEW n \in Nat, NEW S \in SUBSET (1 .. n)
    PROVE  Cardinality(S) <= n /\ Cardinality(1 .. n) = n
<1>1. IsFiniteSet(1 .. n) /\ Cardinality(1 .. n) = n
  BY FS_Interval
<1> QED BY <1>1, FS_Subset

\* The audit log begins in its invariant.
LEMMA AuditStarts == A!Init => AuditInv
<1> SUFFICES ASSUME A!Init PROVE AuditInv
  OBVIOUS
<1> USE AuditConstants DEF A!Init
<1>1. 0 \in A!Index /\ Rotations \in A!Index
  BY DEF A!Index
<1>2. \A i \in A!Index : aFiles[i] \in ALog /\ aFiles[i].log = {} /\ ~aFiles[i].torn
  BY DEF A!EmptyFile, A!NoFile, ALog
<1>3. aFiles \in [A!Index -> ALog] /\ aFiles[0].exists
  BY <1>1, <1>2 DEF A!EmptyFile, A!NoFile
<1>4. AuditTyped
  <2>1. LogFilesTyped
    BY <1>3 DEF LogFilesTyped
  <2>2. aEvents \in 0 .. MaxEvents /\ aFaults \in 0 .. MaxFaults
    OBVIOUS
  <2>3. EventsTyped
    BY <2>2 DEF EventsTyped
  <2>4. RotationTyped
    BY DEF RotationTyped
  <2> QED BY <2>1, <2>3, <2>4 DEF AuditTyped
<1>5. LogFilesFine /\ Vacant /\ A!LogIsInOrder /\ A!OldestAreDropped
  BY <1>1, <1>2, <1>3 DEF LogFilesFine, Vacant, A!LogIsInOrder, A!OldestAreDropped
<1>6. A!Kept = {} /\ 1 .. aEvents = {}
  BY <1>2 DEF A!Kept
<1>7. FilesAreFull
  BY <1>1, <1>2, <1>6, EventsCounted DEF FilesAreFull, Faultless, OlderAreFull, Gap
<1> QED BY <1>4, <1>5, <1>7 DEF AuditInv

\* What is kept is what some file has.
LEMMA KeptIsInFiles ==
    /\ \A e : e \in A!Kept <=> \E i \in A!Index : e \in aFiles[i].log
    /\ \A e : (e \in A!Kept)' <=> \E i \in A!Index : e \in aFiles'[i].log
BY DEF A!Kept, A!Index

\* The numbers of the files.
LEMMA FilesNumbered ==
    /\ A!Index = 0 .. Rotations /\ 0 \in A!Index /\ Rotations \in A!Index
    /\ \A i \in A!Index : i \in Nat /\ i <= Rotations
BY AuditConstants DEF A!Index

\* Where the files keep their events, these stay in order and none is dropped.
LEMMA LogsStay ==
    ASSUME AuditInv, \A i \in A!Index : aFiles'[i].log = aFiles[i].log,
           aUnshifted' = FALSE => aUnshifted = FALSE, aGlued \subseteq aGlued',
           aEvents' = aEvents \/ (aEvents' = aEvents + 1 /\ aEvents' \in aGlued')
    PROVE  A!LogIsInOrder' /\ (aUnshifted' \in BOOLEAN => A!OldestAreDropped') /\ A!Kept' = A!Kept
<1> USE AuditConstants
<1>1. A!Kept' = A!Kept
  BY DEF A!Kept, A!Index
<1>2. A!LogIsInOrder'
  BY DEF AuditInv, A!LogIsInOrder, A!Index
<1>3. ASSUME aUnshifted' \in BOOLEAN PROVE A!OldestAreDropped'
  <2> SUFFICES ASSUME ~aUnshifted', NEW e \in 1 .. aEvents'
               PROVE  e \in A!Kept' \/ e \in aGlued' \/ \A k \in A!Kept' : e < k
    BY DEF A!OldestAreDropped
  <2>1. ~aUnshifted /\ aEvents \in Nat
    BY <1>3 DEF AuditInv, AuditTyped, EventsTyped
  <2>2. CASE e \in 1 .. aEvents
    BY <1>1, <2>1, <2>2 DEF AuditInv, A!OldestAreDropped
  <2>3. CASE e \notin 1 .. aEvents
    BY <2>1, <2>3
  <2> QED BY <2>2, <2>3
<1> QED BY <1>1, <1>2, <1>3

\* An event is written to the current file, which is renamed when it is full.
LEMMA RecordFine == ASSUME AuditInv, A!Record PROVE AuditInv'
<1> USE AuditConstants, FilesNumbered
<1>1. /\ aRotation = "no" /\ aOpen /\ aEvents < MaxEvents /\ aEvents \in Nat /\ aWritten \in Nat
      /\ aEvents' = aEvents + 1 /\ aEvents' \in 1 .. MaxEvents /\ aWritten' = aWritten + 1
      /\ UNCHANGED <<aFaults, aUnshifted>> /\ aWritten <= aEvents
  BY DEF AuditInv, AuditTyped, RotationTyped, EventsTyped, A!Record
<1>2. \/ aWritten' < Full /\ UNCHANGED <<aRotation, aNext, aOpen>>
      \/ /\ ~(aWritten' < Full)
         /\ aRotation' = "shift" /\ aNext' = Rotations - 1 /\ aOpen' = FALSE
  BY DEF A!Record
<1>3. aFiles \in [A!Index -> ALog] /\ \A i \in A!Index : aFiles[i].log \subseteq 1 .. aEvents
  BY DEF AuditInv, AuditTyped, LogFilesTyped, LogFilesFine
<1>4. RotationTyped' /\ Vacant' /\ (aOpen' => aRotation' = "no") /\ aFiles[0].exists
  <2>1. aNext \in 0 .. Rotations /\ aOpen \in BOOLEAN /\ aFiles[0].exists
    BY <1>1 DEF AuditInv, AuditTyped, RotationTyped, LogFilesFine
  <2>2. aWritten' \in 0 .. MaxEvents /\ aWritten' <= aEvents'
    BY <1>1
  <2>3. CASE UNCHANGED <<aRotation, aNext, aOpen>>
    BY <1>1, <2>1, <2>2, <2>3 DEF RotationTyped, Vacant
  <2>4. CASE aRotation' = "shift" /\ aNext' = Rotations - 1 /\ aOpen' = FALSE
    <3>1. aNext' \in 0 .. Rotations /\ aNext' < Rotations /\ ~(aNext' + 1 < Rotations)
      BY <2>4
    <3>2. RotationTyped'
      BY <2>2, <2>4, <3>1 DEF RotationTyped
    <3>3. Vacant'
      BY <2>4, <3>1 DEF Vacant
    <3> QED BY <2>4, <3>2, <3>3, <2>1
  <2> QED BY <1>2, <2>3, <2>4
<1>5. CASE aFiles[0].torn
  <2>1. /\ aFiles' = [aFiles EXCEPT ![0].torn = FALSE]
        /\ aGlued' = aGlued \cup {aEvents'}
    BY <1>5 DEF A!Record
  <2>2. /\ aFiles' \in [A!Index -> ALog]
        /\ \A i \in A!Index : aFiles'[i].log = aFiles[i].log /\ aFiles'[i].exists = aFiles[i].exists
    BY <1>3, <2>1 DEF ALog
  <2>3. LogFilesTyped' /\ EventsTyped'
    BY <1>1, <2>1, <2>2 DEF AuditInv, AuditTyped, EventsTyped, LogFilesTyped, A!Index
  <2>4. LogFilesFine'
    <3>1. \A i \in A!Index : aFiles'[i].log \subseteq 1 .. aEvents'
      BY <1>1, <1>3, <2>2
    <3> QED BY <1>4, <2>2, <3>1 DEF AuditInv, LogFilesFine, A!Index
  <2>5. A!LogIsInOrder' /\ A!OldestAreDropped'
    BY <1>1, <2>1, <2>2, <2>3, LogsStay DEF EventsTyped
  <2>6. aFaults # 0
    BY <1>5 DEF AuditInv, FilesAreFull, Faultless
  <2> QED BY <1>1, <1>4, <2>3, <2>4, <2>5, <2>6 DEF AuditInv, AuditTyped
<1>6. CASE ~aFiles[0].torn
  <2>1. /\ aFiles' = [aFiles EXCEPT ![0].log = @ \cup {aEvents'}]
        /\ aGlued' = aGlued
    BY <1>6 DEF A!Record
  <2>2. /\ aFiles' \in [A!Index -> ALog]
        /\ \A i \in A!Index :
             aFiles'[i].exists = aFiles[i].exists /\ aFiles'[i].torn = aFiles[i].torn
        /\ \A i \in A!Index \ {0} : aFiles'[i].log = aFiles[i].log
        /\ aFiles'[0].log = aFiles[0].log \cup {aEvents'}
    BY <1>1, <1>3, <2>1 DEF ALog
  <2>3. LogFilesTyped' /\ EventsTyped'
    BY <1>1, <2>1, <2>2 DEF AuditInv, AuditTyped, EventsTyped, LogFilesTyped, A!Index
  <2>4. LogFilesFine'
    <3>1. \A i \in A!Index : aFiles'[i].log \subseteq 1 .. aEvents'
      BY <1>1, <1>3, <2>2
    <3> QED BY <1>4, <2>2, <3>1 DEF AuditInv, LogFilesFine, A!Index
  <2>5. A!LogIsInOrder'
    <3> SUFFICES ASSUME NEW i \in A!Index, NEW j \in A!Index, i < j,
                        NEW e \in aFiles'[i].log, NEW k \in aFiles'[j].log
                 PROVE  k < e
      BY DEF A!LogIsInOrder, A!Index
    <3>1. j # 0 /\ k \in aFiles[j].log /\ k \in 1 .. aEvents
      BY <1>3, <2>2
    <3>2. e = aEvents' \/ e \in aFiles[i].log
      BY <2>2
    <3> QED BY <1>1, <3>1, <3>2 DEF AuditInv, A!LogIsInOrder
  <2>6. \A e : e \in A!Kept' <=> e \in A!Kept \/ e = aEvents'
    <3>1. \A e : (e \in A!Kept)' <=> e \in A!Kept'
      OBVIOUS
    <3> QED BY <2>2, <3>1, KeptIsInFiles
  <2>7. A!OldestAreDropped'
    <3> SUFFICES ASSUME ~aUnshifted', NEW e \in 1 .. aEvents'
                 PROVE  e \in A!Kept' \/ e \in aGlued' \/ \A k \in A!Kept' : e < k
      BY DEF A!OldestAreDropped
    <3>1. CASE e = aEvents'
      BY <2>6, <3>1
    <3>2. CASE e # aEvents'
      <4>1. e \in 1 .. aEvents /\ e < aEvents' /\ ~aUnshifted
        BY <1>1, <3>2
      <4> QED BY <2>1, <2>6, <4>1 DEF AuditInv, A!OldestAreDropped
    <3> QED BY <3>1, <3>2
  <2>8. ASSUME aFaults = 0 PROVE FilesAreFull'
    <3>1. Faultless /\ OlderAreFull /\ Gap = 0
      BY <1>1, <2>8 DEF AuditInv, FilesAreFull, Gap
    <3>2. aWritten = Cardinality(aFiles[0].log) /\ Cardinality(aFiles[0].log) < Full
      BY <1>1, <3>1 DEF Faultless
    <3>3. Cardinality(aFiles'[0].log) = aWritten'
      <4>1. aFiles[0].log \in SUBSET (1 .. MaxEvents) /\ aEvents' \notin aFiles[0].log
        BY <1>1, <1>3
      <4>2. IsFiniteSet(aFiles[0].log)
        BY <4>1, EventsCounted
      <4> QED BY <1>1, <2>2, <3>2, <4>1, <4>2, FS_AddElement
    <3>4. Faultless'
      BY <1>1, <1>2, <2>1, <2>2, <3>1, <3>3 DEF Faultless, A!Index
    <3>5. \A i \in A!Index \ {0} : IsFull(i)' <=> IsFull(i)
      BY <2>2 DEF IsFull
    <3>6. A!Kept' # 1 .. aEvents' => A!Kept # 1 .. aEvents
      <4> SUFFICES ASSUME A!Kept = 1 .. aEvents PROVE A!Kept' = 1 .. aEvents'
        OBVIOUS
      <4>1. \A e : e \in A!Kept' <=> e \in 1 .. aEvents'
        BY <1>1, <2>6
      <4> QED BY <4>1
    <3>7. CASE aWritten' < Full
      <4>1. Gap' = 0
        BY <1>1, <1>2, <3>7 DEF Gap
      <4> QED BY <2>2, <3>1, <3>4, <3>5, <3>6, <4>1 DEF FilesAreFull, OlderAreFull, A!Index
    <3>8. CASE ~(aWritten' < Full)
      <4>1. Gap' = Rotations
        BY <1>2, <3>8 DEF Gap
      <4>2. IsFull(0)'
        BY <1>1, <3>2, <3>3, <3>8 DEF IsFull
      <4>3. \A i, j \in A!Index \ {Rotations} : i <= j /\ aFiles'[j].log # {} => IsFull(i)'
        <5> SUFFICES ASSUME NEW i \in A!Index, NEW j \in A!Index, i # 0, i <= j, aFiles'[j].log # {}
                     PROVE  IsFull(i)'
          BY <4>2
        <5>1. j # 0 /\ aFiles[j].log # {}
          BY <2>2
        <5> QED BY <3>1, <3>5, <5>1 DEF OlderAreFull
      <4>4. ASSUME A!Kept' # 1 .. aEvents' \/ aFiles'[Rotations].log # {}, NEW i \in A!Index
            PROVE  IsFull(i)'
        <5>1. A!Kept # 1 .. aEvents \/ aFiles[Rotations].log # {}
          BY <2>2, <3>6, <4>4
        <5> QED BY <3>1, <3>5, <4>2, <5>1 DEF OlderAreFull
      <4> QED BY <3>4, <4>1, <4>3, <4>4 DEF FilesAreFull, OlderAreFull, A!Index
    <3> QED BY <3>7, <3>8
  <2> QED BY <1>1, <1>4, <2>3, <2>4, <2>5, <2>7, <2>8 DEF AuditInv, AuditTyped
<1> QED BY <1>5, <1>6

\* Where only the end of the current file is torn, or nothing, all stays.
LEMMA RecordFailsFine == ASSUME AuditInv, A!RecordFails PROVE AuditInv'
<1> USE AuditConstants, FilesNumbered
<1>1. /\ UNCHANGED <<aOpen, aWritten, aRotation, aNext, aEvents, aGlued, aUnshifted>>
      /\ aFaults < MaxFaults /\ aFaults' = aFaults + 1
  BY DEF A!RecordFails, A!Fails
<1>2. aFiles' = [aFiles EXCEPT ![0].torn = TRUE] \/ aFiles' = aFiles
  BY DEF A!RecordFails
<1>3. aFiles \in [A!Index -> ALog]
  BY DEF AuditInv, AuditTyped, LogFilesTyped
<1>4. /\ aFiles' \in [A!Index -> ALog]
      /\ \A i \in A!Index : aFiles'[i].log = aFiles[i].log /\ aFiles'[i].exists = aFiles[i].exists
  <2>1. CASE aFiles' = aFiles
    BY <1>3, <2>1
  <2>2. CASE aFiles' = [aFiles EXCEPT ![0].torn = TRUE]
    BY <1>3, <2>2 DEF ALog
  <2> QED BY <1>2, <2>1, <2>2
<1>5. aFaults' # 0 /\ AuditTyped'
  BY <1>1, <1>4 DEF AuditInv, AuditTyped, LogFilesTyped, RotationTyped, EventsTyped, A!Index
<1>6. LogFilesFine' /\ Vacant'
  BY <1>1, <1>4 DEF AuditInv, AuditTyped, RotationTyped, LogFilesFine, Vacant, A!Index
<1>7. A!LogIsInOrder' /\ A!OldestAreDropped'
  BY <1>1, <1>4, <1>5, LogsStay DEF AuditTyped, EventsTyped
<1> QED BY <1>5, <1>6, <1>7 DEF AuditInv

\* A file is renamed to the next name, and to one that was free unless it is the oldest.
LEMMA ShiftFine == ASSUME AuditInv, A!Shift PROVE AuditInv'
<1> USE AuditConstants, FilesNumbered
<1>0. PICK k \in Nat : k = aNext
  BY DEF AuditInv, AuditTyped, RotationTyped
<1>1. /\ aRotation = "shift" /\ k = aNext /\ k < Rotations /\ aOpen = FALSE
      /\ UNCHANGED <<aOpen, aWritten, aEvents, aFaults, aGlued, aUnshifted>>
  BY <1>0 DEF AuditInv, AuditTyped, RotationTyped, LogFilesFine, A!Shift
<1>2. \/ k = 0 /\ aRotation' = "open" /\ aNext' = k
      \/ k # 0 /\ aRotation' = "shift" /\ aNext' = k - 1
  BY <1>0 DEF A!Shift, A!Shifted
<1>3. aFiles \in [A!Index -> ALog] /\ \A i \in A!Index : aFiles[i].log \subseteq 1 .. aEvents
  BY DEF AuditInv, AuditTyped, LogFilesTyped, LogFilesFine
<1>4. k \in A!Index /\ k + 1 \in A!Index /\ k # k + 1
  BY <1>1
<1>5. \/ aFiles[k].exists /\ aFiles' = [aFiles EXCEPT ![k + 1] = aFiles[k], ![k] = A!NoFile]
      \/ ~aFiles[k].exists /\ aFiles' = aFiles
  BY <1>0 DEF A!Shift, A!Renamed
<1>6. ~aFiles[k].exists => aFiles[k].log = {}
  BY <1>4 DEF AuditInv, LogFilesFine
<1>7. /\ aFiles' \in [A!Index -> ALog]
      /\ aFiles'[k].log = {}
      /\ aFiles'[k + 1].log = aFiles[k].log \/ (aFiles[k].log = {} /\ aFiles' = aFiles)
      /\ \A i \in A!Index \ {k, k + 1} : aFiles'[i] = aFiles[i]
  <2>1. A!NoFile \in ALog /\ A!NoFile.log = {}
    BY DEF A!NoFile, ALog
  <2>2. CASE aFiles[k].exists /\ aFiles' = [aFiles EXCEPT ![k + 1] = aFiles[k], ![k] = A!NoFile]
    BY <1>3, <1>4, <2>1, <2>2
  <2>3. CASE ~aFiles[k].exists /\ aFiles' = aFiles
    BY <1>3, <1>6, <2>3
  <2> QED BY <1>5, <2>2, <2>3
<1>8. LogFilesTyped' /\ EventsTyped'
  BY <1>1, <1>7 DEF AuditInv, AuditTyped, EventsTyped, LogFilesTyped, A!Index
<1>9. RotationTyped'
  <2>1. aNext' \in 0 .. Rotations /\ aNext' < Rotations /\ aRotation' \in {"no", "shift", "open"}
    BY <1>1, <1>2
  <2> QED BY <1>1, <2>1 DEF AuditInv, AuditTyped, RotationTyped
<1>10. LogFilesFine'
  <2>1. \A i \in A!Index : ~aFiles'[i].exists => aFiles'[i].log = {}
    <3>1. ASSUME NEW i \in A!Index \ {k, k + 1}, ~aFiles'[i].exists PROVE aFiles'[i].log = {}
      BY <1>7, <3>1 DEF AuditInv, LogFilesFine
    <3>2. ~aFiles'[k + 1].exists => aFiles'[k + 1].log = {}
      <4>1. CASE aFiles' = aFiles
        BY <1>4, <4>1 DEF AuditInv, LogFilesFine
      <4>2. CASE aFiles[k].exists /\ aFiles' = [aFiles EXCEPT ![k + 1] = aFiles[k], ![k] = A!NoFile]
        BY <1>3, <1>4, <4>2
      <4> QED BY <1>5, <4>1, <4>2
    <3> QED BY <1>7, <3>1, <3>2
  <2>2. \A i \in A!Index : aFiles'[i].log \subseteq 1 .. aEvents'
    <3>1. ASSUME NEW i \in A!Index PROVE aFiles'[i].log \subseteq 1 .. aEvents
      BY <1>3, <1>4, <1>7
    <3> QED BY <1>1, <3>1
  <2> QED BY <1>1, <2>1, <2>2 DEF LogFilesFine, A!Index
<1>11. Vacant'
  <2>1. aRotation' = "shift" => aNext' + 1 = k
    BY <1>1, <1>2
  <2>2. aRotation' = "open" => k = 0
    BY <1>2
  <2> QED BY <1>7, <2>1, <2>2 DEF Vacant
<1>12. A!LogIsInOrder'
  <2> SUFFICES ASSUME NEW i \in A!Index, NEW j \in A!Index, i < j,
                      NEW e \in aFiles'[i].log, NEW n \in aFiles'[j].log
               PROVE  n < e
    BY DEF A!LogIsInOrder, A!Index
  <2>1. CASE aFiles' = aFiles
    BY <2>1 DEF AuditInv, A!LogIsInOrder
  <2>2. CASE aFiles'[k + 1].log = aFiles[k].log
    <3>1. i # k /\ j # k
      BY <1>7
    <3>2. CASE i = k + 1
      <4>1. e \in aFiles[k].log /\ n \in aFiles[j].log /\ k < j
        BY <1>1, <1>7, <2>2, <3>1, <3>2
      <4> QED BY <1>4, <4>1 DEF AuditInv, A!LogIsInOrder
    <3>3. CASE j = k + 1
      <4>1. e \in aFiles[i].log /\ n \in aFiles[k].log /\ i < k
        BY <1>1, <1>7, <2>2, <3>1, <3>3
      <4> QED BY <1>4, <4>1 DEF AuditInv, A!LogIsInOrder
    <3>4. CASE i # k + 1 /\ j # k + 1
      BY <1>7, <3>1, <3>4 DEF AuditInv, A!LogIsInOrder
    <3> QED BY <3>2, <3>3, <3>4
  <2> QED BY <1>7, <2>1, <2>2
<1>13. ASSUME ~aUnshifted, k + 1 < Rotations PROVE aFiles[k + 1].log = {}
  BY <1>1, <1>13 DEF AuditInv, Vacant
<1>14. \A e : e \in A!Kept' => e \in A!Kept
  <2>1. ASSUME NEW e \in A!Kept' PROVE e \in A!Kept
    <3>1. PICK i \in A!Index : e \in aFiles'[i].log
      BY <2>1, KeptIsInFiles
    <3>2. \E j \in A!Index : e \in aFiles[j].log
      BY <1>4, <1>7, <3>1
    <3> QED BY <3>2, KeptIsInFiles
  <2> QED BY <2>1
<1>15. \A e : e \in A!Kept => e \in A!Kept' \/ (e \in aFiles[k + 1].log /\ aFiles' # aFiles)
  <2>1. ASSUME NEW e \in A!Kept, ~(e \in aFiles[k + 1].log /\ aFiles' # aFiles) PROVE e \in A!Kept'
    <3>1. PICK i \in A!Index : e \in aFiles[i].log
      BY <2>1, KeptIsInFiles
    <3>2. \E j \in A!Index : e \in aFiles'[j].log
      <4>1. CASE aFiles' = aFiles
        BY <3>1, <4>1
      <4>2. CASE aFiles' # aFiles
        <5>1. i # k + 1 /\ aFiles'[k + 1].log = aFiles[k].log
          BY <1>7, <2>1, <3>1, <4>2
        <5>2. CASE i = k
          BY <1>4, <3>1, <5>1, <5>2
        <5>3. CASE i # k
          BY <1>7, <3>1, <5>1, <5>3
        <5> QED BY <5>2, <5>3
      <4> QED BY <4>1, <4>2
    <3> QED BY <3>2, KeptIsInFiles
  <2> QED BY <2>1
<1>16. A!OldestAreDropped'
  <2> SUFFICES ASSUME ~aUnshifted', NEW e \in 1 .. aEvents'
               PROVE  e \in A!Kept' \/ e \in aGlued' \/ \A n \in A!Kept' : e < n
    BY DEF A!OldestAreDropped
  <2>1. e \in A!Kept \/ e \in aGlued \/ \A n \in A!Kept : e < n
    BY <1>1 DEF AuditInv, A!OldestAreDropped
  <2>2. CASE e \in aGlued \/ \A n \in A!Kept : e < n
    BY <1>1, <1>14, <2>2
  <2>3. CASE e \in A!Kept /\ e \notin A!Kept'
    <3>1. e \in aFiles[k + 1].log /\ k + 1 = Rotations /\ aFiles' # aFiles
      BY <1>1, <1>13, <1>15, <2>3
    <3>2. ASSUME NEW n \in A!Kept' PROVE e < n
      <4>1. PICK i \in A!Index : n \in aFiles'[i].log
        BY <3>2, KeptIsInFiles
      <4>2. aFiles'[k + 1].log = aFiles[k].log /\ i # k
        BY <1>7, <3>1, <4>1
      <4>3. \E j \in A!Index : j < Rotations /\ n \in aFiles[j].log
        <5>1. CASE i = k + 1
          BY <1>1, <1>4, <4>1, <4>2, <5>1
        <5>2. CASE i # k + 1
          BY <1>7, <3>1, <4>1, <4>2, <5>2
        <5> QED BY <5>1, <5>2
      <4> QED BY <3>1, <4>3 DEF AuditInv, A!LogIsInOrder
    <3> QED BY <3>2
  <2> QED BY <2>1, <2>2, <2>3
<1>17. ASSUME aFaults = 0 PROVE FilesAreFull'
  <2>1. Faultless /\ OlderAreFull /\ Gap = k + 1 /\ ~aUnshifted
    BY <1>1, <1>17 DEF AuditInv, FilesAreFull, Faultless, Gap
  <2>2. Gap' = k
    BY <1>1, <1>2 DEF Gap
  <2>3. Faultless'
    <3>1. \A i \in A!Index : ~aFiles'[i].torn
      <4>1. \A i \in A!Index : ~aFiles[i].torn
        BY <2>1 DEF Faultless
      <4>2. ~A!NoFile.torn
        BY DEF A!NoFile
      <4>3. CASE aFiles' = aFiles
        BY <4>1, <4>3
      <4>4. CASE aFiles' = [aFiles EXCEPT ![k + 1] = aFiles[k], ![k] = A!NoFile]
        BY <1>3, <1>4, <4>1, <4>2, <4>4
      <4> QED BY <1>5, <4>3, <4>4
    <3> QED BY <1>1, <1>2, <2>1, <3>1 DEF Faultless, A!Index
  <2>4. IsFull(k) => aFiles[k].log # {}
    BY EventsCounted DEF IsFull
  <2>5. aFiles[Rotations].log # {} => \A i \in A!Index \ {k + 1} : IsFull(i)
    BY <2>1 DEF OlderAreFull
  <2>6. aFiles'[k + 1].log = aFiles[k].log
    <3>1. CASE aFiles' = aFiles /\ aFiles[k].log = {}
      <4>1. CASE k + 1 < Rotations
        BY <1>13, <2>1, <3>1, <4>1
      <4>2. CASE k + 1 = Rotations
        BY <1>4, <2>4, <2>5, <3>1, <4>2
      <4> QED BY <1>1, <4>1, <4>2
    <3> QED BY <1>7, <3>1
  <2>7. /\ IsFull(k + 1)' <=> IsFull(k)
        /\ \A i \in A!Index \ {k, k + 1} : IsFull(i)' <=> IsFull(i)
    BY <1>7, <2>6 DEF IsFull
  <2>8. ASSUME NEW i \in A!Index \ {k}, NEW j \in A!Index \ {k}, i <= j, aFiles'[j].log # {}
        PROVE  IsFull(i)'
    <3> DEFINE Before(n) == IF n = k + 1 THEN k ELSE n
    <3>1. /\ Before(i) \in A!Index \ {k + 1} /\ Before(j) \in A!Index \ {k + 1}
          /\ Before(i) <= Before(j)
      BY <1>1, <1>4, <2>8
    <3>2. aFiles[Before(j)].log # {}
      BY <1>7, <2>6, <2>8
    <3>3. IsFull(Before(i))
      BY <2>1, <3>1, <3>2 DEF OlderAreFull
    <3> QED BY <2>7, <3>3
  <2>9. ASSUME A!Kept' # 1 .. aEvents' \/ aFiles'[Rotations].log # {}
        PROVE  \A i \in A!Index \ {k} : IsFull(i)'
    <3>1. \A i \in A!Index \ {k + 1} : IsFull(i)
      <4>1. CASE k + 1 = Rotations
        <5>1. CASE aFiles[k].log # {}
          <6>1. \A i \in A!Index \ {k + 1} : i <= k
            BY <1>1, <4>1
          <6> QED BY <1>4, <2>1, <5>1, <6>1 DEF OlderAreFull
        <5>2. CASE aFiles[k].log = {}
          <6>1. aFiles[Rotations].log = {}
            BY <1>4, <2>4, <2>5, <5>2
          <6>2. \A e : e \in A!Kept' <=> e \in A!Kept
            BY <1>14, <1>15, <4>1, <6>1
          <6>3. A!Kept' = A!Kept
            BY <6>2
          <6>4. A!Kept # 1 .. aEvents
            BY <1>1, <2>6, <2>9, <4>1, <5>2, <6>3
          <6> QED BY <2>1, <6>4 DEF OlderAreFull
        <5> QED BY <5>1, <5>2
      <4>2. CASE k + 1 < Rotations
        <5>1. \A e : e \in A!Kept' <=> e \in A!Kept
          BY <1>13, <1>14, <1>15, <2>1, <4>2
        <5>2. A!Kept' = A!Kept
          BY <5>1
        <5>3. aFiles'[Rotations].log = aFiles[Rotations].log
          BY <1>1, <1>7, <4>2
        <5> QED BY <1>1, <2>1, <2>9, <5>2, <5>3 DEF OlderAreFull
      <4> QED BY <1>1, <4>1, <4>2
    <3> QED BY <1>4, <2>7, <3>1
  <2> QED BY <2>2, <2>3, <2>8, <2>9 DEF FilesAreFull, OlderAreFull, A!Index
<1> QED BY <1>1, <1>8, <1>9, <1>10, <1>11, <1>12, <1>16, <1>17 DEF AuditInv, AuditTyped

\* A rename that fails is remembered, and no file changes.
LEMMA ShiftFailsFine == ASSUME AuditInv, A!ShiftFails PROVE AuditInv'
<1> USE AuditConstants, FilesNumbered
<1>1. /\ aRotation = "shift" /\ aNext \in Nat /\ aNext < Rotations
      /\ UNCHANGED <<aFiles, aOpen, aWritten, aEvents, aGlued>> /\ aUnshifted' = TRUE
      /\ aFaults < MaxFaults /\ aFaults' = aFaults + 1
  BY DEF AuditInv, AuditTyped, RotationTyped, A!ShiftFails, A!Fails
<1>2. /\ aRotation' \in {"shift", "open"} /\ aNext' \in 0 .. Rotations /\ aNext' < Rotations
  BY <1>1 DEF A!ShiftFails, A!Shifted
<1>3. RotationTyped'
  BY <1>1, <1>2 DEF AuditInv, AuditTyped, RotationTyped
<1>4. LogFilesTyped' /\ EventsTyped' /\ aFaults' # 0
  BY <1>1 DEF AuditInv, AuditTyped, EventsTyped, LogFilesTyped, A!Index
<1>5. LogFilesFine'
  <2>1. aOpen = FALSE
    BY <1>1 DEF AuditInv, LogFilesFine, AuditTyped, RotationTyped
  <2> QED BY <1>1, <2>1 DEF AuditInv, LogFilesFine, A!Index
<1>6. Vacant'
  BY <1>1 DEF Vacant
<1>7. A!LogIsInOrder' /\ A!OldestAreDropped'
  BY <1>1 DEF AuditInv, A!LogIsInOrder, A!OldestAreDropped, A!Index
<1> QED BY <1>3, <1>4, <1>5, <1>6, <1>7 DEF AuditInv, AuditTyped

\* The new log takes the place of none that has events, unless a rename failed.
LEMMA OpenNewFine == ASSUME AuditInv, A!OpenNew PROVE AuditInv'
<1> USE AuditConstants, FilesNumbered
<1>1. /\ aRotation = "open" /\ aRotation' = "no" /\ aOpen = FALSE
      /\ UNCHANGED <<aNext, aEvents, aGlued, aUnshifted>>
  BY DEF AuditInv, AuditTyped, RotationTyped, LogFilesFine, A!OpenNew
<1>2. aFiles \in [A!Index -> ALog] /\ aEvents \in Nat /\ aNext \in 0 .. Rotations
  BY DEF AuditInv, AuditTyped, RotationTyped, EventsTyped, LogFilesTyped
<1>3. Vacant'
  BY <1>1 DEF Vacant
<1>4. CASE A!Fails /\ UNCHANGED <<aFiles, aOpen, aWritten>>
  <2>1. aFaults' # 0 /\ aFaults' \in 0 .. MaxFaults
    BY <1>4 DEF A!Fails, AuditInv, AuditTyped, EventsTyped
  <2>2. LogFilesTyped' /\ EventsTyped'
    BY <1>1, <1>4, <2>1 DEF AuditInv, AuditTyped, EventsTyped, LogFilesTyped, A!Index
  <2>3. RotationTyped'
    BY <1>1, <1>4 DEF AuditInv, AuditTyped, RotationTyped
  <2>4. LogFilesFine'
    BY <1>1, <1>4 DEF AuditInv, LogFilesFine, A!Index
  <2>5. A!LogIsInOrder' /\ A!OldestAreDropped'
    <3>1. aUnshifted \in BOOLEAN
      BY DEF AuditInv, AuditTyped, EventsTyped
    <3> QED BY <1>1, <1>4, <3>1, LogsStay
  <2> QED BY <1>3, <2>1, <2>2, <2>3, <2>4, <2>5 DEF AuditInv, AuditTyped
<1>5. CASE /\ aFiles' = [aFiles EXCEPT ![0] = A!EmptyFile]
           /\ aOpen' = TRUE /\ aWritten' = 0 /\ UNCHANGED aFaults
  <2>1. A!EmptyFile \in ALog /\ A!EmptyFile.exists /\ A!EmptyFile.log = {} /\ ~A!EmptyFile.torn
    BY DEF A!EmptyFile, A!NoFile, ALog
  <2>2. /\ aFiles' \in [A!Index -> ALog] /\ aFiles'[0] = A!EmptyFile
        /\ \A i \in A!Index \ {0} : aFiles'[i] = aFiles[i]
    BY <1>2, <1>5, <2>1
  <2>3. LogFilesTyped' /\ EventsTyped'
    BY <1>1, <1>5, <2>2 DEF AuditInv, AuditTyped, EventsTyped, LogFilesTyped, A!Index
  <2>4. RotationTyped'
    BY <1>1, <1>2, <1>5 DEF RotationTyped
  <2>5. LogFilesFine'
    <3>1. \A i \in A!Index : ~aFiles'[i].exists => aFiles'[i].log = {}
      BY <2>1, <2>2 DEF AuditInv, LogFilesFine
    <3>2. \A i \in A!Index : aFiles'[i].log \subseteq 1 .. aEvents'
      BY <1>1, <2>1, <2>2 DEF AuditInv, LogFilesFine
    <3>3. aFiles'[0].exists
      BY <2>1, <2>2
    <3> QED BY <1>1, <3>1, <3>2, <3>3 DEF LogFilesFine, A!Index
  <2>6. A!LogIsInOrder'
    <3> SUFFICES ASSUME NEW i \in A!Index, NEW j \in A!Index, i < j,
                        NEW e \in aFiles'[i].log, NEW n \in aFiles'[j].log
                 PROVE  n < e
      BY DEF A!LogIsInOrder, A!Index
    <3>1. e \in aFiles[i].log /\ n \in aFiles[j].log
      BY <2>1, <2>2
    <3> QED BY <3>1 DEF AuditInv, A!LogIsInOrder
  <2>7. ASSUME ~aUnshifted
        PROVE  A!Kept' = A!Kept /\ \A i \in A!Index : aFiles'[i].log = aFiles[i].log
    <3>1. aFiles[0].log = {}
      BY <1>1, <2>7 DEF AuditInv, Vacant
    <3>2. \A i \in A!Index : aFiles'[i].log = aFiles[i].log
      BY <2>1, <2>2, <3>1
    <3>3. A!Kept' = A!Kept
      BY <3>2 DEF A!Kept, A!Index
    <3> QED BY <3>2, <3>3
  <2>8. A!OldestAreDropped'
    BY <1>1, <2>7 DEF AuditInv, A!OldestAreDropped
  <2>9. ASSUME aFaults = 0 PROVE FilesAreFull'
    <3>1. Faultless /\ OlderAreFull /\ Gap = 0 /\ Gap' = 0 /\ ~aUnshifted
      BY <1>1, <2>9 DEF AuditInv, FilesAreFull, Faultless, Gap
    <3>2. aOpen' /\ aWritten' = Cardinality(aFiles'[0].log) /\ Cardinality(aFiles'[0].log) < Full
      <4>1. aFiles'[0].log = {} /\ aWritten' = 0 /\ aOpen'
        BY <1>5, <2>1, <2>2
      <4> QED BY <4>1, EventsCounted
    <3>3. \A i \in A!Index : ~aFiles'[i].torn
      BY <2>1, <2>2, <3>1 DEF Faultless
    <3>4. Faultless'
      BY <1>1, <3>1, <3>2, <3>3 DEF Faultless, A!Index
    <3>5. \A i \in A!Index : IsFull(i)' <=> IsFull(i)
      BY <2>7, <3>1 DEF IsFull
    <3>6. OlderAreFull'
      BY <1>1, <2>7, <3>1, <3>5 DEF OlderAreFull, A!Index
    <3> QED BY <3>4, <3>6 DEF FilesAreFull
  <2> QED BY <1>3, <1>5, <2>3, <2>4, <2>5, <2>6, <2>8, <2>9 DEF AuditInv, AuditTyped
<1> QED BY <1>4, <1>5 DEF A!OpenNew

\* A start takes up the current file as it is, or begins it.
LEMMA AuditRestartFine == ASSUME AuditInv, A!Restart PROVE AuditInv'
<1> USE AuditConstants, FilesNumbered
<1>1. /\ aOpen' = TRUE /\ aRotation' = "no" /\ aFaults' = aFaults + 1 /\ aFaults < MaxFaults
      /\ UNCHANGED <<aNext, aEvents, aGlued, aUnshifted>>
  BY DEF A!Restart, A!Fails
<1>2. /\ aFiles \in [A!Index -> ALog] /\ aEvents \in 0 .. MaxEvents /\ aNext \in 0 .. Rotations
      /\ aFaults \in Nat /\ aUnshifted \in BOOLEAN
      /\ \A i \in A!Index : aFiles[i].log \subseteq 1 .. aEvents
      /\ \A i \in A!Index : ~aFiles[i].exists => aFiles[i].log = {}
  BY DEF AuditInv, AuditTyped, RotationTyped, EventsTyped, LogFilesTyped, LogFilesFine
<1> DEFINE log == IF aFiles[0].exists THEN aFiles[0] ELSE A!EmptyFile
<1>3. log \in ALog /\ log.exists /\ log.log = aFiles[0].log
  BY <1>2 DEF A!EmptyFile, A!NoFile, ALog
<1>4. /\ \/ aFiles' = [aFiles EXCEPT ![0] = log]
         \/ aOpen /\ aFiles' = [aFiles EXCEPT ![0].torn = TRUE]
      /\ aWritten' = A!Cardinality(log.log)
  BY DEF A!Restart
<1>5. aOpen => aFiles[0].exists
  BY DEF AuditInv, LogFilesFine
<1>6. /\ aFiles' \in [A!Index -> ALog] /\ aFiles'[0].exists
      /\ \A i \in A!Index : aFiles'[i].log = aFiles[i].log
      /\ \A i \in A!Index \ {0} : aFiles'[i] = aFiles[i]
  <2>1. CASE aFiles' = [aFiles EXCEPT ![0] = log]
    <3> HIDE DEF log
    <3> QED BY <1>2, <1>3, <2>1
  <2>2. CASE aOpen /\ aFiles' = [aFiles EXCEPT ![0].torn = TRUE]
    BY <1>2, <1>5, <2>2 DEF ALog
  <2> QED BY <1>4, <2>1, <2>2
<1>7. aWritten' \in 0 .. MaxEvents /\ aWritten' <= aEvents
  <2>1. aWritten' = Cardinality(aFiles[0].log)
    BY <1>3, <1>4, EventsCounted
  <2>2. aFiles[0].log \in SUBSET (1 .. aEvents) /\ aFiles[0].log \in SUBSET (1 .. MaxEvents)
    BY <1>2
  <2>3. Cardinality(aFiles[0].log) \in Nat
    BY <2>2, EventsCounted
  <2>4. Cardinality(aFiles[0].log) <= aEvents
    BY <1>2, <2>2, EventsAtMost
  <2> QED BY <1>2, <2>1, <2>3, <2>4
<1>8. RotationTyped' /\ Vacant'
  BY <1>1, <1>2, <1>7 DEF RotationTyped, Vacant
<1>9. LogFilesTyped' /\ EventsTyped' /\ aFaults' # 0
  BY <1>1, <1>2, <1>6 DEF AuditInv, AuditTyped, EventsTyped, LogFilesTyped, A!Index
<1>10. LogFilesFine'
  <2>1. \A i \in A!Index : ~aFiles'[i].exists => aFiles'[i].log = {}
    BY <1>2, <1>6
  <2> QED BY <1>1, <1>2, <1>6, <2>1 DEF LogFilesFine, A!Index
<1>11. A!LogIsInOrder' /\ A!OldestAreDropped'
  BY <1>1, <1>2, <1>6, LogsStay
<1> QED BY <1>8, <1>9, <1>10, <1>11 DEF AuditInv, AuditTyped

\* Every step of the audit log keeps its invariant.
LEMMA AuditInvStays == AuditInv /\ [A!Next]_(A!vars) => AuditInv'
<1> SUFFICES ASSUME AuditInv, [A!Next]_(A!vars) PROVE AuditInv'
  OBVIOUS
<1>1. CASE UNCHANGED A!vars
  BY <1>1 DEF A!vars, AuditInv, AuditTyped, LogFilesTyped, RotationTyped, EventsTyped, LogFilesFine,
     Vacant, FilesAreFull, Faultless, OlderAreFull, IsFull, Gap, A!LogIsInOrder,
     A!OldestAreDropped, A!Kept, A!Index
<1>2. CASE A!Record
  BY <1>2, RecordFine
<1>3. CASE A!RecordFails
  BY <1>3, RecordFailsFine
<1>4. CASE A!Shift
  BY <1>4, ShiftFine
<1>5. CASE A!ShiftFails
  BY <1>5, ShiftFailsFine
<1>6. CASE A!OpenNew
  BY <1>6, OpenNewFine
<1>7. CASE A!Restart
  BY <1>7, AuditRestartFine
<1> QED BY <1>1, <1>2, <1>3, <1>4, <1>5, <1>6, <1>7 DEF A!Next

\* Disjoint sets of n elements have n elements for each of them.
LEMMA UnionIsSum ==
    ASSUME NEW I, IsFiniteSet(I), NEW n \in Nat, NEW f,
           \A i \in I : IsFiniteSet(f[i]) /\ Cardinality(f[i]) = n,
           \A i, j \in I : i # j => f[i] \cap f[j] = {}
    PROVE  LET Un == UNION {f[i] : i \in I}
           IN  IsFiniteSet(Un) /\ Cardinality(Un) = n * Cardinality(I)
<1> DEFINE Un(S) == UNION {f[i] : i \in S}
           Counted(S) == IsFiniteSet(Un(S)) /\ Cardinality(Un(S)) = n * Cardinality(S)
           Bad == {S \in SUBSET I : ~Counted(S)}
<1> SUFFICES Bad = {}
  OBVIOUS
<1> SUFFICES ASSUME Bad # {} PROVE FALSE
  OBVIOUS
<1>1. PICK S \in Bad : \A R \in SUBSET S : R # S => R \notin Bad
  <2>1. Bad \in SUBSET SUBSET I
    OBVIOUS
  <2> HIDE DEF Bad
  <2> QED BY <2>1, Smallest
<1>2. S \in SUBSET I /\ ~Counted(S) /\ IsFiniteSet(S)
  BY <1>1, FS_Subset
<1>3. CASE S = {}
  <2>1. Un(S) = {}
    BY <1>3
  <2>2. Cardinality({}) = 0 /\ IsFiniteSet({})
    BY FS_EmptySet
  <2>3. n * 0 = 0
    OBVIOUS
  <2> HIDE DEF Un
  <2> QED BY <1>2, <1>3, <2>1, <2>2, <2>3
<1>4. CASE S # {}
  <2>1. PICK i \in S : TRUE
    BY <1>4
  <2> DEFINE R == S \ {i}
  <2>2. R \in SUBSET S /\ R # S /\ R \in SUBSET I /\ i \in I
    BY <1>2, <2>1
  <2>3. Counted(R)
    BY <1>1, <2>2
  <2>4. Cardinality(R) \in Nat /\ Cardinality(S) = Cardinality(R) + 1
    <3>1. IsFiniteSet(R)
      BY <1>2, FS_Subset
    <3>2. Cardinality(R \cup {i}) = Cardinality(R) + 1
      BY <3>1, FS_AddElement
    <3>3. R \cup {i} = S
      BY <2>1
    <3> QED BY <3>1, <3>2, <3>3, FS_CardinalityType
  <2>5. Un(S) = Un(R) \cup f[i] /\ Un(R) \cap f[i] = {}
    <3>1. \A e : e \in Un(S) <=> e \in Un(R) \/ e \in f[i]
      BY <2>1
    <3>2. \A j \in R : f[j] \cap f[i] = {}
      BY <1>2, <2>1
    <3> QED BY <3>1, <3>2
  <2>6. IsFiniteSet(f[i]) /\ Cardinality(f[i]) = n
    BY <2>2
  <2>7. IsFiniteSet(Un(S)) /\ Cardinality(Un(S)) = Cardinality(Un(R)) + n
    <3>1. /\ IsFiniteSet(Un(R) \cup f[i])
          /\ Cardinality(Un(R) \cup f[i])
               = Cardinality(Un(R)) + Cardinality(f[i]) - Cardinality(Un(R) \cap f[i])
      BY <2>3, <2>6, FS_Union
    <3>2. Cardinality({}) = 0 /\ Cardinality(Un(R)) \in Nat
      BY <2>3, FS_EmptySet, FS_CardinalityType
    <3>3. Cardinality(Un(R) \cap f[i]) = 0
      BY <2>5, <3>2
    <3> HIDE DEF Un, R
    <3> QED BY <2>5, <2>6, <3>1, <3>2, <3>3
  <2>8. n * (Cardinality(R) + 1) = n * Cardinality(R) + n
    BY <2>4
  <2>9. Cardinality(Un(S)) = n * Cardinality(S)
    <3> HIDE DEF Un, R
    <3> QED BY <2>3, <2>4, <2>7, <2>8
  <2> QED BY <1>2, <2>7, <2>9
<1> QED BY <1>3, <1>4

\* In its invariant the audit log is in order, and all it should keep is there.
LEMMA AuditHolds ==
    AuditInv => A!TypeOK /\ A!LogIsInOrder /\ A!OldestAreDropped /\ A!EnoughIsKept
<1> SUFFICES ASSUME AuditInv
             PROVE  A!TypeOK /\ A!LogIsInOrder /\ A!OldestAreDropped /\ A!EnoughIsKept
  OBVIOUS
<1> USE AuditConstants, FilesNumbered
<1>1. A!TypeOK
  BY DEF AuditInv, AuditTyped, LogFilesTyped, RotationTyped, EventsTyped, ALog, A!TypeOK
<1>2. ASSUME aFaults = 0
      PROVE  Cardinality(A!Kept) = aEvents \/ Cardinality(A!Kept) >= Rotations * Full
  <2>1. OlderAreFull /\ A!LogIsInOrder /\ aEvents \in Nat /\ aFiles \in [A!Index -> ALog]
    BY <1>2 DEF AuditInv, FilesAreFull, AuditTyped, EventsTyped, LogFilesTyped
  <2>2. CASE A!Kept = 1 .. aEvents
    BY <2>1, <2>2, EventsAtMost
  <2>3. CASE A!Kept # 1 .. aEvents
    <3> DEFINE I == A!Index \ {Gap}
               f == [i \in A!Index |-> aFiles[i].log]
               Un == UNION {f[i] : i \in I}
    <3>1. Gap \in A!Index
      BY DEF Gap, AuditInv, AuditTyped, RotationTyped
    <3>2. IsFiniteSet(A!Index) /\ Cardinality(A!Index) = Rotations + 1
      BY FS_Interval
    <3>3. IsFiniteSet(I) /\ Cardinality(I) = Rotations
      <4>1. IsFiniteSet(I) /\ Cardinality(I) = Cardinality(A!Index) - 1
        BY <3>1, <3>2, FS_RemoveElement
      <4> HIDE DEF I
      <4> QED BY <3>2, <4>1
    <3>4. \A i \in I : IsFiniteSet(f[i]) /\ Cardinality(f[i]) = Full
      <4>1. ASSUME NEW i \in I PROVE IsFiniteSet(f[i]) /\ Cardinality(f[i]) = Full
        <5>1. f[i] = aFiles[i].log /\ aFiles[i].log \in SUBSET (1 .. MaxEvents)
          BY <2>1 DEF ALog
        <5>2. IsFull(i)
          BY <2>1, <2>3 DEF OlderAreFull
        <5> QED BY <5>1, <5>2, EventsCounted DEF IsFull
      <4> QED BY <4>1
    <3>5. \A i, j \in I : i # j => f[i] \cap f[j] = {}
      <4>1. ASSUME NEW i \in I, NEW j \in I, i # j, NEW e \in f[i] \cap f[j] PROVE FALSE
        <5>1. e \in aFiles[i].log /\ e \in aFiles[j].log /\ e \in Nat
          BY <2>1, <4>1 DEF ALog
        <5>2. i < j \/ j < i
          BY <4>1
        <5>3. e < e
          BY <2>1, <5>1, <5>2 DEF A!LogIsInOrder
        <5> QED BY <5>1, <5>3
      <4> QED BY <4>1
    <3>6. IsFiniteSet(Un) /\ Cardinality(Un) = Full * Cardinality(I)
      <4> HIDE DEF f, I
      <4> QED BY <3>3, <3>4, <3>5, UnionIsSum
    <3>7. Un \subseteq A!Kept /\ IsFiniteSet(A!Kept)
      <4>1. A!Kept \in SUBSET (1 .. MaxEvents)
        BY <2>1, KeptIsInFiles DEF ALog
      <4>2. \A e \in Un : e \in A!Kept
        BY KeptIsInFiles
      <4> QED BY <4>1, <4>2, EventsCounted
    <3>8. Cardinality(Un) <= Cardinality(A!Kept)
      <4> HIDE DEF Un
      <4> QED BY <3>7, FS_Subset
    <3>9. Full * Rotations = Rotations * Full
      OBVIOUS
    <3> HIDE DEF Un, I
    <3> QED BY <3>3, <3>6, <3>7, <3>8, <3>9, FS_CardinalityType
  <2> QED BY <2>2, <2>3
<1>3. A!EnoughIsKept
  BY <1>2, EventsCounted DEF A!EnoughIsKept
<1> QED BY <1>1, <1>3 DEF AuditInv
=============================================================================
