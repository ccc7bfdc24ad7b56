------------------------------- MODULE Storage -------------------------------
(***************************************************************************)
(* The replicated metadata of shared storage (internal/storage): each node *)
(* has a last-write-wins registry of files, saved to its disk after every  *)
(* change, and the files themselves; trusted peers exchange their          *)
(* registries (syncWithPeer and its stream handler).  Files are            *)
(* independent of each other, so the module follows one path.              *)
(*                                                                         *)
(* A write, a delete and a merge are sequences of steps under different    *)
(* locks, or none: on one node they interleave.  Clocks differ from node   *)
(* to node and each one only advances; two nodes never read the same       *)
(* instant (they are nanoseconds).                                         *)
(***************************************************************************)
EXTENDS Naturals, FiniteSets

CONSTANTS
    Node,
    NoEntry,    \* the registry has no entry for the path
    MaxStamp,   \* bound: the instants at which entries are made
    MaxFaults,  \* bound: crashes and broken streams ...
    Faulty      \* ... and the nodes that crash and lose a stream they opened

ASSUME StorageAssumption ==
    /\ MaxStamp \in Nat
    /\ MaxFaults \in Nat
    /\ Faulty \subseteq Node
    /\ NoEntry \notin [node : Node, at : 1..MaxStamp, tomb : BOOLEAN]

VARIABLES
    reg,     \* CRDTStore.entries[path] of every node
    disk,    \* the entry in its metadata.json
    file,    \* the file under its root: "none", "partial" or "whole"
    user,    \* the Write or Delete under way on the node
    sync,    \* the syncWithPeer under way from one node to another
    clock,   \* the instants each node has used
    faults,
    crashed  \* history: some node crashed

vars == <<reg, disk, file, user, sync, clock, faults, crashed>>

Stamp == 1..MaxStamp
Entry == [node : Node, at : Stamp, tomb : BOOLEAN]
MaybeEntry == Entry \cup {NoEntry}
Pair == {p \in Node \X Node : p[1] # p[2]}

\* a.UpdatedAt.After(b.UpdatedAt), where an absent entry is older than any.
Newer(a, b) == a # NoEntry /\ (b = NoEntry \/ a.at > b.at)

\* linked: the file that Write has open is still the one at the path.
\* removes: it is a Delete.  copy: what its SaveToDisk is about to commit.
IdleUser == [at |-> "idle", linked |-> FALSE, removes |-> FALSE, copy |-> NoEntry]

\* at: where it is; side: which of the two merges; entry: what is sent or merged;
\* waits: the requester still reads the stream.
IdleSync == [at |-> "idle", side |-> "peer", entry |-> NoEntry, copy |-> NoEntry, waits |-> FALSE]

Init ==
    /\ reg = [n \in Node |-> NoEntry]
    /\ disk = [n \in Node |-> NoEntry]
    /\ file = [n \in Node |-> "none"]
    /\ user = [n \in Node |-> IdleUser]
    /\ sync = [p \in Pair |-> IdleSync]
    /\ clock = [n \in Node |-> {}]
    /\ faults = 0
    /\ crashed = FALSE

Used == UNION {clock[n] : n \in Node}

\* What time.Now() may be on node n.
Now(n) == {t \in Stamp \ Used : \A u \in clock[n] : u < t}

-----------------------------------------------------------------------------
(* CRDTStore *)

\* Fault: the instants are not compared again under the lock.
UpsertOverwrites(n, e) == reg' = [reg EXCEPT ![n] = e]

\* Upsert: under the lock, only a newer entry replaces the present one.
Upsert(n, e) == reg' = IF Newer(e, reg[n]) THEN [reg EXCEPT ![n] = e] ELSE reg

-----------------------------------------------------------------------------
(* Write and Delete, step by step *)

WriteOpen(n) ==
    /\ user[n].at = "idle" /\ Now(n) # {}
    /\ file' = [file EXCEPT ![n] = "partial"]
    /\ user' = [user EXCEPT ![n] = [IdleUser EXCEPT !.at = "writing", !.linked = TRUE]]
    /\ UNCHANGED <<reg, disk, sync, clock, faults, crashed>>

\* io.Copy and the Commit in the log.  A file unlinked meanwhile is not there.
WriteCopied(n) ==
    /\ user[n].at = "writing"
    /\ file' = [file EXCEPT ![n] = IF user[n].linked THEN "whole" ELSE @]
    /\ user' = [user EXCEPT ![n].at = "written", ![n].linked = FALSE]
    /\ UNCHANGED <<reg, disk, sync, clock, faults, crashed>>

\* io.Copy fails: what was written stays.
WriteFails(n) ==
    /\ user[n].at = "writing"
    /\ user' = [user EXCEPT ![n] = IdleUser]
    /\ UNCHANGED <<reg, disk, file, sync, clock, faults, crashed>>

\* An entry older than the registry's is dropped, and nothing is saved.
WriteUpsert(n) ==
    /\ user[n].at = "written"
    /\ \E t \in Now(n) :
         LET e == [node |-> n, at |-> t, tomb |-> FALSE] IN
         /\ Upsert(n, e)
         /\ clock' = [clock EXCEPT ![n] = @ \cup {t}]
         /\ user' = [user EXCEPT ![n] = IF Newer(e, reg[n])
                                        THEN [IdleUser EXCEPT !.at = "save"] ELSE IdleUser]
    /\ UNCHANGED <<disk, file, sync, faults, crashed>>

\* CRDTStore.Delete: the tombstone replaces whatever entry there is.
DeleteMark(n) ==
    /\ user[n].at = "idle"
    /\ \E t \in Now(n) :
         /\ reg' = [reg EXCEPT ![n] = [node |-> n, at |-> t, tomb |-> TRUE]]
         /\ clock' = [clock EXCEPT ![n] = @ \cup {t}]
    /\ user' = [user EXCEPT ![n] = [IdleUser EXCEPT !.at = "save", !.removes = TRUE]]
    /\ UNCHANGED <<disk, file, sync, faults, crashed>>

\* SaveToDisk copies the registry under the lock and commits the copy without it;
\* its error is ignored.
UserSaveCopy(n) ==
    /\ user[n].at = "save"
    /\ user' = [user EXCEPT ![n].at = "commit", ![n].copy = reg[n]]
    /\ UNCHANGED <<reg, disk, file, sync, clock, faults, crashed>>

UserSaveCommit(n) ==
    /\ user[n].at = "commit"
    /\ disk' = [disk EXCEPT ![n] = user[n].copy]
    /\ user' = [user EXCEPT ![n] = IF user[n].removes
                                   THEN [IdleUser EXCEPT !.at = "remove"] ELSE IdleUser]
    /\ UNCHANGED <<reg, file, sync, clock, faults, crashed>>

DeleteRemove(n) ==
    /\ user[n].at = "remove"
    /\ file' = [file EXCEPT ![n] = "none"]
    /\ user' = [user EXCEPT ![n] = IdleUser]
    /\ UNCHANGED <<reg, disk, sync, clock, faults, crashed>>

-----------------------------------------------------------------------------
(* syncWithPeer, from p[1] to p[2] and back *)

Site(p) == IF sync[p].side = "peer" THEN p[2] ELSE p[1]

SyncBegin(p) ==
    /\ sync[p].at = "idle"
    /\ sync' = [sync EXCEPT ![p] = [IdleSync EXCEPT !.at = "request", !.entry = reg[p[1]],
                                                    !.waits = TRUE]]
    /\ UNCHANGED <<reg, disk, file, user, clock, faults, crashed>>

\* The peer's answer, or the end of the requester's own merge.
Answer(p, e) ==
    IF sync[p].side = "peer"
    THEN [sync EXCEPT ![p].at = "answer", ![p].entry = e]
    ELSE [sync EXCEPT ![p] = IdleSync]

\* Fault: an entry for a path the registry does not know is not applied.
AppliesIfKnown(remote, local) == local # NoEntry /\ Newer(remote, local)

\* MergeRemoteRegistry compares with a copy of the registry.
Applies(remote, local) == Newer(remote, local)

\* Fault: what is not older there is applied.
MergeRequestUnlessOlder(p) ==
    /\ sync[p].at = "request"
    /\ LET local == reg[p[2]]
           remote == sync[p].entry
       IN  sync' = IF Newer(local, remote) THEN Answer(p, local)
                   ELSE [sync EXCEPT ![p].at = "upsert"]
    /\ UNCHANGED <<reg, disk, file, user, clock, faults, crashed>>

\* The peer has the request: what is newer there will be applied, what is newer here
\* is the answer.
MergeRequest(p) ==
    /\ sync[p].at = "request"
    /\ LET local == reg[p[2]]
           remote == sync[p].entry
       IN  sync' = IF Applies(remote, local) THEN [sync EXCEPT ![p].at = "upsert"]
                   ELSE Answer(p, IF Newer(local, remote) THEN local ELSE NoEntry)
    /\ UNCHANGED <<reg, disk, file, user, clock, faults, crashed>>

MergeUpsert(p) ==
    /\ sync[p].at = "upsert"
    /\ Upsert(Site(p), sync[p].entry)
    /\ sync' = [sync EXCEPT ![p].at =
                  IF Newer(sync[p].entry, reg[Site(p)]) THEN "save" ELSE "applied"]
    /\ UNCHANGED <<disk, file, user, clock, faults, crashed>>

MergeSaveCopy(p) ==
    /\ sync[p].at = "save"
    /\ sync' = [sync EXCEPT ![p].at = "commit", ![p].copy = reg[Site(p)]]
    /\ UNCHANGED <<reg, disk, file, user, clock, faults, crashed>>

MergeSaveCommit(p) ==
    /\ sync[p].at = "commit"
    /\ disk' = [disk EXCEPT ![Site(p)] = sync[p].copy]
    /\ sync' = [sync EXCEPT ![p].at = "applied", ![p].copy = NoEntry]
    /\ UNCHANGED <<reg, file, user, clock, faults, crashed>>

\* DeleteLocal for a tombstone, whether or not Upsert took it.
MergeApplied(p) ==
    /\ sync[p].at = "applied"
    /\ IF sync[p].entry.tomb
       THEN /\ file' = [file EXCEPT ![Site(p)] = "none"]
            /\ user' = [user EXCEPT ![Site(p)].linked = FALSE]
       ELSE UNCHANGED <<file, user>>
    /\ sync' = Answer(p, NoEntry)
    /\ UNCHANGED <<reg, disk, clock, faults, crashed>>

\* The requester has the answer, and merges it the same way.
MergeAnswer(p) ==
    /\ sync[p].at = "answer"
    /\ sync' = [sync EXCEPT ![p] =
                  IF sync[p].waits /\ Applies(sync[p].entry, reg[p[1]])
                  THEN [@ EXCEPT !.at = "upsert", !.side = "self"] ELSE IdleSync]
    /\ UNCHANGED <<reg, disk, file, user, clock, faults, crashed>>

\* The request or the answer is lost.
SyncLost(p) ==
    /\ p[1] \in Faulty /\ sync[p].side = "peer" /\ sync[p].at \in {"request", "answer"}
    /\ faults < MaxFaults /\ faults' = faults + 1
    /\ sync' = [sync EXCEPT ![p] = IdleSync]
    /\ UNCHANGED <<reg, disk, file, user, clock, crashed>>

-----------------------------------------------------------------------------
(* Crash and restart *)

\* The registry is what metadata.json holds; recoverWAL removes the file that was
\* being written, unless its entry did not reach the log.  A peer goes on with a
\* merge for a requester that crashed.
Crash(n) ==
    /\ n \in Faulty /\ faults < MaxFaults /\ faults' = faults + 1
    /\ crashed' = TRUE
    /\ reg' = [reg EXCEPT ![n] = disk[n]]
    /\ \E f \in {file[n]} \cup IF user[n].at = "writing" THEN {"none"} ELSE {} :
         file' = [file EXCEPT ![n] = f]
    /\ user' = [user EXCEPT ![n] = IdleUser]
    /\ sync' = [p \in Pair |->
                  IF sync[p].at # "idle" /\ sync[p].side = "peer" /\ n = p[1]
                  THEN [sync[p] EXCEPT !.waits = FALSE]
                  ELSE IF n = Site(p) THEN IdleSync ELSE sync[p]]
    /\ UNCHANGED <<disk, clock>>

-----------------------------------------------------------------------------
UserStep(n) ==
    WriteCopied(n) \/ WriteUpsert(n) \/ UserSaveCopy(n) \/ UserSaveCommit(n) \/ DeleteRemove(n)

SyncStep(p) ==
    \/ SyncBegin(p) \/ MergeRequest(p) \/ MergeUpsert(p)
    \/ MergeSaveCopy(p) \/ MergeSaveCommit(p) \/ MergeApplied(p) \/ MergeAnswer(p)

Next ==
    \/ \E n \in Node : WriteOpen(n) \/ WriteFails(n) \/ DeleteMark(n) \/ UserStep(n) \/ Crash(n)
    \/ \E p \in Pair : SyncStep(p) \/ SyncLost(p)

Spec == Init /\ [][Next]_vars

\* What runs goes on (one condition for all the nodes: the bounds let each of them take
\* finitely many such steps), and every node synchronises with every other one again and
\* again (syncLoop, every 30 seconds).
FairSpec ==
    Spec /\ WF_vars(\E n \in Node : UserStep(n)) /\ \A p \in Pair : WF_vars(SyncStep(p))

-----------------------------------------------------------------------------
(* Properties *)

\* Every variable stays in its type.
TypeOK ==
    /\ {reg[n] : n \in Node} \cup {disk[n] : n \in Node} \subseteq MaybeEntry
    /\ file \in [Node -> {"none", "partial", "whole"}]
    /\ user \in [Node -> [at : {"idle", "writing", "written", "save", "commit", "remove"},
                          linked : BOOLEAN, removes : BOOLEAN, copy : MaybeEntry]]
    /\ \A p \in Pair :
         /\ sync[p].at \in {"idle", "request", "upsert", "save", "commit", "applied", "answer"}
         /\ sync[p].at \in {"upsert", "save", "commit", "applied"} => sync[p].entry \in Entry
    /\ clock \in [Node -> SUBSET Stamp]

\* However old the comparison a merge decided on, and whatever was saved or merged
\* meanwhile, only a Delete on the node itself and a restart replace an entry of
\* its registry by an older one.
MergeNeverRegresses ==
    [][\A n \in Node : Newer(reg[n], reg'[n]) => user'[n].removes \/ crashed']_vars

\* As long as no node crashes, the newest entry ever made is held by a node, even
\* though a Delete on a slow clock replaces newer entries.
NewestIsHeld ==
    ~crashed => \A t \in Used : \E n \in Node : reg[n] # NoEntry /\ reg[n].at >= t

\* "the CRDT metadata registry merges changes conflict-free": once writes, deletes
\* and faults stop, the nodes agree and stay so.
Converges == <>[](\A n, m \in Node : reg[n] = reg[m])

\* "If peer has a newer tombstone, remove local file": a merge removes a whole file
\* only when the tombstone is not older than what the registry says of the path.
RemovesOnlyDeleted ==
    [][\A p \in Pair :
         MergeApplied(p) /\ file[Site(p)] = "whole" /\ file'[Site(p)] = "none"
         => ~Newer(reg[Site(p)], sync[p].entry)]_vars

=============================================================================
