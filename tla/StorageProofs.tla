---------------------------- MODULE StorageProofs ----------------------------
(***************************************************************************)
(* Proofs, for any number of nodes, instants and faults, that the          *)
(* replicated registry is well typed, that only a Delete on the node       *)
(* itself and a restart replace an entry by an older one, and that the     *)
(* newest entry made is held as long as no node crashed.                   *)
(***************************************************************************)
EXTENDS Storage, TLAPS

UserPosition == {"idle", "writing", "written", "save", "commit", "remove"}
SyncPosition == {"idle", "request", "upsert", "save", "commit", "applied", "answer"}
UserRecord == [at : UserPosition, linked : BOOLEAN, removes : BOOLEAN, copy : MaybeEntry]
SyncRecord ==
    [at : SyncPosition, side : {"peer", "self"}, entry : MaybeEntry, copy : MaybeEntry,
     waits : BOOLEAN]

\* Every variable is a function of its nodes, and what a merge works with is a record.
Typed ==
    /\ reg \in [Node -> MaybeEntry]
    /\ disk \in [Node -> MaybeEntry]
    /\ file \in [Node -> {"none", "partial", "whole"}]
    /\ user \in [Node -> UserRecord]
    /\ sync \in [Pair -> SyncRecord]
    /\ \A p \in Pair : sync[p].at \in {"upsert", "save", "commit", "applied"} =>
                         sync[p].entry \in Entry
    /\ clock \in [Node -> SUBSET Stamp]
    /\ crashed \in BOOLEAN

\* As long as no node crashes, each one holds an entry at least as new as the last
\* that it made: a merge only brings newer ones, and its own clock advances.
OwnNewestIsHeld ==
    ~crashed => \A n \in Node : \A t \in clock[n] : reg[n] # NoEntry /\ reg[n].at >= t

\* The inductive invariant.
IInv == Typed /\ OwnNewestIsHeld

\* The site of a synchronisation is one of its two nodes.
LEMMA Sites == \A p \in Pair : p[1] \in Node /\ p[2] \in Node /\ Site(p) \in Node
BY DEF Pair, Site

\* An entry, or none.
LEMMA Positions ==
    NoEntry \in MaybeEntry /\ Entry \subseteq MaybeEntry /\ MaybeEntry \ {NoEntry} \subseteq Entry
BY DEF MaybeEntry

\* An entry that is newer than another one is an entry, and the other one is not newer.
LEMMA NewerEntry ==
    ASSUME NEW a \in MaybeEntry, NEW b \in MaybeEntry
    PROVE  /\ Newer(a, b) => a \in Entry /\ a # NoEntry /\ ~Newer(b, a)
           /\ ~Newer(a, a)
<1>1. a # NoEntry => a \in Entry /\ a.at \in Nat
  BY StorageAssumption DEF MaybeEntry, Entry, Stamp
<1>2. b # NoEntry => b.at \in Nat
  BY StorageAssumption DEF MaybeEntry, Entry, Stamp
<1> QED BY <1>1, <1>2 DEF Newer

\* Upsert keeps the registry typed, changes it at its node only, and puts nothing
\* older there.
LEMMA UpsertStep ==
    ASSUME Typed, NEW n \in Node, NEW e \in Entry, Upsert(n, e)
    PROVE  /\ reg' \in [Node -> MaybeEntry]
           /\ \A m \in Node : reg'[m] = reg[m] \/ Newer(reg'[m], reg[m])
           /\ \A m \in Node \ {n} : reg'[m] = reg[m]
           /\ reg'[n] = IF Newer(e, reg[n]) THEN e ELSE reg[n]
BY Positions DEF Upsert, Typed

\* The states the nodes start in satisfy it.
LEMMA InitIInv == Init => IInv
<1> SUFFICES ASSUME Init PROVE IInv
  OBVIOUS
<1>1. IdleSync \in SyncRecord
  BY Positions DEF IdleSync, SyncRecord, SyncPosition
<1>2. IdleUser \in UserRecord
  BY Positions DEF IdleUser, UserRecord, UserPosition
<1>3. IdleSync.at = "idle"
  BY DEF IdleSync
<1> QED BY <1>1, <1>2, <1>3, Positions DEF Init, IInv, Typed, OwnNewestIsHeld

-----------------------------------------------------------------------------
(* Types *)

\* What is not under way has nothing to merge or to save.
LEMMA Idle == IdleUser \in UserRecord /\ IdleSync \in SyncRecord
              /\ IdleSync.at = "idle" /\ IdleSync.side = "peer" /\ ~IdleUser.removes
BY Positions DEF IdleUser, IdleSync, UserRecord, SyncRecord, UserPosition, SyncPosition

\* A write or a delete.
LEMMA UserType ==
    ASSUME Typed, NEW n \in Node,
           WriteOpen(n) \/ WriteFails(n) \/ DeleteMark(n) \/ UserStep(n)
    PROVE  Typed'
<1>0. user[n] \in UserRecord /\ reg[n] \in MaybeEntry
  BY DEF Typed, UserRecord
<1> USE Idle, Positions
<1>1. CASE WriteOpen(n)
  <2>1. [IdleUser EXCEPT !.at = "writing", !.linked = TRUE] \in UserRecord
    BY DEF UserRecord, UserPosition
  <2> QED BY <1>1, <2>1 DEF WriteOpen, Typed, UserRecord
<1>2. CASE WriteCopied(n)
  <2>1. user' = [user EXCEPT ![n] = [user[n] EXCEPT !.at = "written", !.linked = FALSE]]
    BY <1>2 DEF WriteCopied, Typed
  <2>2. [user[n] EXCEPT !.at = "written", !.linked = FALSE] \in UserRecord
    BY <1>0 DEF UserRecord, UserPosition
  <2> QED BY <1>2, <2>1, <2>2 DEF WriteCopied, Typed, UserRecord
<1>3. CASE WriteFails(n)
  BY <1>3 DEF WriteFails, Typed, UserRecord
<1>4. CASE WriteUpsert(n)
  <2>1. PICK t \in Now(n) :
          LET e == [node |-> n, at |-> t, tomb |-> FALSE] IN
          /\ Upsert(n, e)
          /\ clock' = [clock EXCEPT ![n] = @ \cup {t}]
          /\ user' = [user EXCEPT ![n] = IF Newer(e, reg[n])
                                         THEN [IdleUser EXCEPT !.at = "save"] ELSE IdleUser]
    BY <1>4 DEF WriteUpsert
  <2> DEFINE e == [node |-> n, at |-> t, tomb |-> FALSE]
  <2>2. t \in Stamp /\ e \in Entry
    BY DEF Now, Entry
  <2>3. reg' \in [Node -> MaybeEntry]
    BY <2>1, <2>2, UpsertStep
  <2>4. [IdleUser EXCEPT !.at = "save"] \in UserRecord
    BY DEF UserRecord, UserPosition
  <2> QED BY <1>4, <2>1, <2>2, <2>3, <2>4 DEF WriteUpsert, Typed, UserRecord
<1>5. CASE DeleteMark(n)
  <2>1. PICK t \in Now(n) :
          /\ reg' = [reg EXCEPT ![n] = [node |-> n, at |-> t, tomb |-> TRUE]]
          /\ clock' = [clock EXCEPT ![n] = @ \cup {t}]
    BY <1>5 DEF DeleteMark
  <2>2. t \in Stamp /\ [node |-> n, at |-> t, tomb |-> TRUE] \in MaybeEntry
    BY DEF Now, Entry
  <2>3. [IdleUser EXCEPT !.at = "save", !.removes = TRUE] \in UserRecord
    BY DEF UserRecord, UserPosition
  <2> QED BY <1>5, <2>1, <2>2, <2>3 DEF DeleteMark, Typed, UserRecord
<1>6. CASE UserSaveCopy(n)
  <2>1. user' = [user EXCEPT ![n] = [user[n] EXCEPT !.at = "commit", !.copy = reg[n]]]
    BY <1>6 DEF UserSaveCopy, Typed
  <2>2. [user[n] EXCEPT !.at = "commit", !.copy = reg[n]] \in UserRecord
    BY <1>0 DEF UserRecord, UserPosition
  <2> QED BY <1>6, <2>1, <2>2 DEF UserSaveCopy, Typed, UserRecord
<1>7. CASE UserSaveCommit(n)
  <2>1. [IdleUser EXCEPT !.at = "remove"] \in UserRecord /\ user[n].copy \in MaybeEntry
    BY <1>0 DEF UserRecord, UserPosition
  <2> QED BY <1>7, <2>1 DEF UserSaveCommit, Typed, UserRecord
<1>8. CASE DeleteRemove(n)
  BY <1>8 DEF DeleteRemove, Typed, UserRecord
<1> QED BY <1>1, <1>2, <1>3, <1>4, <1>5, <1>6, <1>7, <1>8 DEF UserStep

\* A new record for one synchronisation.
LEMMA SyncUpdate ==
    ASSUME Typed, NEW p \in Pair, NEW v \in SyncRecord, sync' = [sync EXCEPT ![p] = v],
           v.at \in {"upsert", "save", "commit", "applied"} => v.entry \in Entry
    PROVE  /\ sync' \in [Pair -> SyncRecord]
           /\ \A q \in Pair : sync'[q].at \in {"upsert", "save", "commit", "applied"} =>
                                sync'[q].entry \in Entry
BY DEF Typed

\* The answer of the peer, or the end of a synchronisation.
LEMMA AnswerRecord ==
    ASSUME Typed, NEW p \in Pair, NEW e \in MaybeEntry, sync' = Answer(p, e)
    PROVE  /\ sync' \in [Pair -> SyncRecord]
           /\ \A q \in Pair : sync'[q].at \in {"upsert", "save", "commit", "applied"} =>
                                sync'[q].entry \in Entry
<1> DEFINE v == IF sync[p].side = "peer" THEN [sync[p] EXCEPT !.at = "answer", !.entry = e]
                ELSE IdleSync
<1>0. sync[p] \in SyncRecord
  BY DEF Typed
<1>1. v \in SyncRecord /\ v.at \in {"answer", "idle"}
  BY <1>0, Idle DEF SyncRecord, SyncPosition
<1>2. sync' = [sync EXCEPT ![p] = v]
  BY DEF Answer, Typed
<1> HIDE DEF v
<1> QED BY <1>1, <1>2, SyncUpdate

\* A step of a synchronisation, or the loss of its stream.
LEMMA SyncType ==
    ASSUME Typed, NEW p \in Pair, SyncStep(p) \/ SyncLost(p)
    PROVE  Typed'
<1>0. sync[p] \in SyncRecord /\ reg[p[1]] \in MaybeEntry /\ reg[p[2]] \in MaybeEntry
      /\ reg[Site(p)] \in MaybeEntry /\ Site(p) \in Node
  BY Sites DEF Typed
<1> DEFINE SyncTyped ==
      /\ sync' \in [Pair -> SyncRecord]
      /\ \A q \in Pair : sync'[q].at \in {"upsert", "save", "commit", "applied"} =>
                           sync'[q].entry \in Entry
<1> USE Idle, Positions
<1>1. CASE SyncBegin(p)
  <2> DEFINE v == [IdleSync EXCEPT !.at = "request", !.entry = reg[p[1]], !.waits = TRUE]
  <2>1. v \in SyncRecord /\ v.at = "request"
    BY <1>0 DEF SyncRecord, SyncPosition
  <2>2. sync' = [sync EXCEPT ![p] = v]
    BY <1>1 DEF SyncBegin
  <2>3. SyncTyped
    <3> HIDE DEF v
    <3> QED BY <2>1, <2>2, SyncUpdate
  <2> QED BY <1>1, <2>3 DEF SyncBegin, Typed
<1>2. CASE MergeRequest(p)
  <2>1. SyncTyped
    <3>1. CASE Applies(sync[p].entry, reg[p[2]])
      <4> DEFINE v == [sync[p] EXCEPT !.at = "upsert"]
      <4>1. v \in SyncRecord /\ v.entry = sync[p].entry /\ sync[p].entry \in MaybeEntry
        BY <1>0 DEF SyncRecord, SyncPosition
      <4>2. v.entry \in Entry
        BY <1>0, <3>1, <4>1, NewerEntry DEF Applies
      <4>3. sync' = [sync EXCEPT ![p] = v]
        BY <1>2, <3>1 DEF MergeRequest, Typed
      <4> HIDE DEF v
      <4> QED BY <4>1, <4>2, <4>3, SyncUpdate
    <3>2. CASE ~Applies(sync[p].entry, reg[p[2]])
      BY <1>0, <1>2, <3>2, AnswerRecord DEF MergeRequest
    <3> QED BY <3>1, <3>2
  <2> QED BY <1>2, <2>1 DEF MergeRequest, Typed
<1>3. CASE MergeUpsert(p)
  <2>1. sync[p].entry \in Entry
    BY <1>3 DEF MergeUpsert, Typed
  <2>2. reg' \in [Node -> MaybeEntry]
    BY <1>0, <1>3, <2>1, UpsertStep DEF MergeUpsert
  <2> DEFINE v == [sync[p] EXCEPT !.at = IF Newer(sync[p].entry, reg[Site(p)])
                                          THEN "save" ELSE "applied"]
  <2>3. v \in SyncRecord /\ v.entry \in Entry
    BY <1>0, <2>1 DEF SyncRecord, SyncPosition
  <2>4. sync' = [sync EXCEPT ![p] = v]
    BY <1>3 DEF MergeUpsert, Typed
  <2>5. SyncTyped
    <3> HIDE DEF v
    <3> QED BY <2>3, <2>4, SyncUpdate
  <2> QED BY <1>3, <2>2, <2>5 DEF MergeUpsert, Typed
<1>4. CASE MergeSaveCopy(p)
  <2> DEFINE v == [sync[p] EXCEPT !.at = "commit", !.copy = reg[Site(p)]]
  <2>1. v \in SyncRecord /\ v.entry \in Entry
    BY <1>0, <1>4 DEF MergeSaveCopy, Typed, SyncRecord, SyncPosition
  <2>2. sync' = [sync EXCEPT ![p] = v]
    BY <1>4 DEF MergeSaveCopy, Typed
  <2>3. SyncTyped
    <3> HIDE DEF v
    <3> QED BY <2>1, <2>2, SyncUpdate
  <2> QED BY <1>4, <2>3 DEF MergeSaveCopy, Typed
<1>5. CASE MergeSaveCommit(p)
  <2> DEFINE v == [sync[p] EXCEPT !.at = "applied", !.copy = NoEntry]
  <2>1. v \in SyncRecord /\ v.entry \in Entry /\ sync[p].copy \in MaybeEntry
    BY <1>0, <1>5 DEF MergeSaveCommit, Typed, SyncRecord, SyncPosition
  <2>2. sync' = [sync EXCEPT ![p] = v]
    BY <1>5 DEF MergeSaveCommit, Typed
  <2>3. SyncTyped
    <3> HIDE DEF v
    <3> QED BY <2>1, <2>2, SyncUpdate
  <2> QED BY <1>0, <1>5, <2>1, <2>3 DEF MergeSaveCommit, Typed
<1>6. CASE MergeApplied(p)
  <2>1. SyncTyped
    BY <1>6, AnswerRecord DEF MergeApplied
  <2>2. user' \in [Node -> UserRecord] /\ file' \in [Node -> {"none", "partial", "whole"}]
    <3>1. CASE sync[p].entry.tomb
      <4>1. user' = [user EXCEPT ![Site(p)] = [user[Site(p)] EXCEPT !.linked = FALSE]]
            /\ file' = [file EXCEPT ![Site(p)] = "none"]
        BY <1>6, <3>1 DEF MergeApplied, Typed
      <4>2. [user[Site(p)] EXCEPT !.linked = FALSE] \in UserRecord
        BY <1>0 DEF Typed, UserRecord
      <4> QED BY <4>1, <4>2 DEF Typed, UserRecord
    <3>2. CASE ~sync[p].entry.tomb
      BY <1>6, <3>2 DEF MergeApplied, Typed, UserRecord
    <3> QED BY <3>1, <3>2
  <2> QED BY <1>6, <2>1, <2>2 DEF MergeApplied, Typed, UserRecord
<1>7. CASE MergeAnswer(p)
  <2> DEFINE v == IF sync[p].waits /\ Applies(sync[p].entry, reg[p[1]])
                  THEN [sync[p] EXCEPT !.at = "upsert", !.side = "self"] ELSE IdleSync
  <2>1. v \in SyncRecord
    BY <1>0 DEF SyncRecord, SyncPosition
  <2>2. v.at \in {"upsert", "save", "commit", "applied"} => v.entry \in Entry
    BY <1>0, NewerEntry DEF Applies, SyncRecord
  <2>3. sync' = [sync EXCEPT ![p] = v]
    BY <1>7 DEF MergeAnswer, Typed
  <2>4. SyncTyped
    <3> HIDE DEF v
    <3> QED BY <2>1, <2>2, <2>3, SyncUpdate
  <2> QED BY <1>7, <2>4 DEF MergeAnswer, Typed
<1>8. CASE SyncLost(p)
  BY <1>8 DEF SyncLost, Typed
<1> QED BY <1>1, <1>2, <1>3, <1>4, <1>5, <1>6, <1>7, <1>8 DEF SyncStep

\* A crash and the restart after it.
LEMMA CrashType == ASSUME Typed, NEW n \in Node, Crash(n) PROVE Typed'
<1>1. reg' \in [Node -> MaybeEntry] /\ user' \in [Node -> UserRecord] /\ crashed' \in BOOLEAN
  BY Idle DEF Crash, Typed, UserRecord
<1>2. file' \in [Node -> {"none", "partial", "whole"}]
  <2>1. PICK f \in {file[n]} \cup IF user[n].at = "writing" THEN {"none"} ELSE {} :
          file' = [file EXCEPT ![n] = f]
    BY DEF Crash
  <2> QED BY <2>1 DEF Typed
<1>3. ASSUME NEW p \in Pair
      PROVE  /\ sync'[p] \in SyncRecord
             /\ sync'[p].at \in {"upsert", "save", "commit", "applied"} => sync'[p].entry \in Entry
  <2>1. sync[p] \in SyncRecord /\ [sync[p] EXCEPT !.waits = FALSE] \in SyncRecord
    BY DEF Typed, SyncRecord
  <2>2. sync'[p] \in {[sync[p] EXCEPT !.waits = FALSE], IdleSync, sync[p]}
    BY DEF Crash
  <2> QED BY <2>1, <2>2, Idle DEF Typed, SyncRecord
<1>4. sync' \in [Pair -> SyncRecord]
  BY <1>3 DEF Crash
<1> QED BY <1>1, <1>2, <1>3, <1>4 DEF Crash, Typed, UserRecord
-----------------------------------------------------------------------------
(* The invariant *)

\* A step that makes no entry and replaces none by an older one keeps what is held.
LEMMA HeldFrame ==
    ASSUME IInv, Typed', clock' = clock, crashed' = crashed,
           \A n \in Node : reg'[n] = reg[n] \/ Newer(reg'[n], reg[n])
    PROVE  OwnNewestIsHeld'
<1> SUFFICES ASSUME ~crashed, NEW n \in Node, NEW t \in clock[n]
             PROVE  reg'[n] # NoEntry /\ reg'[n].at >= t
  BY DEF OwnNewestIsHeld
<1>1. reg[n] # NoEntry /\ reg[n].at >= t /\ t \in Nat
  BY StorageAssumption DEF IInv, Typed, OwnNewestIsHeld, Stamp
<1>2. CASE reg'[n] = reg[n]
  BY <1>1, <1>2
<1>3. CASE Newer(reg'[n], reg[n])
  <2>1. reg'[n] # NoEntry => reg'[n].at \in Nat
    BY StorageAssumption DEF Typed, MaybeEntry, Entry, Stamp
  <2>2. reg[n].at \in Nat
    BY <1>1, StorageAssumption DEF IInv, Typed, MaybeEntry, Entry, Stamp
  <2> QED BY <1>1, <1>3, <2>1, <2>2 DEF Newer
<1> QED BY <1>2, <1>3

\* An entry made on a node is the newest that it has made, and the node holds it, or
\* one that is newer.
LEMMA HeldMade ==
    ASSUME IInv, NEW n \in Node, NEW t \in Now(n), clock' = [clock EXCEPT ![n] = @ \cup {t}],
           crashed' = crashed, \A m \in Node \ {n} : reg'[m] = reg[m],
           reg'[n] # NoEntry, reg'[n].at \in Nat, reg'[n].at >= t
    PROVE  OwnNewestIsHeld'
<1> SUFFICES ASSUME ~crashed, NEW m \in Node, NEW u \in clock'[m]
             PROVE  reg'[m] # NoEntry /\ reg'[m].at >= u
  BY DEF OwnNewestIsHeld
<1>1. CASE m # n
  BY <1>1 DEF IInv, Typed, OwnNewestIsHeld
<1>2. CASE m = n
  <2>1. u \in clock[n] \cup {t} /\ t \in Nat /\ clock[n] \subseteq Nat
    BY <1>2, StorageAssumption DEF IInv, Typed, Stamp, Now
  <2>2. u \in Nat /\ u <= t
    BY <2>1 DEF Now
  <2> QED BY <1>2, <2>1, <2>2
<1> QED BY <1>1, <1>2

\* Every step but the two that may go back leaves each registry as it is or newer.
LEMMA RegistryStep ==
    ASSUME IInv, [Next]_vars, NEW n \in Node
    PROVE  \/ reg'[n] = reg[n] \/ Newer(reg'[n], reg[n])
           \/ DeleteMark(n) \/ Crash(n)
<1>0. Typed
  BY DEF IInv
<1>1. ASSUME NEW m \in Node, WriteUpsert(m) PROVE reg'[n] = reg[n] \/ Newer(reg'[n], reg[n])
  <2>1. PICK t \in Now(m) : Upsert(m, [node |-> m, at |-> t, tomb |-> FALSE])
    BY <1>1 DEF WriteUpsert
  <2>2. [node |-> m, at |-> t, tomb |-> FALSE] \in Entry
    BY DEF Entry, Now
  <2> QED BY <1>0, <2>1, <2>2, UpsertStep
<1>2. ASSUME NEW p \in Pair, MergeUpsert(p) PROVE reg'[n] = reg[n] \/ Newer(reg'[n], reg[n])
  <2>1. sync[p].entry \in Entry /\ Upsert(Site(p), sync[p].entry) /\ Site(p) \in Node
    BY <1>0, <1>2, Sites DEF MergeUpsert, Typed
  <2> QED BY <1>0, <2>1, UpsertStep
<1>3. ASSUME NEW m \in Node, DeleteMark(m), m # n PROVE reg'[n] = reg[n]
  BY <1>0, <1>3 DEF DeleteMark, Typed
<1>4. ASSUME NEW m \in Node, Crash(m), m # n PROVE reg'[n] = reg[n]
  BY <1>0, <1>4 DEF Crash, Typed
<1>5. ASSUME NEW m \in Node, WriteOpen(m) \/ WriteFails(m) \/ UserStep(m), ~WriteUpsert(m)
      PROVE  reg'[n] = reg[n]
  BY <1>5 DEF WriteOpen, WriteFails, UserStep, WriteCopied, UserSaveCopy, UserSaveCommit,
     DeleteRemove
<1>6. ASSUME NEW p \in Pair, SyncStep(p) \/ SyncLost(p), ~MergeUpsert(p) PROVE reg'[n] = reg[n]
  BY <1>6 DEF SyncStep, SyncLost, SyncBegin, MergeRequest, MergeSaveCopy, MergeSaveCommit,
     MergeApplied, MergeAnswer
<1>7. CASE UNCHANGED vars
  BY <1>7 DEF vars
<1> QED BY <1>1, <1>2, <1>3, <1>4, <1>5, <1>6, <1>7 DEF Next

\* Every step keeps the invariant.
LEMMA NextIInv == IInv /\ [Next]_vars => IInv'
<1> SUFFICES ASSUME IInv, [Next]_vars PROVE IInv'
  OBVIOUS
<1>0. Typed
  BY DEF IInv
<1>1. Typed'
  <2>1. CASE UNCHANGED vars
    BY <1>0, <2>1 DEF vars, Typed
  <2> QED BY <1>0, <2>1, UserType, SyncType, CrashType DEF Next
<1>2. OwnNewestIsHeld'
  <2>1. ASSUME NEW n \in Node, NEW t \in Now(n), NEW gone \in BOOLEAN,
               clock' = [clock EXCEPT ![n] = @ \cup {t}], crashed' = crashed,
               \/ Upsert(n, [node |-> n, at |-> t, tomb |-> gone])
               \/ reg' = [reg EXCEPT ![n] = [node |-> n, at |-> t, tomb |-> gone]]
        PROVE  OwnNewestIsHeld'
    <3> DEFINE e == [node |-> n, at |-> t, tomb |-> gone]
    <3>1. e \in Entry /\ e # NoEntry /\ e.at = t /\ t \in Nat
      BY StorageAssumption DEF Entry, Now, Stamp
    <3>2. /\ \A m \in Node \ {n} : reg'[m] = reg[m]
          /\ reg'[n] \in {e, reg[n]} /\ (reg'[n] # e => ~Newer(e, reg[n]))
      BY <1>0, <2>1, <3>1, UpsertStep DEF Typed
    <3>3. reg'[n] # NoEntry /\ reg'[n].at \in Nat /\ reg'[n].at >= t
      <4>1. CASE reg'[n] = e
        BY <3>1, <4>1
      <4>2. CASE reg'[n] # e
        <5>1. reg[n] # NoEntry /\ reg[n] \in Entry
          BY <1>0, <3>1, <3>2, <4>2 DEF Newer, Typed, MaybeEntry
        <5>2. reg[n].at \in Nat
          BY <5>1, StorageAssumption DEF Entry, Stamp
        <5> QED BY <3>1, <3>2, <4>2, <5>1, <5>2 DEF Newer
      <4> QED BY <4>1, <4>2
    <3> HIDE DEF e
    <3> QED BY <2>1, <3>2, <3>3, HeldMade
  <2>2. ASSUME NEW n \in Node, WriteUpsert(n) PROVE OwnNewestIsHeld'
    <3>1. PICK t \in Now(n) : /\ Upsert(n, [node |-> n, at |-> t, tomb |-> FALSE])
                              /\ clock' = [clock EXCEPT ![n] = @ \cup {t}]
      BY <2>2 DEF WriteUpsert
    <3>2. crashed' = crashed
      BY <2>2 DEF WriteUpsert
    <3> QED BY <2>1, <3>1, <3>2
  <2>3. ASSUME NEW n \in Node, DeleteMark(n) PROVE OwnNewestIsHeld'
    <3>1. PICK t \in Now(n) : /\ reg' = [reg EXCEPT ![n] = [node |-> n, at |-> t, tomb |-> TRUE]]
                              /\ clock' = [clock EXCEPT ![n] = @ \cup {t}]
      BY <2>3 DEF DeleteMark
    <3>2. crashed' = crashed
      BY <2>3 DEF DeleteMark
    <3> QED BY <2>1, <3>1, <3>2
  <2>4. ASSUME NEW n \in Node, Crash(n) PROVE OwnNewestIsHeld'
    BY <2>4 DEF Crash, OwnNewestIsHeld
  <2>5. ASSUME \A n \in Node : ~WriteUpsert(n) /\ ~DeleteMark(n) /\ ~Crash(n)
        PROVE  OwnNewestIsHeld'
    <3>1. \A n \in Node : reg'[n] = reg[n] \/ Newer(reg'[n], reg[n])
      BY <2>5, RegistryStep
    <3>2. clock' = clock /\ crashed' = crashed
      <4>1. ASSUME NEW n \in Node, WriteOpen(n) \/ WriteFails(n) \/ UserStep(n)
            PROVE  clock' = clock /\ crashed' = crashed
        BY <2>5, <4>1 DEF WriteOpen, WriteFails, UserStep, WriteCopied, UserSaveCopy,
           UserSaveCommit, DeleteRemove
      <4>2. ASSUME NEW p \in Pair, SyncStep(p) \/ SyncLost(p)
            PROVE  clock' = clock /\ crashed' = crashed
        BY <4>2 DEF SyncStep, SyncLost, SyncBegin, MergeRequest, MergeUpsert, MergeSaveCopy,
           MergeSaveCommit, MergeApplied, MergeAnswer
      <4>3. CASE UNCHANGED vars
        BY <4>3 DEF vars
      <4> QED BY <2>5, <4>1, <4>2, <4>3 DEF Next
    <3> QED BY <1>1, <3>1, <3>2, HeldFrame
  <2> QED BY <2>2, <2>3, <2>4, <2>5
<1> QED BY <1>1, <1>2 DEF IInv

\* The invariant holds in every state.
LEMMA Invariance == Spec => []IInv
BY InitIInv, NextIInv, PTL DEF Spec

\* Every variable stays in its type; a merge never applies an entry that is not there.
THEOREM TypeCorrect == Spec => []TypeOK
<1>1. IInv => TypeOK
  BY DEF IInv, Typed, TypeOK, UserRecord, UserPosition, SyncPosition, SyncRecord
<1> QED BY Invariance, <1>1, PTL

\* As long as no node crashes, the newest entry ever made is held: the node that made it
\* has it, or a newer one.
THEOREM NewestHeld == Spec => []NewestIsHeld
<1>1. IInv => NewestIsHeld
  BY DEF IInv, OwnNewestIsHeld, NewestIsHeld, Used
<1> QED BY Invariance, <1>1, PTL

\* Whatever a merge decided on and whatever was merged meanwhile, only a Delete on the
\* node itself and a restart replace an entry by an older one.
THEOREM NoRegress == Spec => MergeNeverRegresses
<1>1. IInv /\ [Next]_vars
        => [\A n \in Node : Newer(reg[n], reg'[n]) => user'[n].removes \/ crashed']_vars
  <2> SUFFICES ASSUME IInv, [Next]_vars, NEW n \in Node, Newer(reg[n], reg'[n])
               PROVE  user'[n].removes \/ crashed'
    OBVIOUS
  <2>0. reg[n] \in MaybeEntry /\ reg'[n] \in MaybeEntry /\ user \in [Node -> UserRecord]
    BY NextIInv DEF IInv, Typed, UserRecord
  <2>1. CASE reg'[n] = reg[n] \/ Newer(reg'[n], reg[n])
    BY <2>0, <2>1, NewerEntry
  <2>2. CASE DeleteMark(n)
    BY <2>0, <2>2 DEF DeleteMark, IdleUser
  <2>3. CASE Crash(n)
    BY <2>3 DEF Crash
  <2> QED BY <2>1, <2>2, <2>3, RegistryStep
<1> QED BY Invariance, <1>1, PTL DEF Spec, MergeNeverRegresses

=============================================================================
