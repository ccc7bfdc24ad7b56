------------------------------- MODULE Memory -------------------------------
(***************************************************************************)
(* The private memories of a user: added by hand or by the extraction of a *)
(* chat, recognised as duplicates by the similarity of their embeddings,   *)
(* counted, evicted when there are too many, and saved as one encrypted    *)
(* file. The embedding of a content is taken from a model server, before   *)
(* the lock is taken; contents of one embedding are not told apart.        *)
(*                                                                         *)
(* Source: internal/memory.                                                *)
(***************************************************************************)
EXTENDS Naturals, FiniteSets

CONSTANTS
    Caller,     \* requests and extractions that run side by side
    Content,    \* contents of memories, each standing for its embedding
    Similar,    \* pairs of contents with a cosine similarity above 0.95
    MaxCount,   \* maxMemoryCount
    MaxAdds,    \* bound: memories created
    TopK        \* how many memories a chat asks for

MemoryAssumption == Content # {} /\ MaxCount \in Nat /\ MaxAdds \in Nat

VARIABLES
    mems,       \* the memories: id (in their order), content, the content embedded
    used,       \* pairs of their ids: the first was used (LastUsedAt) before the second
    disk,       \* what memories.json holds: both
    created,    \* memories created so far
    caller      \* what each caller does: step, content, ids found

vars == <<mems, used, disk, created, caller>>

Idle == [pc |-> "idle", content |-> CHOOSE c \in Content : TRUE, found |-> {}]

Init ==
    /\ mems = {} /\ used = {} /\ disk = [mems |-> {}, used |-> {}]
    /\ created = 0
    /\ caller = [p \in Caller |-> Idle]

At(p, pc) == caller[p].pc = pc
Return(p) == caller' = [caller EXCEPT ![p] = Idle]
IdsOf(S) == {m.id : m \in S}
Ids == IdsOf(mems)

\* save: a temporary file and a rename, or an error that leaves the file as it was.
Save == disk' \in {[mems |-> mems', used |-> used'], disk}

\* r has every two members of S in one order.
Orders(r, S) ==
    /\ \A a, b \in S : a = b \/ <<a, b>> \in r \/ <<b, a>> \in r
    /\ \A a, b \in S : <<a, b>> \in r => <<b, a>> \notin r
    /\ \A a, b, c \in S : <<a, b>> \in r /\ <<b, c>> \in r => <<a, c>> \in r

\* The order r without those of S.
Without(r, S) == {p \in r : p[1] \notin S /\ p[2] \notin S}
\* The memories of S were used now, one after the other.
Touch(S) ==
    \E r \in SUBSET (S \X S) :
        Orders(r, S) /\ used' = Without(used, S) \cup ((Ids \ S) \X S) \cup r

-----------------------------------------------------------------------------
\* The embedding comes without the lock, or does not come.
Embed(p, c) ==
    /\ At(p, "idle")
    /\ caller' \in {[caller EXCEPT ![p] = [Idle EXCEPT !.pc = "add", !.content = c]],
                    [caller EXCEPT ![p] = [Idle EXCEPT !.pc = "search"]]}
    /\ UNCHANGED <<mems, used, disk, created>>

IsSimilar(a, b) == a = b \/ <<a, b>> \in Similar \/ <<b, a>> \in Similar
Duplicates(c) == {m \in mems : IsSimilar(m.embedded, c)}

\* Fault: the duplicate takes the embedding too.
RefreshEmbedding(m, c) ==
    /\ mems' = (mems \ {m}) \cup {[m EXCEPT !.content = c, !.embedded = c]}
    /\ Touch({m.id})
    /\ UNCHANGED created

\* A duplicate takes the content and keeps its embedding.
Refresh(m, c) ==
    /\ mems' = (mems \ {m}) \cup {[m EXCEPT !.content = c]}
    /\ Touch({m.id})
    /\ UNCHANGED created

\* Those of S that none of S was used before.
LeastRecent(S, order) == {m \in S : \A n \in S : <<n.id, m.id>> \notin order}

\* A new memory is appended and the least recently used one goes when they are too many.
Create(c) ==
    LET id == created + 1
        all == mems \cup {[id |-> id, content |-> c, embedded |-> c]}
        order == used \cup (Ids \X {id})
        evicted == IF Cardinality(all) > MaxCount THEN LeastRecent(all, order) ELSE {}
    IN /\ created < MaxAdds /\ created' = id
       /\ mems' = all \ evicted
       /\ used' = Without(order, IdsOf(evicted))

AddMemory(p) ==
    /\ At(p, "add")
    /\ LET c == caller[p].content
           dups == Duplicates(c)
       IN IF dups = {} THEN Create(c)
          ELSE Refresh(CHOOSE m \in dups : \A n \in dups : m.id <= n.id, c)
    /\ Save
    /\ Return(p)

\* InjectMemoryContext: the most similar memories are found under the read lock; those
\* that are not suspicious are marked as used under the lock, if they are still there.
SearchMemories(p) ==
    /\ At(p, "search")
    /\ \E S \in SUBSET Ids :
          /\ Cardinality(S) <= TopK
          /\ caller' = [caller EXCEPT ![p].pc = IF S = {} THEN "idle" ELSE "mark", ![p].found = S]
    /\ UNCHANGED <<mems, used, disk, created>>

MarkUsed(p) ==
    /\ At(p, "mark")
    /\ Touch(caller[p].found \cap Ids)
    /\ UNCHANGED <<mems, created>>
    /\ Save
    /\ Return(p)

\* An unknown id is an error.
DeleteMemory(id) ==
    /\ id \in Ids
    /\ mems' = {m \in mems : m.id # id}
    /\ used' = Without(used, {id})
    /\ Save
    /\ UNCHANGED <<created, caller>>

ClearAll ==
    /\ mems # {}
    /\ mems' = {} /\ used' = {}
    /\ Save
    /\ UNCHANGED <<created, caller>>

\* The process ends; the next one loads the file and writes it back.
Restart ==
    /\ <<mems, used>> # <<disk.mems, disk.used>> \/ \E p \in Caller : caller[p] # Idle
    /\ mems' = disk.mems /\ used' = disk.used
    /\ caller' = [p \in Caller |-> Idle]
    /\ UNCHANGED <<disk, created>>

Next ==
    \/ \E p \in Caller : \/ \E c \in Content : Embed(p, c)
                         \/ AddMemory(p) \/ SearchMemories(p) \/ MarkUsed(p)
    \/ \E id \in Ids : DeleteMemory(id)
    \/ ClearAll \/ Restart

Spec == Init /\ [][Next]_vars

-----------------------------------------------------------------------------
TypeOK ==
    /\ {mems, disk.mems} \subseteq
         SUBSET [id : 1 .. MaxAdds, content : Content, embedded : Content]
    /\ {used, disk.used} \subseteq SUBSET ((1 .. MaxAdds) \X (1 .. MaxAdds))
    /\ created \in 0 .. MaxAdds
    /\ caller \in [Caller -> [pc : {"idle", "add", "search", "mark"}, content : Content,
                              found : SUBSET (1 .. MaxAdds)]]

\* However calls interleave between their embeddings and their locks, whatever was evicted,
\* deleted or reloaded: no two memories have similar embeddings, there are never more than
\* the cap, and each has its place in the order of eviction (memory.go:271, memory.go:246).
MemoriesAreDistinct ==
    /\ \A m, n \in mems : m # n => m.id # n.id /\ ~IsSimilar(m.embedded, n.embedded)
    /\ Cardinality(mems) <= MaxCount
    /\ used \subseteq Ids \X Ids /\ Orders(used, Ids)
=============================================================================
