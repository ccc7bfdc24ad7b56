------------------------------- MODULE Search -------------------------------
(***************************************************************************)
(* A search of the knowledge bases of a cluster (internal/brain: Search of *)
(* retriever.go, LocalSearch of store.go, handleQueryStream of brain.go):  *)
(* the node asks itself and its online peers for their best chunks, waits  *)
(* for all answers or a timeout, and merges what has come.  After the      *)
(* timeout it merges without the lock, while answers may still come.  The  *)
(* embedding and the graph of vectors are external: a graph knows the      *)
(* chunks nearest to a query, also those whose text is gone.  A file that  *)
(* is stored under two names has its chunks twice.                         *)
(***************************************************************************)
EXTENDS Integers, FiniteSets, SequencesExt

CONSTANTS
    Self, Peer,
    TopK,       \* chunks that are asked for
    MaxTopK,    \* chunks that a peer returns at most (100)
    Indexes     \* what the nodes may have: functions to sets of [id, chunk, score, known]

SearchAssumption ==
    /\ TopK \in Nat /\ MaxTopK \in Nat
    /\ \A f \in Indexes : \A n \in Peer \cup {Self} :
         /\ IsFiniteSet(f[n])
         /\ \A x \in f[n] : x.score \in Int /\ x.known \in BOOLEAN

VARIABLES
    index,      \* the knowledge base of each node
    search,     \* "start", "wait", "merge", "sort", "cut", "return", "done", "failed"
    results,    \* its variable of this name
    seen,       \* what deduplicateResults has read of it
    query,      \* per peer the goroutine that asks it: "off", "ask", "append", "over"; what came
    heard,      \* history: the nodes whose answer was appended before the merge
    raced       \* history: an answer was appended during the merge

vars == <<index, search, results, seen, query, heard, raced>>

Holder == Peer \cup {Self}
NoQuery == [pc |-> "off", found |-> {}]
Smaller(a, b) == IF a < b THEN a ELSE b

Init ==
    /\ index \in Indexes
    /\ search = "start" /\ results = <<>> /\ seen = <<>>
    /\ query = [p \in Peer |-> NoQuery]
    /\ heard = {} /\ raced = FALSE

\* The k chunks of a set with the best scores.
Best(k, found) ==
    {S \in SUBSET found : /\ Cardinality(S) = Smaller(k, Cardinality(found))
                          /\ \A x \in S, y \in found \ S : x.score >= y.score}

\* LocalSearch: of the nearest vectors those that have metadata.
Hit(x) == [chunk |-> x.chunk, score |-> x.score]
LocalSearch(n, k) == {{Hit(x) : x \in {y \in S : y.known}} : S \in Best(k, index[n])}

\* How many chunks a node is asked for.
Asked(n) == IF n = Self THEN TopK ELSE Smaller(TopK, MaxTopK)

-----------------------------------------------------------------------------
\* The own knowledge base, and a goroutine for every online peer.
Begin ==
    /\ search = "start"
    /\ \E found \in LocalSearch(Self, Asked(Self)), online \in SUBSET Peer :
         /\ results' = SetToSeq(found)
         /\ query' = [p \in Peer |-> [NoQuery EXCEPT !.pc = IF p \in online THEN "ask" ELSE "off"]]
    /\ search' = "wait" /\ heard' = {Self}
    /\ UNCHANGED <<index, seen, raced>>

\* queryRemoteNode: a stream that fails or runs into its deadline is only logged.
Unanswered(p) ==
    /\ query[p].pc = "ask"
    /\ query' = [query EXCEPT ![p].pc = "over"]
    /\ UNCHANGED <<index, search, results, seen, heard, raced>>

\* The peer that is asked trusts the asker, or the stream fails.
Answer(p) ==
    /\ query[p].pc = "ask"
    /\ \E found \in LocalSearch(p, Asked(p)) :
         query' = [query EXCEPT ![p] = [pc |-> "append", found |-> found]]
    /\ UNCHANGED <<index, search, results, seen, heard, raced>>

\* The append is under the search's lock, the merge is not: it may append to what the merge
\* has just replaced.
Over == search \in {"done", "failed"}
Collect(p) ==
    /\ query[p].pc = "append"
    /\ query' = [query EXCEPT ![p].pc = "over"]
    /\ IF Over THEN UNCHANGED <<results, heard, raced>>
       ELSE /\ \E old \in {results} \cup IF search = "wait" THEN {} ELSE {seen} :
                 results' = old \o SetToSeq(query[p].found)
            /\ heard' = IF search = "wait" THEN heard \cup {p} ELSE heard
            /\ raced' = (raced \/ search # "wait")
    /\ UNCHANGED <<index, search, seen>>

\* All goroutines have ended or the time is over, which may be at once, and
\* deduplicateResults reads the answers; or the request has ended.
Wait ==
    /\ search = "wait"
    /\ \/ search' = "merge" /\ seen' = results
       \/ search' = "failed" /\ UNCHANGED seen
    /\ UNCHANGED <<index, results, query, heard, raced>>

\* Fault: the first occurrence of a chunk is kept.
DeduplicatedFirst(s) ==
    {s[i] : i \in {i \in DOMAIN s : \A j \in 1 .. i - 1 : s[j].chunk # s[i].chunk}}

\* Of the occurrences of a chunk the one with the highest score, in any order.
Deduplicated(s) == {x \in ToSet(s) : \A y \in ToSet(s) : y.chunk = x.chunk => y.score <= x.score}

Merge ==
    /\ search = "merge"
    /\ results' = SetToSeq(Deduplicated(seen))
    /\ search' = "sort"
    /\ UNCHANGED <<index, seen, query, heard, raced>>

Descending(s) == \A i, j \in DOMAIN s : i < j => s[i].score >= s[j].score

\* sort.Slice, which keeps no order among equals.
Sort ==
    /\ search = "sort"
    /\ results' \in {[i \in DOMAIN results |-> results[t[i]]] :
                       t \in {t \in SetToSeqs(DOMAIN results) :
                                Descending([i \in DOMAIN results |-> results[t[i]]])}}
    /\ search' = "cut"
    /\ UNCHANGED <<index, seen, query, heard, raced>>

Cut ==
    /\ search = "cut"
    /\ results' = SubSeq(results, 1, Smaller(Len(results), TopK))
    /\ search' = "return"
    /\ UNCHANGED <<index, seen, query, heard, raced>>

Return ==
    /\ search = "return"
    /\ search' = "done"
    /\ UNCHANGED <<index, results, seen, query, heard, raced>>

-----------------------------------------------------------------------------
Next == \/ Begin \/ Wait \/ Merge \/ Sort \/ Cut \/ Return
        \/ \E p \in Peer : Unanswered(p) \/ Answer(p) \/ Collect(p)
Spec == Init /\ [][Next]_vars

-----------------------------------------------------------------------------
Hits == UNION {{Hit(x) : x \in f[n]} : f \in Indexes, n \in Holder}
TypeOK ==
    /\ index \in Indexes
    /\ search \in {"start", "wait", "merge", "sort", "cut", "return", "done", "failed"}
    /\ results \in Seq(Hits) /\ seen \in Seq(Hits)
    /\ query \in [Peer -> [pc : {"off", "ask", "append", "over"}, found : SUBSET Hits]]
    /\ heard \subseteq Holder /\ raced \in BOOLEAN

\* The answer of a search has no chunk twice and the best first; and no chunk of a node that
\* was heard in time is left out for a worse one, although every node is asked for its
\* best only (retriever.go:41 "coordinates a cluster-wide semantic search query").  Answers
\* that come during the merge, vectors whose text is gone and chunks that a node has twice
\* take this away.
Whole == {n \in heard : \A x \in index[n] :
                           x.known /\ \A y \in index[n] : y.chunk = x.chunk => y = x}
NoBetterLeftOut ==
    search = "done" /\ ~raced =>
        /\ Descending(results)
        /\ \A i, j \in DOMAIN results : results[i].chunk = results[j].chunk => i = j
        /\ \A n \in Whole : \A x \in index[n] :
             \/ \E i \in DOMAIN results : results[i].chunk = x.chunk /\ results[i].score >= x.score
             \/ /\ Asked(n) <= Len(results)
                /\ \A i \in 1 .. Asked(n) : results[i].score >= x.score

\* Not an invariant: no more than TopK chunks are returned; answers that come during the
\* merge are appended to what was cut (retriever.go:99).
AtMostTopK == search = "done" => Len(results) <= TopK
=============================================================================
