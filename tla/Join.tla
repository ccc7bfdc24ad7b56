-------------------------------- MODULE Join --------------------------------
(***************************************************************************)
(* How a node joins a cluster: single-use tokens, the join stream between  *)
(* two agents, the join request over HTTP, and the challenge by which      *)
(* nodes that share the cluster's secret come to trust each other, also    *)
(* after a restart. A join runs between a joiner and the coordinator, so   *)
(* its two ends and the message between them are kept per joiner.          *)
(*                                                                         *)
(* Source: internal/cluster/join.go and its handlers in agent.go and       *)
(* handlers.go.                                                            *)
(***************************************************************************)
EXTENDS Naturals, FiniteSets

CONSTANTS
    Joiner,     \* the nodes that join
    Coord,      \* the node they join
    Token,      \* the tokens it may generate
    Paths,      \* per joiner, how it may come: by "p2p", by "http"
    Near,       \* joiners that discovery finds, on the coordinator's network
    MaxRestart  \* bound: restarts

Machine == Joiner \cup {Coord}

VARIABLES
    token,      \* Token -> unissued, valid, expired (still in joinTokens) or gone
    joiner,     \* the joiner's end of its join: step, path, token
    handler,    \* the coordinator's end: HandleJoinStream or handleJoin
    wire,       \* what is under way between them, "none", or "broken"
    trust,      \* node -> trustedPeers, in memory, as far as joiners and coordinator go
    secret,     \* node -> clusterSecret in memory: its own or the cluster's
    disk,       \* node -> the file cluster-secret
    auth,       \* challenges answered and not yet verified: from, to, secret used
    restarts,
    admitted    \* Token -> who was admitted with it, and by which path (history)

vars == <<token, joiner, handler, wire, trust, secret, disk, auth, restarts, admitted>>

Cluster == "cluster"

Init ==
    /\ token = [t \in Token |-> "unissued"]
    /\ joiner = [j \in Joiner |-> [pc |-> "idle", path |-> "p2p", tok |-> CHOOSE t \in Token : TRUE]]
    /\ handler = [j \in Joiner |-> "none"]
    /\ wire = [j \in Joiner |-> "none"]
    /\ trust = [n \in Machine |-> {n}]
    /\ secret = [n \in Machine |-> IF n = Coord THEN Cluster ELSE "own"]
    /\ disk = secret
    /\ auth = {}
    /\ restarts = 0
    /\ admitted = [t \in Token |-> {}]

Now(j, pc) == joiner' = [joiner EXCEPT ![j].pc = pc]
Handle(j, pc) == handler' = [handler EXCEPT ![j] = pc]
Send(j, message) == wire' = [wire EXCEPT ![j] = message]

-----------------------------------------------------------------------------
(* Tokens.                                                                     *)

\* A token is generated, after the expired ones are thrown away.
GenerateJoinToken(t) ==
    /\ token[t] = "unissued"
    /\ token' = [u \in Token |-> IF u = t THEN "valid"
                                 ELSE IF token[u] = "expired" THEN "gone" ELSE token[u]]
    /\ UNCHANGED <<joiner, handler, wire, trust, secret, disk, auth, restarts, admitted>>

\* Its ten minutes pass.
TokenExpires(t) ==
    /\ token[t] = "valid"
    /\ token' = [token EXCEPT ![t] = "expired"]
    /\ UNCHANGED <<joiner, handler, wire, trust, secret, disk, auth, restarts, admitted>>

-----------------------------------------------------------------------------
(* The join stream: nonce, answer, encrypted secret, node information.         *)

Started(t) == token[t] # "unissued"     \* the token was shown to somebody

ConnectAndJoinP2P(j, t) ==
    /\ joiner[j].pc = "idle" /\ handler[j] = "none" /\ Started(t) /\ "p2p" \in Paths[j]
    /\ joiner' = [joiner EXCEPT ![j] = [pc |-> "nonce", path |-> "p2p", tok |-> t]]
    /\ Handle(j, "match") /\ Send(j, "nonce")
    /\ UNCHANGED <<token, trust, secret, disk, auth, restarts, admitted>>

Respond(j) ==
    /\ joiner[j].pc = "nonce" /\ wire[j] = "nonce"
    /\ Now(j, "secret") /\ Send(j, "hmac")
    /\ UNCHANGED <<token, handler, trust, secret, disk, auth, restarts, admitted>>

\* The answer is compared with every token; those found expired on the way are
\* deleted, and the one that matches is consumed at once.  The secret, encrypted
\* under it, follows.
\* Fault: the token is consumed when the node has been admitted.
MatchTokenKeeps(j) ==
    /\ handler[j] = "match" /\ wire[j] = "hmac"
    /\ IF token[joiner[j].tok] = "valid" THEN Handle(j, "info") /\ Send(j, "secret")
       ELSE Handle(j, "none") /\ Send(j, "broken")
    /\ UNCHANGED <<token, joiner, trust, secret, disk, auth, restarts, admitted>>
MatchToken(j) ==
    /\ handler[j] = "match" /\ wire[j] = "hmac"
    /\ LET t == joiner[j].tok
           passed == token[t] = "valid"
       IN \E dropped \in SUBSET {u \in Token : token[u] = "expired"} :
            /\ ~passed => dropped = {u \in Token : token[u] = "expired"}
            /\ token' = [u \in Token |-> IF u \in dropped \/ (passed /\ u = t) THEN "gone"
                                         ELSE token[u]]
            /\ IF passed THEN Handle(j, "info") /\ Send(j, "secret")
               ELSE Handle(j, "none") /\ Send(j, "broken")
    /\ UNCHANGED <<joiner, trust, secret, disk, auth, restarts, admitted>>

\* The joiner can decrypt, for it holds the token the coordinator matched; it sends
\* what it is and returns.
SendInfo(j) ==
    /\ joiner[j].pc = "secret" /\ wire[j] = "secret"
    /\ Now(j, "adopt") /\ Send(j, "info")
    /\ UNCHANGED <<token, handler, trust, secret, disk, auth, restarts, admitted>>

Admit(j) ==
    /\ trust' = [trust EXCEPT ![Coord] = @ \cup {j}]
    /\ admitted' = [admitted EXCEPT ![joiner[j].tok] = @ \cup {<<j, joiner[j].path>>}]

Onboard(j) ==
    /\ handler[j] = "info" /\ wire[j] = "info"
    /\ Admit(j)
    /\ Handle(j, "none") /\ Send(j, "none")
    /\ UNCHANGED <<token, joiner, secret, disk, auth, restarts>>

\* Set the secret, write it (a failure is only logged), trust the coordinator.
AdoptP2P(j) ==
    /\ joiner[j].pc = "adopt" /\ joiner[j].path = "p2p"
    /\ Now(j, "joined")
    /\ secret' = [secret EXCEPT ![j] = Cluster]
    /\ \E written \in BOOLEAN : disk' = IF written THEN [disk EXCEPT ![j] = Cluster] ELSE disk
    /\ trust' = [trust EXCEPT ![j] = @ \cup {Coord}]
    /\ UNCHANGED <<token, handler, wire, auth, restarts, admitted>>

-----------------------------------------------------------------------------
(* The join request: validate, dial the joiner, use the token, admit.          *)

PostJoin(j, t) ==
    /\ joiner[j].pc = "idle" /\ handler[j] = "none" /\ Started(t) /\ "http" \in Paths[j]
    /\ joiner' = [joiner EXCEPT ![j] = [pc |-> "reply", path |-> "http", tok |-> t]]
    /\ Handle(j, "validate") /\ Send(j, "request")
    /\ UNCHANGED <<token, trust, secret, disk, auth, restarts, admitted>>

ValidateJoinToken(j) ==
    /\ handler[j] = "validate"
    /\ IF token[joiner[j].tok] = "valid" THEN Handle(j, "dial") /\ UNCHANGED wire
       ELSE Handle(j, "none") /\ Send(j, "broken")
    /\ UNCHANGED <<token, joiner, trust, secret, disk, auth, restarts, admitted>>

DialJoiner(j) ==
    /\ handler[j] = "dial"
    /\ \/ Handle(j, "use") /\ UNCHANGED wire
       \/ Handle(j, "none") /\ Send(j, "broken")
    /\ UNCHANGED <<token, joiner, trust, secret, disk, auth, restarts, admitted>>

\* What UseJoinToken answers is not looked at.
UseJoinToken(j) ==
    /\ handler[j] = "use"
    /\ token' = [token EXCEPT ![joiner[j].tok] = "gone"]
    /\ Handle(j, "admit")
    /\ UNCHANGED <<joiner, wire, trust, secret, disk, auth, restarts, admitted>>

\* The answer carries the encrypted secret and the node list.
AdmitRequest(j) ==
    /\ handler[j] = "admit"
    /\ Admit(j)
    /\ Handle(j, "none")
    /\ IF wire[j] = "broken" THEN UNCHANGED wire ELSE Send(j, "reply")
    /\ UNCHANGED <<token, joiner, secret, disk, auth, restarts>>

AdoptReply(j) ==
    /\ joiner[j].pc = "reply" /\ wire[j] = "reply"
    /\ Now(j, "joined") /\ Send(j, "none")
    /\ secret' = [secret EXCEPT ![j] = Cluster]
    /\ \E written \in BOOLEAN : disk' = IF written THEN [disk EXCEPT ![j] = Cluster] ELSE disk
    /\ trust' = [trust EXCEPT ![j] = @ \cup {Coord}]
    /\ UNCHANGED <<token, handler, auth, restarts, admitted>>

-----------------------------------------------------------------------------
(* Streams break and deadlines pass; the end that waits gives up.              *)

Break(j) ==
    /\ wire[j] # "broken"
    /\ handler[j] # "none" \/ joiner[j].pc \in {"nonce", "secret", "reply"}
    /\ Send(j, "broken")
    /\ UNCHANGED <<token, joiner, handler, trust, secret, disk, auth, restarts, admitted>>

HandlerGivesUp(j) ==
    /\ wire[j] = "broken" /\ handler[j] \in {"match", "info"}
    /\ Handle(j, "none")
    /\ UNCHANGED <<token, joiner, wire, trust, secret, disk, auth, restarts, admitted>>

JoinerGivesUp(j) ==
    /\ wire[j] = "broken" /\ joiner[j].pc \in {"nonce", "secret", "reply"}
    /\ Now(j, "idle")
    /\ UNCHANGED <<token, handler, wire, trust, secret, disk, auth, restarts, admitted>>

-----------------------------------------------------------------------------
(* A node found by discovery: the one that finds answers the other's challenge *)
(* and trusts it without waiting for the verdict; the other verifies.          *)

RespondToChallenge(a, b) ==
    /\ \A x \in auth : <<x[1], x[2]>> # <<a, b>>
    /\ trust' = [trust EXCEPT ![a] = @ \cup {b}]
    /\ auth' = auth \cup {<<a, b, secret[a]>>}
    /\ UNCHANGED <<token, joiner, handler, wire, secret, disk, restarts, admitted>>

\* Fault: an answer is compared with the secret of the node that gave it first.
ChallengeHandshakeOnce(a, b) ==
    \E s \in {"own", Cluster} :
        /\ <<a, b, s>> \in auth
        /\ auth' = auth \ {<<a, b, s>>}
        /\ trust' = IF s = secret[b] /\ b \notin trust[a]
                    THEN [trust EXCEPT ![b] = @ \cup {a}] ELSE trust
        /\ UNCHANGED <<token, joiner, handler, wire, secret, disk, restarts, admitted>>
ChallengeHandshake(a, b) ==
    \E s \in {"own", Cluster} :
        /\ <<a, b, s>> \in auth
        /\ auth' = auth \ {<<a, b, s>>}
        /\ trust' = IF s = secret[b] /\ s = Cluster THEN [trust EXCEPT ![b] = @ \cup {a}] ELSE trust
        /\ UNCHANGED <<token, joiner, handler, wire, secret, disk, restarts, admitted>>

ChallengeTimesOut(a, b) ==
    /\ \E s \in {"own", Cluster} : <<a, b, s>> \in auth /\ auth' = auth \ {<<a, b, s>>}
    /\ UNCHANGED <<token, joiner, handler, wire, trust, secret, disk, restarts, admitted>>

\* A node is removed from the coordinator's dashboard.
Remove(j) ==
    /\ j \in trust[Coord]
    /\ trust' = [trust EXCEPT ![Coord] = @ \ {j}]
    /\ UNCHANGED <<token, joiner, handler, wire, secret, disk, auth, restarts, admitted>>

\* A restart keeps the file only.
Restart(n) ==
    /\ restarts < MaxRestart /\ restarts' = restarts + 1
    /\ trust' = [trust EXCEPT ![n] = {n}]
    /\ secret' = [secret EXCEPT ![n] = disk[n]]
    /\ auth' = {x \in auth : x[1] # n /\ x[2] # n}
    /\ IF n = Coord
       THEN /\ token' = [t \in Token |-> IF token[t] = "unissued" THEN "unissued" ELSE "gone"]
            /\ handler' = [j \in Joiner |-> "none"]
            /\ wire' = [j \in Joiner |-> "broken"]
            /\ UNCHANGED joiner
       ELSE /\ wire' = [wire EXCEPT ![n] = "broken"]
            /\ joiner' = [joiner EXCEPT ![n].pc = "idle"]
            /\ UNCHANGED <<token, handler>>
    /\ UNCHANGED <<disk, admitted>>

-----------------------------------------------------------------------------
Join(j) ==
    \/ \E t \in Token : ConnectAndJoinP2P(j, t) \/ PostJoin(j, t)
    \/ Respond(j) \/ MatchToken(j) \/ SendInfo(j)
    \/ Onboard(j) \/ AdoptP2P(j) \/ ValidateJoinToken(j) \/ DialJoiner(j) \/ UseJoinToken(j)
    \/ AdmitRequest(j) \/ AdoptReply(j) \/ Break(j) \/ HandlerGivesUp(j) \/ JoinerGivesUp(j)
    \/ Remove(j)

Authenticate(a, b) == RespondToChallenge(a, b) \/ ChallengeHandshake(a, b) \/ ChallengeTimesOut(a, b)

Next ==
    \/ \E t \in Token : GenerateJoinToken(t) \/ TokenExpires(t)
    \/ \E j \in Joiner : Join(j)
    \/ \E j \in Near : Authenticate(j, Coord) \/ Authenticate(Coord, j)
    \/ \E n \in Machine : Restart(n)

\* Discovery finds a node again and again, and challenges do not time out for ever.
Fairness == \A j \in Near : SF_vars(RespondToChallenge(j, Coord))
                          /\ SF_vars(ChallengeHandshake(j, Coord))

Spec == Init /\ [][Next]_vars /\ Fairness

-----------------------------------------------------------------------------
TypeOK ==
    /\ token \in [Token -> {"unissued", "valid", "expired", "gone"}]
    /\ joiner \in [Joiner -> [pc : {"idle", "nonce", "secret", "adopt", "reply", "joined"},
                              path : {"p2p", "http"}, tok : Token]]
    /\ handler \in [Joiner -> {"none", "match", "info", "validate", "dial", "use", "admit"}]
    /\ wire \in [Joiner -> {"none", "broken", "nonce", "hmac", "secret", "info",
                            "request", "reply"}]
    /\ trust \in [Machine -> SUBSET Machine]
    /\ secret \in [Machine -> {"own", Cluster}] /\ disk \in [Machine -> {"own", Cluster}]
    /\ auth \subseteq (Machine \X Machine \X {"own", Cluster})
    /\ restarts \in 0 .. MaxRestart
    /\ admitted \in [Token -> SUBSET (Joiner \X {"p2p", "http"})]

\* A token admits at most one node (join.go:118, join.go:60).
SingleUse == \A t \in Token : Cardinality({a[1] : a \in admitted[t]}) <= 1

\* By the join stream a token admits at most one node, however many streams answer
\* their challenges with it at the same time (join.go:314).
SingleUseByStream == \A t \in Token : Cardinality({a \in admitted[t] : a[2] = "p2p"}) <= 1

\* A node nearby that has the cluster's secret on disk is trusted by the coordinator sooner or
\* later, even when its join broke after the token was consumed, or either of them
\* restarted (join.go:314, agent.go:506).
SecretGetsTrusted == \A j \in Near : disk[j] = Cluster ~> j \in trust[Coord]
====
