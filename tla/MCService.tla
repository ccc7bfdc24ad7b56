------------------------------ MODULE MCService ------------------------------
(***************************************************************************)
(* The parts of a node that serve others and share no state here: circuit  *)
(* breakers, joins, chats and agents.  The variable part says which of     *)
(* them a behaviour is about, and the others stay as they begin.  Every    *)
(* part keeps its own fairness.                                            *)
(***************************************************************************)
EXTENDS CircuitBreaker

CONSTANTS
    \* Inference
    Chat, Requester, Worker, Nobody, OwnerOf, Length, MaxRounds,
    \* Agents
    Root, Sub, ParentOf, MaxSteps, Buffer,
    \* Join
    Joiner, Coord, Token, Near, Paths, MaxRestart

\* A parent is an agent, a chat begins somewhere, and the coordinator does not join itself.
ASSUME ServiceAssumption ==
    /\ OwnerOf \in [Chat -> Requester] /\ Length \in Nat \ {0} /\ MaxRounds \in Nat \ {0}
    /\ Root \cap Sub = {} /\ ParentOf \in [Sub -> Root \cup Sub]
    /\ MaxSteps \in Nat /\ Buffer \in Nat \ {0}
    /\ Coord \notin Joiner /\ Near \subseteq Joiner /\ Token # {} /\ MaxRestart \in Nat

VARIABLES
    part,
    \* Inference
    iNextID, iChat, iSessions, iGone, iServing, iActive, iWire,
    \* Agents
    aStatus, aLoop, aCancelled, aCancels, aAsked, aRemote, aServing, aChannel, aStream,
    aAnswer, aPanicked,
    \* Join
    jToken, jJoiner, jHandler, jWire, jTrust, jSecret, jDisk, jAuth, jRestarts, jAdmitted

inference == <<iNextID, iChat, iSessions, iGone, iServing, iActive, iWire>>
agents == <<aStatus, aLoop, aCancelled, aCancels, aAsked, aRemote, aServing, aChannel,
            aStream, aAnswer, aPanicked>>
joins == <<jToken, jJoiner, jHandler, jWire, jTrust, jSecret, jDisk, jAuth, jRestarts, jAdmitted>>

Llm == INSTANCE Inference WITH
    Node <- Requester, Owner <- OwnerOf,
    nextID <- iNextID, chat <- iChat, sessions <- iSessions, gone <- iGone,
    serving <- iServing, active <- iActive, wire <- iWire

Swarm == INSTANCE Agents WITH
    status <- aStatus, loop <- aLoop, cancelled <- aCancelled, cancels <- aCancels,
    asked <- aAsked, remote <- aRemote, serving <- aServing, channel <- aChannel,
    stream <- aStream, answer <- aAnswer, panicked <- aPanicked

J == INSTANCE Join WITH
    token <- jToken, joiner <- jJoiner, handler <- jHandler, wire <- jWire, trust <- jTrust,
    secret <- jSecret, disk <- jDisk, auth <- jAuth, restarts <- jRestarts,
    admitted <- jAdmitted

\* In the run: all chats begin at one node, and the first agent spawns the others; who is
\* near the coordinator may also join over HTTP.
OneOwner == [c \in Chat |-> CHOOSE n \in Requester : TRUE]
OneParent == [c \in Sub |-> CHOOSE x \in Root : TRUE]
NearByHttp == [j \in Joiner |-> IF j \in Near THEN {"p2p", "http"} ELSE {"p2p"}]

all == <<part, vars, inference, agents, joins>>

ServiceInit ==
    /\ part \in {"breaker", "inference", "agents", "join"}
    /\ Init /\ Llm!Init /\ Swarm!Init /\ J!Init

ServiceNext ==
    /\ UNCHANGED part
    /\ \/ part = "breaker" /\ Next /\ UNCHANGED <<inference, agents, joins>>
       \/ part = "inference" /\ Llm!Next /\ UNCHANGED <<vars, agents, joins>>
       \/ part = "agents" /\ Swarm!Next /\ UNCHANGED <<vars, inference, joins>>
       \/ part = "join" /\ J!Next /\ UNCHANGED <<vars, inference, agents>>

ServiceFairness ==
    /\ WF_vars(part = "breaker" /\ Tick)
    /\ \A s \in Slot : /\ WF_vars(part = "breaker" /\ SelectStep(s))
                       /\ WF_vars(part = "breaker" /\ End(s))
    /\ \A c \in Chat : WF_inference(part = "inference" /\ Llm!Coordinate(c))
    /\ \A r \in Llm!Run : WF_inference(part = "inference" /\ Llm!Serve(r))
    /\ \A x \in Root \cup Sub : WF_agents(part = "agents" /\ Swarm!Loop(x))
    /\ \A c \in Sub : WF_agents(part = "agents" /\ Swarm!Spawn(c))
    /\ \A j \in Near : /\ SF_joins(part = "join" /\ J!RespondToChallenge(j, Coord))
                       /\ SF_joins(part = "join" /\ J!ChallengeHandshake(j, Coord))

ServiceSpec == ServiceInit /\ [][ServiceNext]_all /\ ServiceFairness

-----------------------------------------------------------------------------
(* The properties of the parts *)

\* Every variable of every part stays in its type.
TypesOK == TypeOK /\ Llm!TypeOK /\ Swarm!TypeOK /\ J!TypeOK

\* The answer a chat ends with is whole (Inference!AnswerIsWhole), and over the join stream
\* a token admits one node (Join!SingleUseByStream).
ServiceIsSound == Llm!AnswerIsWhole /\ J!SingleUseByStream

\* A running agent has a loop and can be stopped (Agents!RunningCanBeStopped).
RunningCanBeStopped == Swarm!RunningCanBeStopped

\* A chat that was started ends (Inference!ChatEnds).
ChatEnds == part = "inference" => Llm!ChatEnds

\* A parent does not wait for ever for its sub-agent (Agents!WaitEnds).
WaitEnds == part = "agents" => Swarm!WaitEnds

\* Nodes that share the secret and meet come to trust each other (Join!SecretGetsTrusted).
SecretGetsTrusted == part = "join" => J!SecretGetsTrusted

=============================================================================
