----------------------------- MODULE Inference ------------------------------
(***************************************************************************)
(* Chats of the language model: rounds of an answer and its tool calls,    *)
(* each answer made by the local model server or streamed from a worker    *)
(* that the coordinator chose, with the local server as fallback.  A run   *)
(* of a model gives Length tokens, the last of them marked done, and ends  *)
(* in plain text or in tool calls.  The model servers are external.        *)
(*                                                                         *)
(* Source: internal/llm (distrib_*.go, manager.go, pipeline.go,            *)
(* ollama.go).                                                             *)
(***************************************************************************)
EXTENDS Naturals, SequencesExt

CONSTANTS
    Chat,       \* chats that users start
    Node,       \* nodes where they start them
    Owner,      \* Chat -> Node
    Worker,     \* nodes that may serve others' chats
    Nobody,
    Length,     \* tokens of an answer
    MaxRounds   \* maxToolRounds

VARIABLES
    nextID,     \* per node: sessions numbered so far
    chat,       \* step, session id, round, tokens shown, outcome, error announced
    sessions,   \* chats whose cancel function is registered
    gone,       \* chats whose context is cancelled: by the user or by a request's end
    serving,    \* per chat and round: what its run on a worker does
    active,     \* worker -> the runs whose cancel function it holds, by the session's id
    wire        \* per chat: frames on the way from the worker it reads from

vars == <<nextID, chat, sessions, gone, serving, active, wire>>

Run == Chat \X (0 .. MaxRounds - 1)

NoRun == [pc |-> "none", at |-> Nobody, sent |-> 0, cancelled |-> FALSE]

Init ==
    /\ nextID = [n \in Node |-> 0]
    /\ chat = [c \in Chat |-> [pc |-> "new", id |-> 0, round |-> 0, shown |-> <<>>,
                               tools |-> FALSE, end |-> "none", error |-> FALSE]]
    /\ sessions = {}
    /\ gone = {}
    /\ serving = [r \in Run |-> NoRun]
    /\ active = [w \in Worker |-> {}]
    /\ wire = [c \in Chat |-> <<>>]

At(c, pc) == chat[c].pc = pc
Go(c, pc) == chat' = [chat EXCEPT ![c].pc = pc]
Current(c) == <<c, chat[c].round>>
Work(r, pc) == serving' = [serving EXCEPT ![r].pc = pc]

\* The coordinator reads from this run's stream; what is written to another is lost.
IsRead(r) == At(r[1], "remote") /\ r = Current(r[1])
Frame(r, type, k) == wire' = IF IsRead(r) THEN [wire EXCEPT ![r[1]] = Append(@, [type |-> type, k |-> k])]
                             ELSE wire

-----------------------------------------------------------------------------
(* The chat: register, route, read, fall back, call tools, end.                *)

Chats(c) ==
    /\ At(c, "new")
    /\ LET n == Owner[c]
       IN /\ nextID' = [nextID EXCEPT ![n] = @ + 1]
          /\ chat' = [chat EXCEPT ![c].pc = "route", ![c].id = nextID[n] + 1]
    /\ sessions' = sessions \cup {c}
    /\ UNCHANGED <<gone, serving, active, wire>>

\* BestWorker may know a worker that fits, and the stream to it may open.
RouteTo(c, w) ==
    /\ At(c, "route") /\ w # Owner[c]
    /\ Go(c, "remote")
    /\ serving' = [serving EXCEPT ![Current(c)] = [NoRun EXCEPT !.pc = "request", !.at = w]]
    /\ wire' = [wire EXCEPT ![c] = <<>>]
    /\ UNCHANGED <<nextID, sessions, gone, active>>

RouteLocally(c) ==
    /\ At(c, "route")
    /\ Go(c, "local")
    /\ UNCHANGED <<nextID, sessions, gone, serving, active, wire>>

\* A frame is read: a token is shown, the last one and a done frame end the answer, an
\* error has the local server start again.
\* Fault: an error frame ends the answer.
ReadFrameErrorEnds(c) ==
    /\ At(c, "remote") /\ wire[c] # <<>>
    /\ LET f == Head(wire[c])
       IN chat' = IF f.type = "token"
                  THEN [chat EXCEPT ![c].shown = Append(@, <<"worker", f.k>>),
                                    ![c].pc = IF f.k = Length THEN "answered" ELSE "remote"]
                  ELSE [chat EXCEPT ![c].pc = "answered"]
    /\ wire' = [wire EXCEPT ![c] = Tail(@)]
    /\ UNCHANGED <<nextID, sessions, gone, serving, active>>
ReadFrame(c) ==
    /\ At(c, "remote") /\ wire[c] # <<>>
    /\ LET f == Head(wire[c])
       IN chat' = CASE f.type = "token" ->
                         [chat EXCEPT ![c].shown = Append(@, <<"worker", f.k>>),
                                      ![c].pc = IF f.k = Length THEN "answered" ELSE "remote"]
                    [] f.type = "done"  -> [chat EXCEPT ![c].pc = "answered"]
                    [] OTHER            -> [chat EXCEPT ![c].pc = "local"]
    /\ wire' = [wire EXCEPT ![c] = Tail(@)]
    /\ UNCHANGED <<nextID, sessions, gone, serving, active>>

\* The stream breaks, no frame comes for the time of the deadline, or the loop sees that
\* the context is cancelled.
StreamFails(c) ==
    /\ At(c, "remote")
    /\ Go(c, "local")
    /\ UNCHANGED <<nextID, sessions, gone, serving, active, wire>>

\* The next token of the local server; tool calls take the answer's place at its end.
LocalToken(c) ==
    /\ At(c, "local") /\ c \notin gone
    /\ LET shown == chat[c].shown
           k == IF shown = <<>> \/ Last(shown)[1] = "worker" THEN 1 ELSE Last(shown)[2] + 1
       IN \/ chat' = [chat EXCEPT ![c].shown = Append(@, <<"local", k>>),
                                  ![c].pc = IF k = Length THEN "answered" ELSE "local"]
          \/ k = Length /\ chat' = [chat EXCEPT ![c].tools = TRUE, ![c].pc = "answered"]
    /\ UNCHANGED <<nextID, sessions, gone, serving, active, wire>>

\* The local server cannot be reached or fails; that is announced unless the context
\* is cancelled.
\* Fault: the loop does not see that the context was cancelled.
LocalFailsUncancelled(c) ==
    /\ At(c, "local") /\ c \notin gone
    /\ chat' = [chat EXCEPT ![c].pc = "answered", ![c].error = TRUE]
    /\ UNCHANGED <<nextID, sessions, gone, serving, active, wire>>
LocalFails(c) ==
    /\ At(c, "local")
    /\ chat' = [chat EXCEPT ![c].pc = "answered", ![c].error = @ \/ c \notin gone]
    /\ UNCHANGED <<nextID, sessions, gone, serving, active, wire>>

\* Tools are called, with a result or an error as message of the next round.
NextRound(c) ==
    /\ At(c, "answered") /\ chat[c].tools
    /\ chat' = [chat EXCEPT ![c].round = @ + 1, ![c].tools = FALSE, ![c].shown = <<>>,
                            ![c].pc = IF chat[c].round + 1 = MaxRounds THEN "end" ELSE "route",
                            ![c].end = IF chat[c].round + 1 = MaxRounds THEN "rounds" ELSE "none"]
    /\ UNCHANGED <<nextID, sessions, gone, serving, active, wire>>

Final(c) ==
    /\ At(c, "answered") /\ ~chat[c].tools
    /\ chat' = [chat EXCEPT ![c].pc = "end", ![c].end = "done"]
    /\ UNCHANGED <<nextID, sessions, gone, serving, active, wire>>

\* The deferred calls: cancel, remove both sessions.
Unregister(c) ==
    /\ At(c, "end")
    /\ Go(c, "closed")
    /\ sessions' = sessions \ {c}
    /\ UNCHANGED <<nextID, gone, serving, active, wire>>

\* The request ends, or the session is cancelled by its id.
Cancel(c) ==
    /\ c \in sessions /\ c \notin gone
    /\ gone' = gone \cup {c}
    /\ sessions' \in {sessions, sessions \ {c}}
    /\ UNCHANGED <<nextID, chat, serving, active, wire>>

-----------------------------------------------------------------------------
(* The worker.                                                                 *)

Id(r) == chat[r[1]].id

\* The runs that the worker holds under the session id of r: one at most.
Held(w, r) == {q \in active[w] : Id(q) = Id(r)}

\* A run under the same session id is cancelled, whoever asked for it.
Accept(r) ==
    /\ serving[r].pc = "request" /\ IsRead(r)
    /\ LET w == serving[r].at
       IN /\ active' = [active EXCEPT ![w] = (@ \ Held(w, r)) \cup {r}]
          /\ serving' = [d \in Run |->
                           IF d = r THEN [serving[d] EXCEPT !.pc = "generate"]
                           ELSE [serving[d] EXCEPT !.cancelled = @ \/ d \in Held(w, r)]]
    /\ UNCHANGED <<nextID, chat, sessions, gone, wire>>

\* The stream was given up before the request was read.
RequestLost(r) ==
    /\ serving[r].pc = "request" /\ ~IsRead(r)
    /\ serving' = [serving EXCEPT ![r] = NoRun]
    /\ UNCHANGED <<nextID, chat, sessions, gone, active, wire>>

\* The worker's server is down, or fails on the way; a failure under a cancelled
\* context is followed by the done frame.
GenerateFails(r) ==
    /\ serving[r].pc = "generate"
    /\ Work(r, "exit")
    /\ \/ (serving[r].sent = 0 \/ ~serving[r].cancelled) /\ Frame(r, "error", 0)
       \/ serving[r].cancelled /\ Frame(r, "done", 0)
    /\ UNCHANGED <<nextID, chat, sessions, gone, active>>

\* A token becomes a frame, which has no place for tool calls.
Emit(r) ==
    /\ serving[r].pc = "generate"
    /\ LET k == serving[r].sent + 1
       IN /\ serving' = [serving EXCEPT ![r].sent = k, ![r].pc = IF k = Length THEN "exit" ELSE @]
          /\ Frame(r, "token", k)
    /\ UNCHANGED <<nextID, chat, sessions, gone, active>>

\* The frame cannot be written.
EmitFails(r) ==
    /\ serving[r].pc = "generate" /\ ~IsRead(r)
    /\ Work(r, "exit")
    /\ UNCHANGED <<nextID, chat, sessions, gone, active, wire>>

\* The deferred delete is by session id.
Exit(r) ==
    /\ serving[r].pc = "exit"
    /\ active' = [active EXCEPT ![serving[r].at] = @ \ Held(serving[r].at, r)]
    /\ serving' = [serving EXCEPT ![r] = NoRun]
    /\ UNCHANGED <<nextID, chat, sessions, gone, wire>>

-----------------------------------------------------------------------------
Coordinate(c) ==
    \/ Chats(c) \/ (\E w \in Worker : RouteTo(c, w)) \/ RouteLocally(c)
    \/ ReadFrame(c) \/ StreamFails(c) \/ LocalToken(c) \/ LocalFails(c)
    \/ NextRound(c) \/ Final(c) \/ Unregister(c)
Serve(r) == Accept(r) \/ RequestLost(r) \/ GenerateFails(r) \/ Emit(r) \/ EmitFails(r) \/ Exit(r)

Next == \/ \E c \in Chat : Coordinate(c) \/ Cancel(c)
        \/ \E r \in Run : Serve(r)

\* The servers answer, deadlines pass and the loops go on.
Fairness == /\ \A c \in Chat : WF_vars(Coordinate(c))
            /\ \A r \in Run : WF_vars(Serve(r))

Spec == Init /\ [][Next]_vars /\ Fairness

-----------------------------------------------------------------------------
TypeOK ==
    /\ nextID \in [Node -> Nat]
    /\ chat \in [Chat -> [pc : {"new", "route", "remote", "local", "answered", "end", "closed"},
                          id : Nat, round : 0 .. MaxRounds,
                          shown : Seq({"worker", "local"} \X (1 .. Length)), tools : BOOLEAN,
                          end : {"none", "done", "rounds"}, error : BOOLEAN]]
    /\ sessions \subseteq Chat /\ gone \subseteq Chat
    /\ serving \in [Run -> [pc : {"none", "request", "generate", "exit"},
                             at : Worker \cup {Nobody}, sent : 0 .. Length, cancelled : BOOLEAN]]
    /\ active \in [Worker -> SUBSET Run]
    /\ wire \in [Chat -> Seq([type : {"token", "done", "error"}, k : 0 .. Length])]

Whole(source) == [k \in 1 .. Length |-> <<source, k>>]

\* A chat that ends as done, without an announced error and not cancelled by its user,
\* ends with one whole answer, whatever failed and fell back before
\* (distrib_coordinator.go:106).
AnswerIsWhole ==
    \A c \in Chat : chat[c].end = "done" /\ ~chat[c].error /\ c \notin gone
        => \E source \in {"worker", "local"} : IsSuffix(Whole(source), chat[c].shown)

\* Every chat ends, and its session with it, however worker, stream and server fail
\* (manager.go:537).
ChatEnds == \A c \in Chat : At(c, "route") ~> (At(c, "closed") /\ c \notin sessions)

====
