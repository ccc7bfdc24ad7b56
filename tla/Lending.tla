------------------------------ MODULE Lending -------------------------------
(***************************************************************************)
(* A lender's compute rented by the owner of another node, seen for one    *)
(* borrower: tokens that expire, the handshake that turns one into a       *)
(* session, revocation, and the tasks of the borrower.  Both sides keep    *)
(* what they know in memory.  Left out: the challenge's arithmetic,        *)
(* addresses, other borrowers, whose sessions are kept apart by their      *)
(* peer.                                                                   *)
(*                                                                         *)
(* Source: internal/social (handshake.go, session.go, social.go).          *)
(***************************************************************************)
CONSTANTS
    Token,      \* tokens the lender may give out
    None,       \* no token
    Attempt,    \* handshakes of the borrower
    Task,       \* tasks it sends
    Wasm        \* those with a WebAssembly command

LendingAssumption == None \notin Token

VARIABLES
    token,      \* per token: "none", "lent", "expired"
    session,    \* the lender's session of the borrower: the token whose limit it has
    own,        \* per handshake: the borrower's side
    peer,       \* per handshake: the lender's side, and the token it matched
    borrowed,   \* the borrower's registry has the lender
    gone,       \* the lender restarted or revoked the session since it accepted it
    asks,       \* per task: the borrower's side
    serves      \* per task: the lender's side

vars == <<token, session, own, peer, borrowed, gone, asks, serves>>

Init ==
    /\ token = [t \in Token |-> "none"] /\ session = None
    /\ own = [a \in Attempt |-> "idle"]
    /\ peer = [a \in Attempt |-> [pc |-> "idle", tok |-> None]]
    /\ borrowed = FALSE /\ gone = FALSE
    /\ asks = [k \in Task |-> "idle"] /\ serves = [k \in Task |-> "idle"]

tasks == <<asks, serves>>

-----------------------------------------------------------------------------
(* Tokens.                                                                    *)

GenerateToken(t) ==
    /\ token[t] = "none" /\ token' = [token EXCEPT ![t] = "lent"]
    /\ UNCHANGED <<session, own, peer, borrowed, gone, tasks>>

Expires(t) ==
    /\ token[t] = "lent" /\ token' = [token EXCEPT ![t] = "expired"]
    /\ UNCHANGED <<session, own, peer, borrowed, gone, tasks>>

-----------------------------------------------------------------------------
(* The handshake: HandleStream at the lender, ConnectAsBorrower at the borrower. *)

PeerGoes(a, pc) == peer' = [peer EXCEPT ![a].pc = pc]

\* ParseToken refuses a token that has expired; the lender answers with a challenge.
Connect(a) ==
    /\ own[a] = "idle" /\ \E t \in Token : token[t] = "lent"
    /\ own' = [own EXCEPT ![a] = "asked"] /\ PeerGoes(a, "challenge")
    /\ UNCHANGED <<token, session, borrowed, gone, tasks>>

Respond(a) ==
    /\ own[a] = "asked" /\ peer[a].pc = "challenge"
    /\ own' = [own EXCEPT ![a] = "responded"] /\ PeerGoes(a, "verify")
    /\ UNCHANGED <<token, session, borrowed, gone, tasks>>

\* All tokens of a lender answer the challenge alike: any that has not expired matches.
Verify(a) ==
    /\ peer[a].pc = "verify"
    /\ \/ \E t \in Token : /\ token[t] = "lent"
                           /\ peer' = [peer EXCEPT ![a] = [pc |-> "accept", tok |-> t]]
       \/ (\A t \in Token : token[t] # "lent") /\ PeerGoes(a, "reset")
    /\ UNCHANGED <<token, session, own, borrowed, gone, tasks>>

\* Fault: the borrower is told before the session is there.
AcceptBeforeSession(a) ==
    /\ \/ peer[a].pc = "accept" /\ PeerGoes(a, "ok") /\ UNCHANGED <<session, gone>>
       \/ /\ peer[a].pc \in {"ok", "over"} /\ session = None
          /\ session' = peer[a].tok /\ gone' = FALSE
          /\ PeerGoes(a, "over")
    /\ UNCHANGED <<token, own, borrowed, tasks>>

Accept(a) ==
    /\ peer[a].pc = "accept"
    /\ session' = peer[a].tok /\ gone' = FALSE
    /\ PeerGoes(a, "ok")
    /\ UNCHANGED <<token, own, borrowed, tasks>>

\* The confirmation arrives, and the borrower enters the lender.
Confirmed(a) ==
    /\ own[a] = "responded" /\ peer[a].pc = "ok"
    /\ own' = [own EXCEPT ![a] = "done"] /\ PeerGoes(a, "over")
    /\ borrowed' = TRUE
    /\ UNCHANGED <<token, session, gone, tasks>>

\* The stream breaks or a deadline of ten seconds passes at the borrower; the lender goes
\* on until it reads or writes.
GivesUp(a) ==
    /\ own[a] \in {"asked", "responded"}
    /\ own' = [own EXCEPT ![a] = "done"]
    /\ UNCHANGED <<token, session, peer, borrowed, gone, tasks>>

LenderGivesUp(a) ==
    /\ \/ peer[a].pc \in {"challenge", "verify"}
       \/ peer[a].pc = "ok" /\ own[a] = "done"
    /\ PeerGoes(a, "over")
    /\ UNCHANGED <<token, session, own, borrowed, gone, tasks>>

Rejected(a) ==
    /\ own[a] = "responded" /\ peer[a].pc = "reset"
    /\ own' = [own EXCEPT ![a] = "done"]
    /\ UNCHANGED <<token, session, peer, borrowed, gone, tasks>>

-----------------------------------------------------------------------------
(* Ends.                                                                      *)

\* The lender revokes the session and closes the connection.  A handshake that is being
\* accepted goes on.
Revoke ==
    /\ session # None /\ session' = None /\ gone' = TRUE
    /\ own' = [a \in Attempt |-> IF own[a] = "idle" THEN "idle" ELSE "done"]
    /\ asks' = [k \in Task |-> IF asks[k] = "sent" THEN "failed" ELSE asks[k]]
    /\ UNCHANGED <<token, peer, borrowed, serves>>

\* The borrower's user takes the lender out of the registry.
RemoveBorrowedPeer ==
    /\ borrowed /\ borrowed' = FALSE
    /\ asks' = [k \in Task |-> IF asks[k] = "sent" THEN "failed" ELSE asks[k]]
    /\ UNCHANGED <<token, session, own, peer, gone, serves>>

\* The lender's agent restarts and knows neither tokens nor sessions.
LenderRestarts ==
    /\ \E t \in Token : token[t] # "none"
    /\ token' = [t \in Token |-> IF token[t] = "none" THEN "none" ELSE "expired"]
    /\ session' = None /\ gone' = TRUE
    /\ peer' = [a \in Attempt |-> [peer[a] EXCEPT !.pc = IF @ = "idle" THEN @ ELSE "over"]]
    /\ own' = [a \in Attempt |-> IF own[a] = "idle" THEN "idle" ELSE "done"]
    /\ asks' = [k \in Task |-> IF asks[k] = "sent" THEN "failed" ELSE asks[k]]
    /\ serves' = [k \in Task |-> IF serves[k] = "idle" THEN "idle" ELSE "over"]
    /\ UNCHANGED borrowed

-----------------------------------------------------------------------------
(* Tasks: ExecuteRemoteTask at the borrower, HandleStream at the lender.        *)

handshakes == <<token, session, own, peer, borrowed, gone>>

\* The scheduler sees a borrowed lender as a node while it is connected, whether its token
\* has expired or not.
Ask(k) ==
    /\ borrowed /\ asks[k] = "idle"
    /\ asks' = [asks EXCEPT ![k] = "sent"]
    /\ serves' = [serves EXCEPT ![k] = "check"]
    /\ UNCHANGED handshakes

Authorize(k) ==
    /\ serves[k] = "check"
    /\ serves' = [serves EXCEPT ![k] = IF session = None THEN "refuse"
                                       ELSE IF k \in Wasm THEN "run" ELSE "error"]
    /\ UNCHANGED <<handshakes, asks>>

\* The task runs to its end or for thirty seconds, whether the borrower waits or not.
Executed(k) ==
    /\ serves[k] = "run"
    /\ \E r \in {"output", "error"} : serves' = [serves EXCEPT ![k] = r]
    /\ UNCHANGED <<handshakes, asks>>

Answered(k) ==
    /\ serves[k] \in {"refuse", "error", "output"}
    /\ serves' = [serves EXCEPT ![k] = "over"]
    /\ asks' = [asks EXCEPT ![k] = IF @ # "sent" THEN @
                                   ELSE IF serves[k] = "output" THEN "done" ELSE "failed"]
    /\ UNCHANGED handshakes

\* The stream breaks: the borrower's read ends, nothing else makes it end.
Breaks(k) ==
    /\ asks[k] = "sent" /\ asks' = [asks EXCEPT ![k] = "failed"]
    /\ UNCHANGED <<handshakes, serves>>

-----------------------------------------------------------------------------
Next ==
    \/ Revoke \/ RemoveBorrowedPeer \/ LenderRestarts
    \/ \E t \in Token : GenerateToken(t) \/ Expires(t)
    \/ \E a \in Attempt : \/ Connect(a) \/ Respond(a) \/ Verify(a) \/ Accept(a) \/ Confirmed(a)
                          \/ GivesUp(a) \/ LenderGivesUp(a) \/ Rejected(a)
    \/ \E k \in Task : Ask(k) \/ Authorize(k) \/ Executed(k) \/ Answered(k) \/ Breaks(k)

Spec == Init /\ [][Next]_vars

-----------------------------------------------------------------------------
TypeOK ==
    /\ token \in [Token -> {"none", "lent", "expired"}] /\ session \in Token \cup {None}
    /\ own \in [Attempt -> {"idle", "asked", "responded", "done"}]
    /\ peer \in [Attempt -> [pc : {"idle", "challenge", "verify", "accept", "ok", "reset",
                                   "over"},
                             tok : Token \cup {None}]]
    /\ borrowed \in BOOLEAN /\ gone \in BOOLEAN
    /\ asks \in [Task -> {"idle", "sent", "done", "failed"}]
    /\ serves \in [Task -> {"idle", "check", "refuse", "run", "error", "output", "over"}]

\* A lender that the borrower has entered serves it, until the lender restarts or revokes
\* the session: handshakes that were given up, confirmations that come late and tokens
\* that expire in between do not part the two sides (handshake.go:100).
BorrowedIsServed == borrowed /\ ~gone => session # None

\* A revoked session stays revoked until another handshake; not an invariant: one that was
\* verified before stores its session after (handshake.go:93).
RevokedStays == gone => session = None
====
