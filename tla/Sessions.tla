------------------------------ MODULE Sessions ------------------------------
(***************************************************************************)
(* A chat session's file: requests that append messages, rename and delete *)
(* it, and the extraction of memories that starts when the session has     *)
(* been idle and notes how far it came.  Every change reads the file, and  *)
(* writes it to a temporary file of one name, which it renames; nothing is *)
(* locked.  A writer that has the temporary file open keeps writing to it  *)
(* after another one's rename.  The model server is external.              *)
(*                                                                         *)
(* Source: internal/llm/session.go, internal/memory/extractor.go.          *)
(***************************************************************************)
EXTENDS Naturals, SequencesExt

CONSTANTS
    Message,    \* requests that append a message, named by it
    Rename,     \* requests that rename the session
    Extraction, \* extractions that may be started
    MinNew,     \* new messages without which nothing is extracted
    MaxBatch    \* the last of them that are sent to the model

VARIABLES
    file,       \* the session's file: whole, empty, torn or missing, and its content
    tmp,        \* the temporary file, likewise
    call,       \* per request or extraction: step, what it writes, where its descriptor points
    activity,   \* the session has an entry in activities
    extracted,  \* messages that were sent to the model (history)
    acked       \* messages whose request returned success (history)

vars == <<file, tmp, call, activity, extracted, acked>>

Caller == Message \cup Rename \cup Extraction
File == [is : {"whole", "empty", "torn", "missing"}, msgs : Seq(Message), idx : Nat]
Fresh == [is |-> "whole", msgs |-> <<>>, idx |-> 0]
Missing == [Fresh EXCEPT !.is = "missing"]
Empty == [Fresh EXCEPT !.is = "empty"]
Torn == [Fresh EXCEPT !.is = "torn"]

Init ==
    /\ file = Fresh
    /\ tmp = Missing
    /\ call = [c \in Caller |-> [pc |-> "idle", data |-> Fresh, fd |-> "none"]]
    /\ activity = FALSE
    /\ extracted = {} /\ acked = {}

At(c, pc) == call[c].pc = pc
Go(c, pc) == call' = [call EXCEPT ![c].pc = pc]

\* What a caller makes of the content it read; data.idx of an extraction holds the index
\* it came to.
Changed(c, content) ==
    IF c \in Message THEN [content EXCEPT !.msgs = Append(@, c)]
    ELSE IF c \in Extraction THEN [content EXCEPT !.idx = call[c].data.idx]
    ELSE content

-----------------------------------------------------------------------------
(* AppendMessage, UpdateTitle, UpdateLastExtractedIdx: read, then saveSession. *)

Start(c) ==
    /\ At(c, "idle") /\ c \notin Extraction
    /\ Go(c, "read")
    /\ UNCHANGED <<file, tmp, activity, extracted, acked>>

\* A file that is missing, empty or malformed is an error.
ReadSession(c) ==
    /\ At(c, "read")
    /\ IF file.is # "whole" THEN Go(c, "failed")
       ELSE call' = [call EXCEPT ![c].pc = "open", ![c].data = Changed(c, file)]
    /\ UNCHANGED <<file, tmp, activity, extracted, acked>>

\* os.WriteFile opens and truncates,
OpenTemp(c) ==
    /\ At(c, "open")
    /\ tmp' = Empty
    /\ call' = [call EXCEPT ![c].pc = "write", ![c].fd = "tmp"]
    /\ UNCHANGED <<file, activity, extracted, acked>>

\* and writes from the start: over longer content of another writer, whose end remains.
Written(old, data) == IF old = Empty THEN {data} ELSE {data, Torn}

WriteTemp(c) ==
    /\ At(c, "write")
    /\ CASE call[c].fd = "tmp"  -> tmp' \in Written(tmp, call[c].data) /\ UNCHANGED file
         [] call[c].fd = "file" -> file' \in Written(file, call[c].data) /\ UNCHANGED tmp
         [] OTHER               -> UNCHANGED <<file, tmp>>
    /\ Go(c, "rename")
    /\ UNCHANGED <<activity, extracted, acked>>

\* The descriptors of the temporary file now point to the session's file, and those of
\* the file that it replaces to nothing that has a name.
Renamed == [d \in Caller |-> [call[d] EXCEPT !.fd = IF @ = "tmp" THEN "file" ELSE "none"]]

RenameTemp(c) ==
    /\ At(c, "rename")
    /\ IF tmp = Missing THEN Go(c, "failed") /\ UNCHANGED <<file, tmp, acked, activity>>
       ELSE /\ file' = tmp /\ tmp' = Missing
            /\ call' = [Renamed EXCEPT ![c].pc = "done"]
            /\ acked' = IF c \in Message THEN acked \cup {c} ELSE acked
            /\ activity' = (activity \/ c \in Message)          \* RecordActivity
    /\ UNCHANGED extracted

DeleteSession ==
    /\ file # Missing
    /\ file' = Missing /\ acked' = {}
    /\ call' = [c \in Caller |-> [call[c] EXCEPT !.fd = IF @ = "file" THEN "none" ELSE @]]
    /\ UNCHANGED <<tmp, activity, extracted>>

-----------------------------------------------------------------------------
(* The extraction.                                                             *)

\* The session has been idle: its entry is deleted and the extraction started.
CheckInactive(e) ==
    /\ At(e, "idle") /\ activity
    /\ activity' = FALSE
    /\ Go(e, "fetch")
    /\ UNCHANGED <<file, tmp, extracted, acked>>

Smaller(a, b) == IF a < b THEN a ELSE b

\* The messages from the index on, of which the last ones are sent to the model; the
\* model may fail, and what it answers may not be a list of facts.
Extract(e) ==
    /\ At(e, "fetch")
    /\ IF file.is # "whole" THEN Go(e, "failed") /\ UNCHANGED extracted
       ELSE LET n == Len(file.msgs)
                from == Smaller(file.idx, n)
                batch == Smaller(n - from, MaxBatch)
            IN IF n - from < MinNew THEN Go(e, "done") /\ UNCHANGED extracted
               ELSE \/ Go(e, "failed") /\ UNCHANGED extracted
                    \/ /\ extracted' = extracted \cup ToSet(SubSeq(file.msgs, n - batch + 1, n))
                       /\ call' = [call EXCEPT ![e].pc = "read", ![e].data.idx = n]
    /\ UNCHANGED <<file, tmp, activity, acked>>

-----------------------------------------------------------------------------
Save(c) == Start(c) \/ ReadSession(c) \/ OpenTemp(c) \/ WriteTemp(c) \/ RenameTemp(c)
Next == (\E c \in Caller : Save(c)) \/ DeleteSession
        \/ \E e \in Extraction : CheckInactive(e) \/ Extract(e)
Spec == Init /\ [][Next]_vars

-----------------------------------------------------------------------------
TypeOK ==
    /\ file \in File /\ tmp \in File
    /\ call \in [Caller -> [pc : {"idle", "fetch", "read", "open", "write", "rename", "done", "failed"},
                            data : File, fd : {"none", "tmp", "file"}]]
    /\ activity \in BOOLEAN /\ extracted \subseteq Message /\ acked \subseteq Message

\* When nobody writes, the file of a session can be read (session.go:82 "writes a session
\* atomically using a temp file").
Writing == \E c \in Caller : call[c].pc \in {"open", "write", "rename"}
SessionIsReadable == ~Writing => file.is \in {"whole", "missing"}

\* Not an invariant: a message whose request returned success is in the session's file
\* (session.go:122 "appends a message to the session"); of two requests that read the
\* same session the second to write drops the message of the first.
AckedIsKept == file.is = "whole" => acked \subseteq ToSet(file.msgs)
====
