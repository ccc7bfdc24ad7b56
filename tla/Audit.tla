------------------------------- MODULE Audit -------------------------------
(***************************************************************************)
(* The audit log of a node (internal/shield/audit.go): events are appended *)
(* to audit.log, which is renamed to audit.log.1 when it is full, and that *)
(* to audit.log.2 and so on.  The failures of renames are ignored, and a   *)
(* crash may come between any two of them.  Signatures, and what an event  *)
(* says, are left out: events are numbered as they are written, and a file *)
(* is the set of those it has, as it is only appended to.                  *)
(***************************************************************************)
EXTENDS Naturals, FiniteSets

CONSTANTS
    Rotations,  \* maxRotations
    Full,       \* maxLogBytes, in events
    MaxEvents,  \* bound: events written
    MaxFaults   \* bound: crashes and failing calls of the file system

AuditAssumption ==
    /\ Rotations \in Nat \ {0} /\ Full \in Nat \ {0}
    /\ MaxEvents \in Nat /\ MaxFaults \in Nat

VARIABLES
    files,      \* 0 is audit.log, i is audit.log.i: its readable events, and a torn end
    open,       \* f # nil
    written,    \* of the open file
    rotation,   \* "no", "shift" with the next file to rename, "open"
    next,       \* that file
    events,     \* events whose write succeeded
    faults,
    glued,      \* history: events that were written behind a torn end
    unshifted   \* history: a rename failed

vars == <<files, open, written, rotation, next, events, faults, glued, unshifted>>

Index == 0 .. Rotations
NoFile == [exists |-> FALSE, log |-> {}, torn |-> FALSE]
EmptyFile == [NoFile EXCEPT !.exists = TRUE]

Init ==
    /\ files = [i \in Index |-> IF i = 0 THEN EmptyFile ELSE NoFile]
    /\ open = TRUE /\ written = 0
    /\ rotation = "no" /\ next = 0 /\ events = 0
    /\ faults = 0 /\ glued = {} /\ unshifted = FALSE

Fails == faults < MaxFaults /\ faults' = faults + 1

-----------------------------------------------------------------------------
\* Record: an event behind a torn end makes one unreadable line with it.
Record ==
    /\ rotation = "no" /\ open /\ events < MaxEvents
    /\ events' = events + 1
    /\ IF files[0].torn
       THEN files' = [files EXCEPT ![0].torn = FALSE] /\ glued' = glued \cup {events'}
       ELSE files' = [files EXCEPT ![0].log = @ \cup {events'}] /\ UNCHANGED glued
    /\ written' = written + 1
    /\ IF written' < Full THEN UNCHANGED <<rotation, next, open>>
       ELSE rotation' = "shift" /\ next' = Rotations - 1 /\ open' = FALSE
    /\ UNCHANGED <<faults, unshifted>>

\* A write that fails may leave a part of the event; it is only logged.
RecordFails ==
    /\ rotation = "no" /\ open /\ Fails
    /\ \/ files' = [files EXCEPT ![0].torn = TRUE]
       \/ UNCHANGED files
    /\ UNCHANGED <<open, written, rotation, next, events, glued, unshifted>>

Renamed(i) ==
    IF files[i].exists THEN [files EXCEPT ![i + 1] = files[i], ![i] = NoFile] ELSE files

Shifted == IF next = 0 THEN rotation' = "open" /\ UNCHANGED next
           ELSE next' = next - 1 /\ UNCHANGED rotation

\* Fault: from the newest to the oldest.
ShiftUpwards ==
    /\ rotation = "shift"
    /\ files' = Renamed(Rotations - 1 - next)
    /\ Shifted
    /\ UNCHANGED <<open, written, events, faults, glued, unshifted>>

\* rotate: audit.log.4 to audit.log.5, ..., audit.log to audit.log.1.
Shift ==
    /\ rotation = "shift"
    /\ files' = Renamed(next)
    /\ Shifted
    /\ UNCHANGED <<open, written, events, faults, glued, unshifted>>

ShiftFails ==
    /\ rotation = "shift" /\ files[next].exists /\ Fails
    /\ Shifted
    /\ unshifted' = TRUE
    /\ UNCHANGED <<files, open, written, events, glued>>

\* The new log truncates what is there; when it cannot be opened, nothing is logged any more.
OpenNew ==
    /\ rotation = "open"
    /\ rotation' = "no"
    /\ \/ /\ files' = [files EXCEPT ![0] = EmptyFile]
          /\ open' = TRUE /\ written' = 0 /\ UNCHANGED faults
       \/ Fails /\ UNCHANGED <<files, open, written>>
    /\ UNCHANGED <<next, events, glued, unshifted>>

\* The process ends, in the middle of a write perhaps, and NewAuditLog opens the log.
Restart ==
    /\ Fails
    /\ LET log == IF files[0].exists THEN files[0] ELSE EmptyFile
       IN /\ \/ files' = [files EXCEPT ![0] = log]
             \/ rotation = "no" /\ open /\ files' = [files EXCEPT ![0].torn = TRUE]
          /\ written' = Cardinality(log.log)
    /\ open' = TRUE /\ rotation' = "no"
    /\ UNCHANGED <<next, events, glued, unshifted>>

-----------------------------------------------------------------------------
Next == Record \/ RecordFails \/ Shift \/ ShiftFails \/ OpenNew \/ Restart
Spec == Init /\ [][Next]_vars

-----------------------------------------------------------------------------
TypeOK ==
    /\ files \in [Index -> [exists : BOOLEAN, log : SUBSET (1 .. MaxEvents), torn : BOOLEAN]]
    /\ open \in BOOLEAN /\ written \in 0 .. MaxEvents
    /\ rotation \in {"no", "shift", "open"} /\ next \in 0 .. Rotations
    /\ events \in 0 .. MaxEvents /\ faults \in 0 .. MaxFaults
    /\ glued \subseteq 1 .. MaxEvents /\ unshifted \in BOOLEAN

\* The events of a file are older than those of the files after which it was begun, and
\* none is there twice, whatever crash cuts a rotation short and whatever rename fails
\* (audit.go:291 "renames the current log to audit.log.1..N").
LogIsInOrder ==
    \A i, j \in Index : i < j => \A e \in files[i].log, k \in files[j].log : k < e

\* What a rotation drops is older than all that is kept: unless a rename failed, the files
\* hold the newest events, all but those written behind a torn end.
Kept == UNION {files[i].log : i \in Index}
OldestAreDropped ==
    ~unshifted => \A e \in 1 .. events : e \in Kept \/ e \in glued \/ \A k \in Kept : e < k

\* Without faults the rotated files are full, so that many of the newest events are kept.
EnoughIsKept ==
    faults = 0 => Cardinality(Kept) = events \/ Cardinality(Kept) >= Rotations * Full
=============================================================================
