--------------------------------- MODULE Wal ---------------------------------
(***************************************************************************)
(* The write-ahead log (internal/reliability/wal) and the recovery the     *)
(* agent runs from it (Agent.recoverWAL): entries are lines of one file,   *)
(* appended and fsync'd one at a time under w.mu; a compaction rewrites    *)
(* the file with the pending entries only; a crash may tear the line that  *)
(* is being written; a restart reads the file back.                        *)
(*                                                                         *)
(* A line is readable or it is not; an unreadable line is skipped by every *)
(* reader, so lines holds the readable ones.  They are in the order of     *)
(* their LSNs, and a set tells as much.  What a crash leaves behind the    *)
(* last newline is the tail: a later append is glued to it and makes one   *)
(* unreadable line of both.                                                *)
(***************************************************************************)
EXTENDS Naturals, FiniteSets

CONSTANTS
    Op,                  \* the operations logged, each appended once
    CheckpointInterval,  \* checkpointInterval
    MaxCrashes           \* bound: crashes explored

ASSUME WalAssumption ==
    /\ IsFiniteSet(Op)
    /\ CheckpointInterval \in Nat \ {0}
    /\ MaxCrashes \in Nat

VARIABLES
    lines,       \* the readable, newline-terminated lines of the file
    tail,        \* what follows the last newline: nothing, Rubble or a line
    lsn,         \* w.lsn
    committedN,  \* w.committedN
    compacting,  \* a checkpoint goroutine waits for w.mu
    broken,      \* the bufio.Writer remembers a write error
    detached,    \* w.file is the file that a compaction replaced
    agent,       \* "up", "down" or "recovering"
    todo,        \* the pending lines recoverWAL still has to abort
    phase,       \* of each operation: "idle", "held" (it has its LSN) or "over"
    held,        \* the LSN it holds
    crashes,
    \* history
    acked,       \* operations whose Append returned an LSN
    finished,    \* operations with a Commit or an Abort written to the end
    logged,      \* operations whose entry was in the file
    orphaned,    \* operations with a write that went to a replaced file
    tears        \* crashes and failed writes that left a tail

file == <<lines, tail>>
memory == <<lsn, committedN, compacting, broken, detached>>
history == <<acked, finished, logged, orphaned, tears>>
vars == <<file, memory, agent, todo, phase, held, crashes, history>>

Rubble == [status |-> "rubble"]
PendingLine(o, n) == [status |-> "pending", op |-> o, lsn |-> n, of |-> n]
\* A Commit or an Abort: a line of its own that names the LSN it ends.
Marker(o, n, of) == [status |-> "marker", op |-> o, lsn |-> n, of |-> of]

-----------------------------------------------------------------------------
(* Reading the file *)

Readable(ls) == {l \in ls : l.status # "rubble"}

\* RecoverPending: the pending lines whose LSN no marker names.
PendingOf(ls) ==
    {l \in Readable(ls) : /\ l.status = "pending"
                          /\ ~\E m \in Readable(ls) : m.status = "marker" /\ m.of = l.lsn}

Whole == lines \cup tail

\* recoverLSN: the highest LSN still readable, 0 in an empty file.
HighestLsn ==
    {n \in {l.lsn : l \in Readable(Whole)} \cup {0} : \A l \in Readable(Whole) : l.lsn <= n}

\* The operations a restart would find pending in the terminated lines.
Open == {l.op : l \in PendingOf(lines)}

Init ==
    /\ lines = {} /\ tail = {}
    /\ lsn = 0 /\ committedN = 0
    /\ compacting = FALSE /\ broken = FALSE /\ detached = FALSE
    /\ agent = "up" /\ todo = {}
    /\ phase = [o \in Op |-> "idle"]
    /\ held = [o \in Op |-> 0]
    /\ crashes = 0
    /\ acked = {} /\ finished = {} /\ logged = {} /\ orphaned = {} /\ tears = 0

-----------------------------------------------------------------------------
(* writeEntry *)

\* The line is in the file, with its newline; after a tail, it only ends that
\* line.
Write(l) ==
    /\ ~broken
    /\ finished' = IF l.status = "marker" THEN finished \cup {l.op} ELSE finished
    /\ IF detached
       THEN /\ orphaned' = orphaned \cup {l.op}
            /\ UNCHANGED <<lines, tail, logged>>
       ELSE /\ lines' = IF tail = {} THEN lines \cup {l} ELSE lines
            /\ tail' = {}
            /\ logged' = IF tail = {} /\ l.status = "pending"
                         THEN logged \cup {l.op} ELSE logged
            /\ UNCHANGED orphaned
    /\ UNCHANGED tears

WriteOk(l) == Write(l) /\ UNCHANGED broken

\* The entry cannot be encoded; or the write fails, part of the line may be in
\* the file, and the bufio.Writer repeats the error from now on; or only the
\* fsync fails.
WriteFails(l) ==
    \/ UNCHANGED <<file, broken, finished, logged, orphaned, tears>>
    \/ /\ broken' = TRUE
       /\ \/ UNCHANGED <<tail, tears>>
          \/ /\ ~broken /\ ~detached
             /\ tail' = {Rubble}
             /\ tears' = tears + 1
       /\ UNCHANGED <<lines, finished, logged, orphaned>>
    \/ WriteOk(l)

\* The agent dies in the middle of a write: a part of the line, or all of it but
\* its newline, is in the file.
WriteTorn(l) ==
    /\ ~broken /\ ~detached
    /\ tail' \in {{Rubble}} \cup IF tail = {} THEN {{l}} ELSE {}
    /\ tears' = tears + 1
    /\ UNCHANGED <<lines, finished, logged, orphaned>>

-----------------------------------------------------------------------------
(* Append, Commit, Abort *)

\* Fault: the error of the write is not looked at.
AppendIgnoresError(o) ==
    /\ agent = "up" /\ phase[o] = "idle"
    /\ WriteOk(PendingLine(o, lsn + 1)) \/ WriteFails(PendingLine(o, lsn + 1))
    /\ lsn' = lsn + 1
    /\ phase' = [phase EXCEPT ![o] = "held"]
    /\ held' = [held EXCEPT ![o] = lsn + 1]
    /\ acked' = acked \cup {o}
    /\ UNCHANGED <<committedN, compacting, detached, agent, todo, crashes>>

AppendOk(o) ==
    /\ agent = "up" /\ phase[o] = "idle"
    /\ WriteOk(PendingLine(o, lsn + 1))
    /\ lsn' = lsn + 1
    /\ phase' = [phase EXCEPT ![o] = "held"]
    /\ held' = [held EXCEPT ![o] = lsn + 1]
    /\ acked' = acked \cup {o}
    /\ UNCHANGED <<committedN, compacting, detached, agent, todo, crashes>>

\* The caller goes on without an LSN, and does not mark the entry later.
AppendFails(o) ==
    /\ agent = "up" /\ phase[o] = "idle"
    /\ WriteFails(PendingLine(o, lsn + 1))
    /\ lsn' = lsn + 1
    /\ phase' = [phase EXCEPT ![o] = "over"]
    /\ UNCHANGED <<held, committedN, compacting, detached, agent, todo, crashes, acked>>

\* What every Commit and Abort does: a marker with an LSN of its own.
Mark(o) ==
    /\ agent = "up" /\ phase[o] = "held"
    /\ lsn' = lsn + 1
    /\ phase' = [phase EXCEPT ![o] = "over"]
    /\ UNCHANGED <<held, detached, agent, todo, crashes, acked>>

HeldMarker(o) == Marker(o, lsn + 1, held[o])

\* Fault: the count of commits is not reset when a compaction starts.
CommitKeepsCounting(o) ==
    /\ Mark(o) /\ WriteOk(HeldMarker(o))
    /\ committedN' = committedN + 1
    /\ compacting' = (compacting \/ committedN + 1 >= CheckpointInterval)

\* Every CheckpointInterval commits start a compaction.
Commit(o) ==
    /\ Mark(o) /\ WriteOk(HeldMarker(o))
    /\ LET due == committedN + 1 >= CheckpointInterval IN
         /\ committedN' = IF due THEN 0 ELSE committedN + 1
         /\ compacting' = (compacting \/ due)

Abort(o) ==
    /\ Mark(o) /\ WriteOk(HeldMarker(o))
    /\ UNCHANGED <<committedN, compacting>>

\* The callers log or ignore the error of a Commit or an Abort.
MarkerFails(o) ==
    /\ Mark(o) /\ WriteFails(HeldMarker(o))
    /\ UNCHANGED <<committedN, compacting>>

-----------------------------------------------------------------------------
(* checkpoint *)

\* Fault: the compaction keeps every entry and drops every marker.
CheckpointKeepsMarked ==
    /\ agent = "up" /\ compacting
    /\ compacting' = FALSE
    /\ lines' = {l \in Whole : l.status = "pending"}
    /\ tail' = {}
    /\ logged' = logged \cup {l.op : l \in PendingOf(Whole)}
    /\ broken' = FALSE /\ detached' = FALSE
    /\ UNCHANGED <<lsn, committedN, agent, todo, phase, held, crashes,
                   acked, finished, orphaned, tears>>

\* The pending lines are renamed into place; if the new file then cannot be
\* opened, the log keeps writing to the old one.
Checkpoint ==
    /\ agent = "up" /\ compacting
    /\ compacting' = FALSE
    /\ lines' = PendingOf(Whole)
    /\ tail' = {}
    /\ logged' = logged \cup {l.op : l \in PendingOf(Whole)}
    /\ \/ broken' = FALSE /\ detached' = FALSE
       \/ detached' = TRUE /\ UNCHANGED broken
    /\ UNCHANGED <<lsn, committedN, agent, todo, phase, held, crashes,
                   acked, finished, orphaned, tears>>

\* Any error before the rename leaves the log as it was.
CheckpointFails ==
    /\ agent = "up" /\ compacting
    /\ compacting' = FALSE
    /\ UNCHANGED <<file, lsn, committedN, broken, detached, agent, todo, phase, held, crashes, history>>

-----------------------------------------------------------------------------
(* Crash, Open and recoverWAL *)

\* The operations that hold an LSN, and those in writing, end with the agent, and
\* so does what w holds in memory.
Die(writing) ==
    /\ agent # "down" /\ crashes < MaxCrashes
    /\ crashes' = crashes + 1
    /\ agent' = "down" /\ todo' = {}
    /\ phase' = [o \in Op |-> IF phase[o] = "held" \/ o \in writing THEN "over" ELSE phase[o]]
    /\ held' = [o \in Op |-> 0]
    /\ lsn' = 0 /\ committedN' = 0
    /\ compacting' = FALSE /\ detached' = FALSE /\ broken' = FALSE
    /\ UNCHANGED acked

Crash == Die({}) /\ UNCHANGED <<file, finished, logged, orphaned, tears>>

\* The next line that recoverWAL aborts: RecoverPending has them in the order of the file.
First == {l \in todo : \A k \in todo : l.lsn <= k.lsn}

\* The writes a crash can interrupt: an Append, a marker, an abort of recovery.
NextWrites ==
    IF agent = "up"
    THEN {PendingLine(o, lsn + 1) : o \in {p \in Op : phase[p] = "idle"}}
         \cup {Marker(o, lsn + 1, held[o]) : o \in {p \in Op : phase[p] = "held"}}
    ELSE {Marker(l.op, lsn + 1, l.lsn) : l \in First}

\* The line is torn, or written to the end and its caller never told.
CrashInWrite ==
    \E l \in NextWrites :
        /\ Die({l.op})
        /\ WriteTorn(l) \/ Write(l)

\* Fault: the LSN starts from the number of entries in the file.
OpenWalCounting ==
    /\ agent = "down"
    /\ lsn' = Cardinality(lines)
    /\ agent' = "recovering" /\ todo' = PendingOf(Whole)
    /\ UNCHANGED <<file, committedN, compacting, broken, detached, phase, held, crashes, history>>

\* wal.Open and the first half of recoverWAL.
OpenWal ==
    /\ agent = "down"
    /\ lsn' \in HighestLsn
    /\ agent' = "recovering" /\ todo' = PendingOf(Whole)
    /\ UNCHANGED <<file, committedN, compacting, broken, detached, phase, held, crashes, history>>

\* The second half, an Abort for every pending entry in turn, errors ignored.
RecoverAbort ==
    /\ agent = "recovering"
    /\ \E l \in First :
         /\ LET m == Marker(l.op, lsn + 1, l.lsn) IN WriteOk(m) \/ WriteFails(m)
         /\ todo' = todo \ {l}
    /\ lsn' = lsn + 1
    /\ UNCHANGED <<committedN, compacting, detached, agent, phase, held, crashes, acked>>

RecoverDone ==
    /\ agent = "recovering" /\ todo = {}
    /\ agent' = "up"
    /\ UNCHANGED <<file, memory, todo, phase, held, crashes, history>>

-----------------------------------------------------------------------------
Next ==
    \/ \E o \in Op : AppendOk(o) \/ AppendFails(o) \/ Commit(o) \/ Abort(o) \/ MarkerFails(o)
    \/ Checkpoint \/ CheckpointFails
    \/ Crash \/ CrashInWrite
    \/ OpenWal \/ RecoverAbort \/ RecoverDone

Spec == Init /\ [][Next]_vars
-----------------------------------------------------------------------------
(* Properties *)

\* Every variable stays in its type; the file has at most one unterminated line
\* and the commits counted never reach the interval.
TypeOK ==
    /\ \A l \in lines : l.op \in Op /\ l.of \in 1..l.lsn /\ (agent # "down" => l.lsn <= lsn)
    /\ Cardinality(tail) <= 1
    /\ lsn \in Nat
    /\ committedN \in 0..(CheckpointInterval - 1)
    /\ {compacting, broken, detached} \subseteq BOOLEAN
    /\ agent \in {"up", "down", "recovering"}
    /\ phase \in [Op -> {"idle", "held", "over"}]
    /\ held \in [Op -> 0..lsn]

\* A marker ends the operation it was written for and no other: although an LSN
\* is used again after a compaction and a restart, the LSN a marker names is
\* never one that another operation's entry has.
MarkersMatch ==
    \A m, l \in Readable(Whole) :
        m.status = "marker" /\ l.status = "pending" /\ m.of = l.lsn => m.op = l.op

\* What was lost: entries whose Append returned and that a restart would not find
\* pending, and operations that were ended and that it would find pending.
Lost == (acked \ (finished \cup Open)) \cup (finished \cap Open)

\* "The write is fsync'd before returning": nothing acknowledged is lost except
\* what went to a file that a compaction had replaced, and at most one write for
\* every torn line, the one that is glued to it.
LossBounded == Cardinality(Lost \ orphaned) <= tears

\* The operations found pending in the file evolve as PendingOps promises, through
\* every compaction, crash, torn write and recovery.
Pending == INSTANCE PendingOps WITH
    state <- [o \in Op |-> IF o \in Open THEN "pending"
                           ELSE IF o \in logged THEN "ended" ELSE "new"]

ImplementsPendingOps == Pending!PSpec

\* "caller can proceed knowing the entry is durable on disk"
AckedIsDurable == acked \ finished \subseteq Open

=============================================================================
