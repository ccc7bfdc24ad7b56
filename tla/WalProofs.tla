------------------------------ MODULE WalProofs ------------------------------
(***************************************************************************)
(* Proofs, for any operations, crashes and checkpoint interval, that a     *)
(* marker of the log never ends an operation it was not written for, that  *)
(* what a restart finds pending evolves as PendingOps promises, and that   *)
(* no more is lost than lines were torn.                                   *)
(***************************************************************************)
EXTENDS Wal, FiniteSetTheorems, TLAPS

Line == [status : {"pending", "marker"}, op : Op, lsn : Nat, of : Nat]

Typed ==
    /\ lines \subseteq Line
    /\ tail = {} \/ tail = {Rubble} \/ \E l \in Line : tail = {l}
    /\ lsn \in Nat
    /\ agent \in {"up", "down", "recovering"}
    /\ todo \subseteq Line
    /\ phase \in [Op -> {"idle", "held", "over"}]
    /\ held \in [Op -> Nat]
    /\ logged \subseteq Op

\* No two entries have one LSN or one operation, and a marker is of the operation whose
\* entry it names.
Sane(L) ==
    \A l, k \in L :
        /\ l.of <= l.lsn
        /\ l.status = "pending" => l.of = l.lsn
        /\ l.status = "pending" /\ k.status = "pending" /\ (l.lsn = k.lsn \/ l.op = k.op) => l = k
        /\ l.status = "marker" /\ k.status = "pending" /\ l.of = k.lsn => l.op = k.op

\* While the agent is alive its counter is not below any LSN it could read.
Below == agent # "down" => \A l \in Readable(Whole) : l.lsn <= lsn

\* No entry but one of o has the LSN n, and none will.
Owns(o, n) ==
    n <= lsn /\ \A l \in Readable(Whole) : l.status = "pending" /\ l.lsn = n => l.op = o

\* Who will write a marker owns the LSN that it will name.
Named ==
    /\ \A o \in Op : phase[o] = "held" => agent = "up" /\ Owns(o, held[o])
    /\ \A t \in todo : agent = "recovering" /\ Owns(t.op, t.lsn)

\* An operation that has an entry, or had one, is not appended again.
Begun ==
    /\ \A l \in Readable(Whole) : l.status = "pending" => phase[l.op] # "idle"
    /\ \A o \in logged : phase[o] # "idle"

\* The operations logged are those with a terminated entry, past ones included.
LoggedOnce ==
    /\ \A l \in lines : l.status = "pending" => l.op \in logged
    /\ \A l \in tail : l.status = "pending" => l.op \notin logged

\* The inductive invariant.
IInv == Typed /\ Sane(Readable(Whole)) /\ Below /\ Named /\ Begun /\ LoggedOnce

-----------------------------------------------------------------------------
(* Lines and sets of them *)

\* What a reader sees are lines, the terminated ones and perhaps the tail.
LEMMA ReadableLines ==
    ASSUME Typed
    PROVE  /\ Readable(Whole) \subseteq Line
           /\ Readable(lines) = lines
           /\ lines \subseteq Readable(Whole)
           /\ \A l \in Readable(Whole) : l \in lines \/ tail = {l}
BY DEF Typed, Readable, Whole, Line, Rubble

\* Sane sets stay sane when a line is added that is newer than all and of nobody else.
LEMMA SaneGrows ==
    ASSUME NEW L \in SUBSET Line, Sane(L), NEW l \in Line,
           \A k \in L : k.lsn < l.lsn,
           l.of <= l.lsn,
           l.status = "pending" =>
               l.of = l.lsn /\ \A k \in L : k.status = "pending" => k.op # l.op,
           l.status = "marker" =>
               /\ l.of < l.lsn
               /\ \A k \in L : k.status = "pending" /\ k.lsn = l.of => k.op = l.op
    PROVE  Sane(L \cup {l})
<1> SUFFICES ASSUME NEW a \in L \cup {l}, NEW b \in L \cup {l}
             PROVE  /\ a.of <= a.lsn
                    /\ a.status = "pending" => a.of = a.lsn
                    /\ a.status = "pending" /\ b.status = "pending"
                          /\ (a.lsn = b.lsn \/ a.op = b.op) => a = b
                    /\ a.status = "marker" /\ b.status = "pending" /\ a.of = b.lsn => a.op = b.op
  BY DEF Sane
<1>1. CASE a \in L /\ b \in L
  BY <1>1 DEF Sane
<1>2. CASE a \in L /\ b = l
  BY <1>2 DEF Sane, Line
<1>3. CASE a = l /\ b \in L
  BY <1>3 DEF Sane, Line
<1>4. CASE a = l /\ b = l
  BY <1>4 DEF Line
<1> QED BY <1>1, <1>2, <1>3, <1>4

\* They stay sane when lines are dropped.
LEMMA SaneSubset ==
    ASSUME NEW L, NEW K, K \subseteq L, Sane(L)
    PROVE  Sane(K)
BY DEF Sane

-----------------------------------------------------------------------------
(* Writing *)

\* A line that is about to be written.
Due(l) ==
    /\ l \in Line /\ l.lsn = lsn + 1
    /\ l.status = "pending" => l.of = l.lsn /\ phase[l.op] = "idle"
    /\ l.status = "marker" => Owns(l.op, l.of)

\* What becomes of it, with the agent alive or dying.
Attempt(l) == Write(l) \/ WriteFails(l) \/ WriteTorn(l)

FileTyped ==
    /\ lines \subseteq Line
    /\ tail = {} \/ tail = {Rubble} \/ \E l \in Line : tail = {l}
    /\ logged \subseteq Op

\* The four ways a file may look after an attempt.
LEMMA Outcomes ==
    ASSUME NEW l, Attempt(l)
    PROVE  \/ lines' = lines /\ tail' = tail /\ logged' = logged
           \/ lines' = lines /\ tail' \in {{}, {Rubble}} /\ logged' = logged
           \/ lines' = lines /\ tail = {} /\ tail' = {l} /\ logged' = logged
           \/ /\ tail = {} /\ tail' = {} /\ lines' = lines \cup {l}
              /\ logged' = IF l.status = "pending" THEN logged \cup {l.op} ELSE logged
<1>1. CASE Write(l)
  BY <1>1 DEF Write
<1>2. CASE WriteFails(l)
  BY <1>2 DEF WriteFails, WriteOk, Write, file
<1>3. CASE WriteTorn(l)
  BY <1>3 DEF WriteTorn
<1> QED BY <1>1, <1>2, <1>3 DEF Attempt

\* The file stays sane, and only the line of the attempt is new in it.
LEMMA AttemptKeeps ==
    ASSUME IInv, agent # "down", NEW l, Due(l), Attempt(l)
    PROVE  /\ FileTyped'
           /\ Sane(Readable(Whole)')
           /\ \A k \in Readable(Whole)' : k \in Readable(Whole) \/ k = l
           /\ \A k \in Readable(Whole)' : k.lsn <= lsn + 1
           /\ LoggedOnce'
           /\ \A o \in logged' : o \in logged \/ (l.status = "pending" /\ o = l.op)
<1> USE DEF IInv
<1>1. l \in Line /\ l.op \in Op
  BY DEF Due, Line
<1>2. FileTyped'
  BY <1>1, Outcomes DEF FileTyped, Typed
<1>3. \A k \in Readable(Whole)' : k \in Readable(Whole) \/ k = l
  BY Outcomes DEF Readable, Whole, Rubble
<1>4. Sane(Readable(Whole) \cup {l})
  <2>1. Readable(Whole) \subseteq Line
    BY ReadableLines
  <2>2. \A k \in Readable(Whole) : k.lsn < l.lsn
    BY <2>1 DEF Below, Due, Typed, Line
  <2>3. l.of <= l.lsn /\ (l.status = "marker" => l.of < l.lsn)
    BY <1>1 DEF Due, Owns, Line, Typed
  <2>4. l.status = "pending" =>
            l.of = l.lsn /\ \A k \in Readable(Whole) : k.status = "pending" => k.op # l.op
    BY DEF Due, Begun
  <2>5. l.status = "marker" =>
            \A k \in Readable(Whole) : k.status = "pending" /\ k.lsn = l.of => k.op = l.op
    BY DEF Due, Owns
  <2> QED BY <1>1, <2>1, <2>2, <2>3, <2>4, <2>5, SaneGrows
<1>5. Sane(Readable(Whole)')
  <2>1. Readable(Whole)' \subseteq Readable(Whole) \cup {l}
    BY <1>3
  <2> QED BY <2>1, <1>4, SaneSubset
<1>6. \A k \in Readable(Whole)' : k.lsn <= lsn + 1
  BY <1>1, <1>3, ReadableLines DEF Below, Due, Typed, Line
<1>7. l.status = "pending" => l.op \notin logged
  BY DEF Due, Begun
<1>8. LoggedOnce'
  <2>1. CASE lines' = lines /\ tail' = tail /\ logged' = logged
    BY <2>1 DEF LoggedOnce
  <2>2. CASE lines' = lines /\ tail' \in {{}, {Rubble}} /\ logged' = logged
    BY <2>2 DEF LoggedOnce, Rubble
  <2>3. CASE lines' = lines /\ tail = {} /\ tail' = {l} /\ logged' = logged
    BY <1>7, <2>3 DEF LoggedOnce
  <2>4. CASE /\ tail = {} /\ tail' = {} /\ lines' = lines \cup {l}
             /\ logged' = IF l.status = "pending" THEN logged \cup {l.op} ELSE logged
    BY <2>4 DEF LoggedOnce
  <2> QED BY <2>1, <2>2, <2>3, <2>4, Outcomes
<1>9. \A o \in logged' : o \in logged \/ (l.status = "pending" /\ o = l.op)
  BY Outcomes
<1> QED BY <1>2, <1>3, <1>5, <1>6, <1>8, <1>9

\* What was owned stays owned.
LEMMA OwnsKept ==
    ASSUME IInv, agent # "down", NEW l, Due(l), Attempt(l), lsn' = lsn + 1,
           NEW o, NEW n \in Nat, Owns(o, n)
    PROVE  Owns(o, n)'
<1>1. \A k \in Readable(Whole)' : k \in Readable(Whole) \/ k = l
  BY AttemptKeeps
<1>2. l.lsn # n
  BY DEF Due, Owns, IInv, Typed
<1> QED BY <1>1, <1>2 DEF Owns, IInv, Typed

-----------------------------------------------------------------------------
(* The steps *)

\* The invariant holds of the empty log.
LEMMA InitIInv == Init => IInv
BY DEF Init, IInv, Typed, Sane, Below, Named, Begun, LoggedOnce, Readable, Whole

\* What holds after any write of an agent that lives on.
LEMMA WriteStep ==
    ASSUME IInv, agent # "down", NEW l, Due(l), Attempt(l), lsn' = lsn + 1
    PROVE  FileTyped' /\ lsn' \in Nat /\ Sane(Readable(Whole)') /\ Below' /\ LoggedOnce'
BY AttemptKeeps DEF IInv, Typed, Below

\* An Append takes an LSN that no line has, whatever becomes of its line.
LEMMA AppendStep ==
    ASSUME IInv, NEW o \in Op, AppendOk(o) \/ AppendFails(o)
    PROVE  IInv'
<1> DEFINE l == PendingLine(o, lsn + 1)
<1>1. agent = "up" /\ phase[o] = "idle" /\ Attempt(l) /\ lsn' = lsn + 1 /\ agent' = agent
      /\ todo' = todo
  BY DEF AppendOk, AppendFails, Attempt, WriteOk
<1>2. Due(l)
  BY <1>1 DEF Due, PendingLine, Line, IInv, Typed
<1>3. \/ /\ phase' = [phase EXCEPT ![o] = "held"]
         /\ held' = [held EXCEPT ![o] = lsn + 1]
      \/ /\ phase' = [phase EXCEPT ![o] = "over"]
         /\ held' = held
  BY DEF AppendOk, AppendFails
<1>4. FileTyped' /\ lsn' \in Nat /\ Sane(Readable(Whole)') /\ Below' /\ LoggedOnce'
  BY <1>1, <1>2, WriteStep
<1>5. todo = {}
  BY <1>1 DEF IInv, Named
<1>6. Typed'
  BY <1>1, <1>3, <1>4 DEF IInv, Typed, FileTyped
<1>7. Named'
  <2> SUFFICES ASSUME NEW p \in Op, phase'[p] = "held" PROVE Owns(p, held[p])'
    BY <1>1, <1>5 DEF Named
  <2>1. CASE p = o
    <3>1. held'[p] = lsn + 1
      BY <1>3, <2>1 DEF IInv, Typed
    <3>2. \A k \in Readable(Whole)' : k \in Readable(Whole) \/ k = l
      BY <1>1, <1>2, AttemptKeeps
    <3>3. \A k \in Readable(Whole)' : k.lsn = lsn + 1 => k.op = p
      BY <1>1, <2>1, <3>2, ReadableLines DEF IInv, Below, Typed, Line, PendingLine
    <3> QED BY <1>1, <3>1, <3>3 DEF Owns, IInv, Typed
  <2>2. CASE p # o
    <3>1. phase[p] = "held" /\ held'[p] = held[p] /\ held[p] \in Nat
      BY <1>3, <2>2 DEF IInv, Typed
    <3>2. Owns(p, held[p])
      BY <3>1 DEF IInv, Named
    <3>3. \A n \in Nat : Owns(p, n) => Owns(p, n)'
      BY <1>1, <1>2, OwnsKept
    <3> QED BY <3>1, <3>2, <3>3 DEF Owns
  <2> QED BY <2>1, <2>2
<1>8. Begun'
  <2>1. \A k \in Readable(Whole)' : k \in Readable(Whole) \/ k = l
    BY <1>1, <1>2, AttemptKeeps
  <2>2. \A p \in logged' : p \in logged \/ p = o
    BY <1>1, <1>2, AttemptKeeps DEF PendingLine
  <2>3. phase'[o] # "idle" /\ \A p \in Op : phase[p] # "idle" => phase'[p] # "idle"
    BY <1>3 DEF IInv, Typed
  <2>4. \A k \in Readable(Whole)' : k.status = "pending" => phase'[k.op] # "idle"
    BY <2>1, <2>3, ReadableLines DEF IInv, Begun, Line, PendingLine
  <2>5. \A p \in logged' : phase'[p] # "idle"
    BY <2>2, <2>3 DEF IInv, Begun, Typed
  <2> QED BY <2>4, <2>5 DEF Begun
<1>9. Sane(Readable(Whole))'
  BY <1>4 DEF Sane, Readable, Whole
<1> QED BY <1>4, <1>6, <1>7, <1>8, <1>9 DEF IInv

\* A Commit or an Abort names the LSN that the operation owns.
LEMMA MarkStep ==
    ASSUME IInv, NEW o \in Op, Commit(o) \/ Abort(o) \/ MarkerFails(o)
    PROVE  IInv'
<1> DEFINE l == HeldMarker(o)
<1>1. agent = "up" /\ phase[o] = "held" /\ Attempt(l) /\ lsn' = lsn + 1 /\ agent' = agent
      /\ todo' = todo /\ held' = held /\ phase' = [phase EXCEPT ![o] = "over"]
  BY DEF Commit, Abort, MarkerFails, Mark, Attempt, WriteOk
<1>2. Due(l)
  BY <1>1 DEF Due, HeldMarker, Marker, Line, IInv, Typed, Named
<1>3. l.status = "marker"
  BY DEF HeldMarker, Marker
<1>4. FileTyped' /\ lsn' \in Nat /\ Sane(Readable(Whole)') /\ Below' /\ LoggedOnce'
  BY <1>1, <1>2, WriteStep
<1>5. Typed'
  BY <1>1, <1>4 DEF IInv, Typed, FileTyped
<1>6. Named'
  <2>1. todo = {}
    BY <1>1 DEF IInv, Named
  <2>2. ASSUME NEW p \in Op, phase'[p] = "held" PROVE Owns(p, held[p])'
    <3>1. phase[p] = "held" /\ held'[p] = held[p] /\ held[p] \in Nat
      BY <1>1, <2>2 DEF IInv, Typed
    <3>2. Owns(p, held[p])
      BY <3>1 DEF IInv, Named
    <3>3. \A n \in Nat : Owns(p, n) => Owns(p, n)'
      BY <1>1, <1>2, OwnsKept
    <3> QED BY <3>1, <3>2, <3>3 DEF Owns
  <2> QED BY <1>1, <2>1, <2>2 DEF Named
<1>7. Begun'
  <2>1. \A k \in Readable(Whole)' : k \in Readable(Whole) \/ k = l
    BY <1>1, <1>2, AttemptKeeps
  <2>2. logged' \subseteq logged
    BY <1>1, <1>2, <1>3, AttemptKeeps
  <2>3. \A p \in Op : phase[p] # "idle" => phase'[p] # "idle"
    BY <1>1 DEF IInv, Typed
  <2>4. \A k \in Readable(Whole)' : k.status = "pending" => phase'[k.op] # "idle"
    BY <1>3, <2>1, <2>3, ReadableLines DEF IInv, Begun, Line
  <2>5. \A p \in logged' : phase'[p] # "idle"
    BY <2>2, <2>3 DEF IInv, Begun, Typed
  <2> QED BY <2>4, <2>5 DEF Begun
<1>8. Sane(Readable(Whole))'
  BY <1>4 DEF Sane, Readable, Whole
<1> QED BY <1>4, <1>5, <1>6, <1>7, <1>8 DEF IInv

\* An agent that recovers writes markers only, and no operation holds an LSN.
LEMMA RecoverAbortStep ==
    ASSUME IInv, RecoverAbort
    PROVE  IInv'
<1>1. PICK l \in First : LET m == Marker(l.op, lsn + 1, l.lsn) IN
          /\ WriteOk(m) \/ WriteFails(m)
          /\ todo' = todo \ {l}
  BY DEF RecoverAbort
<1> DEFINE m == Marker(l.op, lsn + 1, l.lsn)
<1>2. agent = "recovering" /\ Attempt(m) /\ lsn' = lsn + 1
      /\ agent' = agent /\ held' = held /\ phase' = phase /\ todo' \subseteq todo
  BY <1>1 DEF RecoverAbort, Attempt, WriteOk
<1>3. l \in todo /\ l \in Line /\ Owns(l.op, l.lsn)
  BY DEF First, IInv, Named, Typed
<1>4. Due(m)
  BY <1>3 DEF Due, Marker, Line, IInv, Typed
<1>5. m.status = "marker"
  BY DEF Marker
<1>6. FileTyped' /\ lsn' \in Nat /\ Sane(Readable(Whole)') /\ Below' /\ LoggedOnce'
  BY <1>2, <1>4, WriteStep
<1>7. Typed'
  BY <1>2, <1>6 DEF IInv, Typed, FileTyped
<1>8. Named'
  <2>1. \A p \in Op : phase[p] # "held"
    BY <1>2 DEF IInv, Named
  <2>2. ASSUME NEW t \in todo' PROVE Owns(t.op, t.lsn)'
    <3>1. t \in todo /\ t.lsn \in Nat /\ Owns(t.op, t.lsn)
      BY <1>2, <2>2 DEF IInv, Named, Typed, Line
    <3>2. \A n \in Nat : Owns(t.op, n) => Owns(t.op, n)'
      BY <1>2, <1>4, OwnsKept
    <3> QED BY <3>1, <3>2
  <2> QED BY <1>2, <2>1, <2>2 DEF Named
<1>9. Begun'
  <2>1. \A k \in Readable(Whole)' : k \in Readable(Whole) \/ k = m
    BY <1>2, <1>4, AttemptKeeps
  <2>2. logged' \subseteq logged
    BY <1>2, <1>4, <1>5, AttemptKeeps
  <2> QED BY <1>2, <1>5, <2>1, <2>2 DEF IInv, Begun
<1>10. Sane(Readable(Whole))'
  BY <1>6 DEF Sane, Readable, Whole
<1> QED BY <1>6, <1>7, <1>8, <1>9, <1>10 DEF IInv

\* A compaction keeps pending lines only: whoever owned an LSN still does.
LEMMA CheckpointStep ==
    ASSUME IInv, Checkpoint
    PROVE  IInv'
<1>1. /\ agent = "up" /\ agent' = agent /\ todo' = todo /\ lsn' = lsn
      /\ phase' = phase /\ held' = held
      /\ lines' = PendingOf(Whole) /\ tail' = {}
      /\ logged' = logged \cup {l.op : l \in PendingOf(Whole)}
  BY DEF Checkpoint
<1>2. /\ PendingOf(Whole) \subseteq Readable(Whole)
      /\ \A l \in PendingOf(Whole) : l.status = "pending"
  BY DEF PendingOf
<1>3. Readable(Whole)' = PendingOf(Whole)
  BY <1>1, <1>2 DEF Readable, Whole
<1>4. Typed'
  BY <1>1, <1>2, ReadableLines DEF IInv, Typed, Line
<1>5. Sane(Readable(Whole))'
  <2>1. Sane(PendingOf(Whole))
    BY <1>2, SaneSubset DEF IInv
  <2>2. Sane(Readable(Whole)')
    BY <1>3, <2>1
  <2> QED BY <2>2 DEF Sane, Readable, Whole
<1>6. Below' /\ Named'
  BY <1>1, <1>2, <1>3 DEF IInv, Below, Named, Owns
<1>7. Begun'
  BY <1>1, <1>2, <1>3 DEF IInv, Begun
<1>8. LoggedOnce'
  BY <1>1 DEF LoggedOnce
<1> QED BY <1>4, <1>5, <1>6, <1>7, <1>8 DEF IInv

\* With the agent die its counter and what it held; only the file is left.
LEMMA CrashStep ==
    ASSUME IInv, Crash
    PROVE  IInv'
<1>1. lines' = lines /\ tail' = tail /\ logged' = logged
  BY DEF Crash, file
<1>2. /\ agent' = "down" /\ todo' = {} /\ lsn' = 0 /\ held' = [o \in Op |-> 0]
      /\ phase' = [o \in Op |-> IF phase[o] = "held" \/ o \in {} THEN "over" ELSE phase[o]]
  BY DEF Crash, Die
<1>3. Readable(Whole)' = Readable(Whole)
  BY <1>1 DEF Readable, Whole
<1>4. Typed'
  BY <1>1, <1>2 DEF IInv, Typed
<1>5. Sane(Readable(Whole))'
  BY <1>3 DEF IInv, Sane, Readable, Whole
<1>6. Below' /\ Named'
  BY <1>2 DEF IInv, Typed, Below, Named
<1>7. Begun'
  BY <1>1, <1>2, <1>3, ReadableLines DEF IInv, Typed, Begun, Line
<1>8. LoggedOnce'
  BY <1>1 DEF IInv, LoggedOnce
<1> QED BY <1>4, <1>5, <1>6, <1>7, <1>8 DEF IInv

\* A line that a crash interrupts was about to be written.
LEMMA NextWritesAreDue ==
    ASSUME IInv, agent # "down", NEW l \in NextWrites
    PROVE  Due(l) /\ l.op \in Op
<1>1. CASE agent = "up"
  <2>1. \/ \E o \in Op : phase[o] = "idle" /\ l = PendingLine(o, lsn + 1)
        \/ \E o \in Op : phase[o] = "held" /\ l = Marker(o, lsn + 1, held[o])
    BY <1>1 DEF NextWrites
  <2>2. CASE \E o \in Op : phase[o] = "idle" /\ l = PendingLine(o, lsn + 1)
    BY <2>2 DEF Due, PendingLine, Line, IInv, Typed
  <2>3. CASE \E o \in Op : phase[o] = "held" /\ l = Marker(o, lsn + 1, held[o])
    BY <2>3 DEF Due, Marker, Line, IInv, Typed, Named
  <2> QED BY <2>1, <2>2, <2>3
<1>2. CASE agent # "up"
  <2>1. PICK t \in First : l = Marker(t.op, lsn + 1, t.lsn)
    BY <1>2 DEF NextWrites
  <2>2. t \in todo /\ t \in Line /\ Owns(t.op, t.lsn)
    BY DEF First, IInv, Named, Typed
  <2> QED BY <2>1, <2>2 DEF Due, Marker, Line, IInv, Typed
<1> QED BY <1>1, <1>2

\* A crash in a write leaves what an attempt leaves, to an agent that is down.
LEMMA CrashInWriteStep ==
    ASSUME IInv, CrashInWrite
    PROVE  IInv'
<1>1. PICK l \in NextWrites : Die({l.op}) /\ (WriteTorn(l) \/ Write(l))
  BY DEF CrashInWrite
<1>2. agent # "down" /\ Due(l) /\ Attempt(l) /\ l.op \in Op
  BY <1>1, NextWritesAreDue DEF Die, Attempt
<1>3. /\ agent' = "down" /\ todo' = {} /\ lsn' = 0 /\ held' = [o \in Op |-> 0]
      /\ phase' = [o \in Op |-> IF phase[o] = "held" \/ o \in {l.op} THEN "over" ELSE phase[o]]
  BY <1>1 DEF Die
<1>4. /\ FileTyped' /\ Sane(Readable(Whole)') /\ LoggedOnce'
      /\ \A k \in Readable(Whole)' : k \in Readable(Whole) \/ k = l
      /\ \A o \in logged' : o \in logged \/ (l.status = "pending" /\ o = l.op)
  BY <1>2, AttemptKeeps
<1>5. Typed'
  BY <1>3, <1>4 DEF IInv, Typed, FileTyped
<1>6. Sane(Readable(Whole))'
  BY <1>4 DEF Sane, Readable, Whole
<1>7. Below' /\ Named'
  BY <1>3 DEF IInv, Typed, Below, Named
<1>8. Begun'
  <2>1. phase'[l.op] = "over" /\ \A o \in Op : phase[o] # "idle" => phase'[o] # "idle"
    BY <1>2, <1>3 DEF IInv, Typed
  <2>2. \A k \in Readable(Whole)' : k.status = "pending" => phase'[k.op] # "idle"
    BY <1>4, <2>1, ReadableLines DEF IInv, Begun, Line
  <2>3. \A o \in logged' : phase'[o] # "idle"
    BY <1>4, <2>1 DEF IInv, Begun, Typed
  <2> QED BY <2>2, <2>3 DEF Begun
<1> QED BY <1>4, <1>5, <1>6, <1>7, <1>8 DEF IInv

\* A restart counts on from the highest LSN it reads, and every pending entry owns its own.
LEMMA OpenWalStep ==
    ASSUME IInv, OpenWal
    PROVE  IInv'
<1>1. /\ agent' = "recovering" /\ todo' = PendingOf(Whole) /\ lsn' \in HighestLsn
      /\ lines' = lines /\ tail' = tail /\ logged' = logged
      /\ phase' = phase /\ held' = held /\ agent = "down"
  BY DEF OpenWal, file, history
<1>2. Readable(Whole)' = Readable(Whole)
  BY <1>1 DEF Readable, Whole
<1>3. lsn' \in Nat /\ \A l \in Readable(Whole) : l.lsn <= lsn'
  BY <1>1, ReadableLines DEF HighestLsn, Line, IInv
<1>4. /\ PendingOf(Whole) \subseteq Readable(Whole)
      /\ \A t \in PendingOf(Whole) : t.status = "pending"
  BY DEF PendingOf
<1>5. Typed'
  BY <1>1, <1>3, <1>4, ReadableLines DEF IInv, Typed
<1>6. Sane(Readable(Whole))'
  BY <1>2 DEF IInv, Sane, Readable, Whole
<1>7. Below'
  BY <1>2, <1>3 DEF Below
<1>8. Named'
  <2>1. \A o \in Op : phase'[o] # "held"
    BY <1>1 DEF IInv, Named
  <2>2. ASSUME NEW t \in todo' PROVE Owns(t.op, t.lsn)'
    BY <1>1, <1>2, <1>3, <1>4, <2>2 DEF Owns, IInv, Sane
  <2> QED BY <1>1, <2>1, <2>2 DEF Named
<1>9. Begun' /\ LoggedOnce'
  BY <1>1, <1>2 DEF IInv, Begun, LoggedOnce
<1> QED BY <1>5, <1>6, <1>7, <1>8, <1>9 DEF IInv

\* Steps that touch neither the file nor what the agent holds.
LEMMA QuietStep ==
    ASSUME IInv, CheckpointFails \/ RecoverDone \/ UNCHANGED vars
    PROVE  IInv'
<1>1. /\ lines' = lines /\ tail' = tail /\ lsn' = lsn /\ todo' = todo
      /\ phase' = phase /\ held' = held /\ logged' = logged
  BY DEF CheckpointFails, RecoverDone, vars, file, memory, history
<1>2. agent' = agent \/ (agent' = "up" /\ agent = "recovering" /\ todo = {})
  BY DEF CheckpointFails, RecoverDone, vars
<1>3. Readable(Whole)' = Readable(Whole)
  BY <1>1 DEF Readable, Whole
<1>4. Sane(Readable(Whole))'
  BY <1>3 DEF IInv, Sane, Readable, Whole
<1>5. Typed'
  BY <1>1, <1>2 DEF IInv, Typed
<1>6. Below'
  BY <1>1, <1>2, <1>3 DEF IInv, Below
<1>7. Named'
  BY <1>1, <1>2, <1>3 DEF IInv, Named, Owns
<1>8. Begun' /\ LoggedOnce'
  BY <1>1, <1>3 DEF IInv, Begun, LoggedOnce
<1> QED BY <1>4, <1>5, <1>6, <1>7, <1>8 DEF IInv

\* Every step preserves the invariant.
LEMMA NextIInv == IInv /\ [Next]_vars => IInv'
BY AppendStep, MarkStep, CheckpointStep, CrashStep, CrashInWriteStep, OpenWalStep,
   RecoverAbortStep, QuietStep DEF Next

\* The invariant holds always.
LEMMA Invariance == Spec => []IInv
BY InitIInv, NextIInv, PTL DEF Spec

\* A Commit, an Abort or an abort of recovery ends the operation it was written for:
\* an LSN that is used again never carries a marker over to another entry
\* (wal.go:100, recovery.go:20, agent.go:776).
THEOREM MarkersAlwaysMatch == Spec => []MarkersMatch
<1>1. IInv => MarkersMatch
  BY DEF IInv, Sane, MarkersMatch
<1> QED BY <1>1, Invariance, PTL

-----------------------------------------------------------------------------
(* The refinement *)

Ops(ls) == {l.op : l \in ls}

\* An entry added to the lines is pending, or some marker named its LSN before.
LEMMA OneBegins ==
    ASSUME NEW L \in SUBSET Line, NEW p \in Line, p.status = "pending"
    PROVE  \/ Ops(PendingOf(L \cup {p})) = Ops(PendingOf(L))
           \/ Ops(PendingOf(L \cup {p})) = Ops(PendingOf(L)) \cup {p.op}
<1>1. /\ PendingOf(L) \subseteq PendingOf(L \cup {p})
      /\ PendingOf(L \cup {p}) \subseteq PendingOf(L) \cup {p}
  BY DEF PendingOf, Readable, Line
<1> QED BY <1>1 DEF Ops

\* A marker added to sane lines ends the operation it is of, or nothing.
LEMMA OneEnds ==
    ASSUME NEW L \in SUBSET Line, NEW m \in Line, m.status = "marker", Sane(L \cup {m})
    PROVE  \/ Ops(PendingOf(L \cup {m})) = Ops(PendingOf(L))
           \/ /\ m.op \in Ops(PendingOf(L))
              /\ Ops(PendingOf(L \cup {m})) = Ops(PendingOf(L)) \ {m.op}
<1>1. PendingOf(L \cup {m}) = {k \in PendingOf(L) : k.lsn # m.of}
  BY DEF PendingOf, Readable, Line
<1>2. \A k \in PendingOf(L) : k.status = "pending" /\ k \in L
  BY DEF PendingOf, Readable
<1>3. CASE \E k \in PendingOf(L) : k.lsn = m.of
  <2>1. PICK k \in PendingOf(L) : k.lsn = m.of
    BY <1>3
  <2>2. k.op = m.op
    BY <1>2, <2>1 DEF Sane
  <2>3. \A j \in PendingOf(L) : j.lsn = m.of <=> j.op = m.op
    BY <1>2, <2>1, <2>2 DEF Sane
  <2> QED BY <1>1, <2>1, <2>2, <2>3 DEF Ops
<1>4. CASE ~\E k \in PendingOf(L) : k.lsn = m.of
  BY <1>1, <1>4 DEF Ops
<1> QED BY <1>3, <1>4

\* What the file shows of the operations, before and after a step.
state == [o \in Op |-> IF o \in Open THEN "pending"
                       ELSE IF o \in logged THEN "ended" ELSE "new"]

\* A step that leaves the log alone.
LEMMA SameView ==
    ASSUME Open' = Open, logged' = logged
    PROVE  state' = state
BY DEF state

\* A line that is written.
LEMMA Logs ==
    ASSUME NEW o \in Op, o \notin logged, Open \subseteq logged,
           Open' = Open \cup {o}, logged' = logged \cup {o}
    PROVE  state[o] = "new" /\ state' = [state EXCEPT ![o] = "pending"]
BY DEF state

\* An operation that is finished.
LEMMA Finishes ==
    ASSUME NEW o \in Open, o \in Op, Open' = Open \ {o}, logged' = logged, o \in logged
    PROVE  state[o] = "pending" /\ state' = [state EXCEPT ![o] = "ended"]
BY DEF state

\* A step of PendingOps, or none.
PendingStep == (\E o \in Op : Pending!Log(o) \/ Pending!Finish(o)) \/ state' = state

\* Every operation found pending was logged.
LEMMA OpenIsLogged ==
    ASSUME IInv
    PROVE  /\ Open \subseteq logged /\ logged \subseteq Op
           /\ Open = Ops(PendingOf(lines))
BY DEF IInv, Typed, LoggedOnce, Open, Ops, PendingOf, Readable

\* A line written to its end logs its operation or ends it.
LEMMA AttemptRefines ==
    ASSUME IInv, agent # "down", NEW l, Due(l), Attempt(l)
    PROVE  PendingStep
<1>1. CASE lines' = lines /\ logged' = logged
  BY <1>1, SameView DEF PendingStep, Open, PendingOf, Readable
<1>2. CASE /\ tail = {} /\ tail' = {} /\ lines' = lines \cup {l}
           /\ logged' = IF l.status = "pending" THEN logged \cup {l.op} ELSE logged
  <2>1. /\ lines \subseteq Line /\ l \in Line /\ l.op \in Op
        /\ Readable(Whole) = lines
    BY <1>2, ReadableLines DEF IInv, Typed, Due, Line, Whole
  <2>2. Open' = Ops(PendingOf(lines \cup {l}))
    BY <1>2 DEF Open, Ops, PendingOf, Readable
  <2>3. CASE l.status = "pending"
    <3>1. \A m \in lines : m.of # l.lsn
      <4> SUFFICES ASSUME NEW m \in lines PROVE m.of # l.lsn
        OBVIOUS
      <4>1. m.lsn <= lsn /\ m.of <= m.lsn /\ m.lsn \in Nat /\ m.of \in Nat /\ lsn \in Nat
        BY <2>1 DEF IInv, Below, Sane, Typed, Line
      <4> QED BY <4>1 DEF Due
    <3>2. PendingOf(lines \cup {l}) = PendingOf(lines) \cup {l}
      BY <2>1, <2>3, <3>1 DEF PendingOf, Readable, Line
    <3>3. Open' = Open \cup {l.op}
      BY <2>2, <3>2, OpenIsLogged DEF Ops
    <3>4. l.op \notin logged /\ logged' = logged \cup {l.op}
      BY <1>2, <2>3 DEF Due, IInv, Begun
    <3>5. state[l.op] = "new" /\ state' = [state EXCEPT ![l.op] = "pending"]
      BY <2>1, <3>3, <3>4, OpenIsLogged, Logs
    <3> QED BY <2>1, <3>5 DEF PendingStep, Pending!Log, state
  <2>4. CASE l.status = "marker"
    <3>1. logged' = logged
      BY <1>2, <2>4
    <3>2. Sane(lines \cup {l})
      <4>1. Sane(Readable(Whole)')
        BY AttemptKeeps
      <4>2. Readable(Whole)' = lines \cup {l}
        BY <1>2, <2>1 DEF Readable, Whole, Line
      <4> QED BY <4>1, <4>2
    <3>3. Open' = Open \/ (l.op \in Open /\ Open' = Open \ {l.op})
      BY <2>1, <2>2, <2>4, <3>2, OneEnds, OpenIsLogged
    <3>4. CASE Open' = Open
      BY <3>1, <3>4, SameView DEF PendingStep
    <3>5. CASE l.op \in Open /\ Open' = Open \ {l.op}
      <4>1. state[l.op] = "pending" /\ state' = [state EXCEPT ![l.op] = "ended"]
        BY <2>1, <3>1, <3>5, OpenIsLogged, Finishes
      <4> QED BY <2>1, <4>1 DEF PendingStep, Pending!Finish, state
    <3> QED BY <3>3, <3>4, <3>5
  <2> QED BY <2>1, <2>3, <2>4 DEF Line
<1> QED BY <1>1, <1>2, Outcomes

\* A compaction ends the tail's line as a newline would.
LEMMA CheckpointRefines ==
    ASSUME IInv, Checkpoint
    PROVE  PendingStep
<1>1. /\ lines' = PendingOf(Whole)
      /\ logged' = logged \cup Ops(PendingOf(Whole))
  BY DEF Checkpoint, Ops
<1>2. Open' = Ops(PendingOf(Whole))
  BY <1>1 DEF Open, Ops, PendingOf, Readable
<1>3. lines \in SUBSET Line /\ Open = Ops(PendingOf(lines)) /\ Open \subseteq logged
  BY OpenIsLogged DEF IInv, Typed
<1>4. CASE tail = {} \/ tail = {Rubble}
  <2>1. PendingOf(Whole) = PendingOf(lines)
    BY <1>4 DEF PendingOf, Readable, Whole, Rubble
  <2> QED BY <1>1, <1>2, <1>3, <2>1, SameView DEF PendingStep
<1>5. CASE \E l \in Line : tail = {l}
  <2>1. PICK l \in Line : tail = {l}
    BY <1>5
  <2>2. Whole = lines \cup {l} /\ Readable(Whole) = lines \cup {l} /\ l.op \in Op
    BY <1>3, <2>1 DEF Whole, Readable, Line
  <2>3. CASE l.status = "pending"
    <3>1. Open' = Open \/ Open' = Open \cup {l.op}
      BY <1>2, <1>3, <2>2, <2>3, OneBegins
    <3>2. l.op \notin logged
      BY <2>1, <2>3 DEF IInv, LoggedOnce
    <3>3. CASE Open' = Open
      BY <1>1, <1>2, <1>3, <3>3, SameView DEF PendingStep
    <3>4. CASE Open' = Open \cup {l.op}
      <4>1. logged' = logged \cup {l.op}
        BY <1>1, <1>2, <1>3, <3>4
      <4>2. state[l.op] = "new" /\ state' = [state EXCEPT ![l.op] = "pending"]
        BY <1>3, <2>2, <3>2, <3>4, <4>1, Logs
      <4> QED BY <2>2, <4>2 DEF PendingStep, Pending!Log, state
    <3> QED BY <3>1, <3>3, <3>4
  <2>4. CASE l.status = "marker"
    <3>1. Sane(lines \cup {l})
      BY <2>2 DEF IInv
    <3>2. Open' = Open \/ (l.op \in Open /\ Open' = Open \ {l.op})
      BY <1>2, <1>3, <2>2, <2>4, <3>1, OneEnds
    <3>3. logged' = logged
      BY <1>1, <1>2, <1>3, <3>2
    <3>4. CASE Open' = Open
      BY <3>3, <3>4, SameView DEF PendingStep
    <3>5. CASE l.op \in Open /\ Open' = Open \ {l.op}
      <4>1. state[l.op] = "pending" /\ state' = [state EXCEPT ![l.op] = "ended"]
        BY <1>3, <2>2, <3>3, <3>5, Finishes
      <4> QED BY <2>2, <4>1 DEF PendingStep, Pending!Finish, state
    <3> QED BY <3>2, <3>4, <3>5
  <2> QED BY <2>3, <2>4 DEF Line
<1> QED BY <1>4, <1>5 DEF IInv, Typed

\* Every step is one of PendingOps or leaves what it shows alone.
LEMMA StepRefines ==
    ASSUME IInv, [Next]_vars
    PROVE  PendingStep
<1>1. ASSUME NEW o \in Op, AppendOk(o) \/ AppendFails(o) PROVE PendingStep
  <2>1. agent # "down" /\ Attempt(PendingLine(o, lsn + 1)) /\ phase[o] = "idle"
    BY <1>1 DEF AppendOk, AppendFails, Attempt, WriteOk
  <2>2. Due(PendingLine(o, lsn + 1))
    BY <2>1 DEF Due, PendingLine, Line, IInv, Typed
  <2> QED BY <2>1, <2>2, AttemptRefines
<1>2. ASSUME NEW o \in Op, Commit(o) \/ Abort(o) \/ MarkerFails(o) PROVE PendingStep
  <2>1. agent # "down" /\ Attempt(HeldMarker(o)) /\ phase[o] = "held"
    BY <1>2 DEF Commit, Abort, MarkerFails, Mark, Attempt, WriteOk
  <2>2. Due(HeldMarker(o))
    BY <2>1 DEF Due, HeldMarker, Marker, Line, IInv, Typed, Named
  <2> QED BY <2>1, <2>2, AttemptRefines
<1>3. CASE RecoverAbort
  <2>1. PICK l \in First : LET m == Marker(l.op, lsn + 1, l.lsn) IN WriteOk(m) \/ WriteFails(m)
    BY <1>3 DEF RecoverAbort
  <2>2. agent # "down" /\ Attempt(Marker(l.op, lsn + 1, l.lsn))
    BY <1>3, <2>1 DEF RecoverAbort, Attempt, WriteOk
  <2>3. Due(Marker(l.op, lsn + 1, l.lsn))
    BY DEF First, Due, Marker, Line, IInv, Typed, Named
  <2> QED BY <2>2, <2>3, AttemptRefines
<1>4. CASE CrashInWrite
  <2>1. PICK l \in NextWrites : agent # "down" /\ Attempt(l)
    BY <1>4 DEF CrashInWrite, Die, Attempt
  <2> QED BY <2>1, NextWritesAreDue, AttemptRefines
<1>5. CASE Checkpoint
  BY <1>5, CheckpointRefines
<1>6. CASE CheckpointFails \/ Crash \/ OpenWal \/ RecoverDone \/ UNCHANGED vars
  <2>1. lines' = lines /\ logged' = logged
    BY <1>6 DEF CheckpointFails, Crash, OpenWal, RecoverDone, vars, file, history
  <2> QED BY <2>1, SameView DEF PendingStep, Open, PendingOf, Readable
<1> QED BY <1>1, <1>2, <1>3, <1>4, <1>5, <1>6 DEF Next

\* The log implements PendingOps: through every compaction, crash, torn write and
\* recovery an operation is found pending from its entry to its marker and never again.
THEOREM WalImplementsPendingOps == Spec => ImplementsPendingOps
<1>1. Init => Pending!PInit
  BY DEF Init, Pending!PInit, Open, PendingOf, Readable
<1>2. IInv /\ [Next]_vars => [Pending!PNext]_state
  BY StepRefines DEF PendingStep, Pending!PNext
<1> QED BY <1>1, <1>2, Invariance, PTL DEF Spec, ImplementsPendingOps, Pending!PSpec, state

-----------------------------------------------------------------------------
(* What is lost *)

\* The only entry of o has the LSN n.
Sole(o, n) == \A l \in Readable(Whole) : l.status = "pending" /\ l.op = o => l.lsn = n

\* Who will write a marker names the one entry of its operation, and an operation that
\* has ended or is about to be aborted is not appended again.
Ending ==
    /\ \A o \in Op : phase[o] = "held" => Sole(o, held[o])
    /\ \A t \in todo : Sole(t.op, t.lsn) /\ phase[t.op] # "idle"
    /\ \A o \in finished : phase[o] # "idle"

\* What is lost and did not go to a replaced file.
Loss == Lost \ orphaned

\* Every loss was paid for by a tail that is no longer there.
Paid == Cardinality(Loss) + Cardinality(tail) <= tears

\* What holds of the losses.
LossInv ==
    /\ acked \subseteq Op /\ finished \subseteq Op /\ tears \in Nat
    /\ Ending
    /\ Paid

\* The sets that are counted are finite.
LEMMA LossFinite ==
    ASSUME IInv, LossInv
    PROVE  /\ IsFiniteSet(Loss) /\ Cardinality(Loss) \in Nat
           /\ IsFiniteSet(tail) /\ Cardinality(tail) \in 0..1
           /\ tail # {} => Cardinality(tail) = 1
           /\ Cardinality({}) = 0
<1>1. Loss \subseteq Op /\ IsFiniteSet(Op)
  BY WalAssumption DEF Loss, Lost, LossInv
<1>2. IsFiniteSet(Loss) /\ Cardinality(Loss) \in Nat
  BY <1>1, FS_Subset, FS_CardinalityType
<1>3. tail = {} \/ \E x : tail = {x}
  BY DEF IInv, Typed
<1>4. Cardinality({}) = 0 /\ IsFiniteSet({}) /\ \A x : IsFiniteSet({x}) /\ Cardinality({x}) = 1
  BY FS_EmptySet, FS_Singleton
<1>5. CASE tail = {}
  BY <1>2, <1>4, <1>5
<1>6. CASE \E x : tail = {x}
  <2>1. PICK x : tail = {x}
    BY <1>6
  <2>2. IsFiniteSet(tail) /\ Cardinality(tail) = 1
    BY <1>4, <2>1
  <2> QED BY <1>2, <1>4, <2>2
<1> QED BY <1>3, <1>5, <1>6

\* Nothing more is lost, and the tail stays or goes.
LEMMA PaidKept ==
    ASSUME IInv, LossInv, Loss' \subseteq Loss, tail' = tail \/ tail' = {}, tears' = tears
    PROVE  Paid'
<1>1. Cardinality(Loss') <= Cardinality(Loss) /\ Cardinality(Loss') \in Nat
  BY LossFinite, FS_Subset, FS_CardinalityType
<1>2. Cardinality(tail') \in Nat /\ Cardinality(tail') <= Cardinality(tail)
  BY LossFinite
<1> QED BY <1>1, <1>2, LossFinite DEF LossInv, Paid

\* Nothing more is lost, and a tear leaves a tail.
LEMMA PaidByTear ==
    ASSUME IInv, LossInv, Loss' \subseteq Loss, \E x : tail' = {x}, tears' = tears + 1
    PROVE  Paid'
<1>1. Cardinality(Loss') <= Cardinality(Loss) /\ Cardinality(Loss') \in Nat
  BY LossFinite, FS_Subset, FS_CardinalityType
<1>2. Cardinality(tail') = 1
  BY FS_Singleton
<1> QED BY <1>1, <1>2, LossFinite DEF LossInv, Paid

\* What is lost with the end of a tail was paid for when the tail was left.
LEMMA PaidByTail ==
    ASSUME IInv, LossInv, NEW o, Loss' \subseteq Loss \cup {o}, tail # {}, tail' = {},
           tears' = tears
    PROVE  Paid'
<1>0. IsFiniteSet(Loss) /\ Cardinality(Loss) \in Nat
  BY LossFinite
<1>1. /\ IsFiniteSet(Loss \cup {o})
      /\ Cardinality(Loss \cup {o}) = IF o \in Loss THEN Cardinality(Loss) ELSE Cardinality(Loss) + 1
  BY <1>0, FS_AddElement
<1>2. Cardinality(Loss') <= Cardinality(Loss \cup {o}) /\ Cardinality(Loss') \in Nat
  BY <1>1, FS_Subset, FS_CardinalityType
<1>3. Cardinality(Loss \cup {o}) \in Nat
  BY <1>1, FS_CardinalityType
<1> QED BY <1>1, <1>2, <1>3, LossFinite DEF LossInv, Paid

\* What an attempt to write a line loses: nothing, or the line that is glued to a tail.
LEMMA AttemptPaid ==
    ASSUME IInv, LossInv, agent # "down", NEW l, Due(l), Attempt(l),
           l.status = "marker" => Sole(l.op, l.of),
           acked' = acked \/ (acked' = acked \cup {l.op} /\ Write(l) /\ l.status = "pending")
    PROVE  Paid' /\ tears' \in Nat /\ finished' \subseteq finished \cup {l.op}
           /\ (l.status = "pending" => finished' = finished)
<1>0. l \in Line /\ l.op \in Op /\ lines \subseteq Line /\ tears \in Nat
  BY DEF Due, Line, IInv, Typed, LossInv
<1>1. CASE Write(l)
  <2>1. /\ finished' = IF l.status = "marker" THEN finished \cup {l.op} ELSE finished
        /\ tears' = tears /\ acked' \subseteq acked \cup {l.op}
    BY <1>1 DEF Write
  <2>2. CASE detached
    <3>1. /\ orphaned' = orphaned \cup {l.op} /\ lines' = lines /\ tail' = tail
      BY <1>1, <2>2 DEF Write
    <3>2. Open' = Open
      BY <3>1 DEF Open, PendingOf, Readable
    <3>3. Loss' \subseteq Loss
      BY <2>1, <3>1, <3>2 DEF Loss, Lost
    <3> QED BY <1>0, <2>1, <3>1, <3>3, PaidKept
  <2>3. CASE ~detached /\ tail # {}
    <3>1. orphaned' = orphaned /\ lines' = lines /\ tail' = {}
      BY <1>1, <2>3 DEF Write
    <3>2. Open' = Open
      BY <3>1 DEF Open, PendingOf, Readable
    <3>3. Loss' \subseteq Loss \cup {l.op}
      BY <2>1, <3>1, <3>2 DEF Loss, Lost
    <3> QED BY <1>0, <2>1, <2>3, <3>1, <3>3, PaidByTail
  <2>4. CASE ~detached /\ tail = {}
    <3>1. orphaned' = orphaned /\ lines' = lines \cup {l} /\ tail' = {}
      BY <1>1, <2>4 DEF Write
    <3>2. Readable(Whole) = lines
      BY <2>4, ReadableLines DEF Whole, IInv
    <3>3. Open' = Ops(PendingOf(lines \cup {l})) /\ Open = Ops(PendingOf(lines))
      BY <3>1 DEF Open, Ops, PendingOf, Readable
    <3>4. CASE l.status = "pending"
      <4>1. \A m \in lines : m.of # l.lsn
        <5> SUFFICES ASSUME NEW m \in lines PROVE m.of # l.lsn
          OBVIOUS
        <5>1. m.lsn <= lsn /\ m.of <= m.lsn /\ m.lsn \in Nat /\ m.of \in Nat /\ lsn \in Nat
          BY <1>0, <3>2 DEF IInv, Below, Sane, Typed, Line
        <5> QED BY <5>1 DEF Due
      <4>2. PendingOf(lines \cup {l}) = PendingOf(lines) \cup {l}
        BY <1>0, <3>4, <4>1 DEF PendingOf, Readable, Line
      <4>3. Open' = Open \cup {l.op}
        BY <3>3, <4>2 DEF Ops
      <4>4. l.op \notin finished
        BY <3>4 DEF Due, LossInv, Ending
      <4>5. Loss' \subseteq Loss
        BY <2>1, <3>1, <3>4, <4>3, <4>4 DEF Loss, Lost
      <4> QED BY <1>0, <2>1, <3>1, <3>4, <4>5, PaidKept
    <3>5. CASE l.status = "marker"
      <4>1. PendingOf(lines \cup {l}) = {k \in PendingOf(lines) : k.lsn # l.of}
        BY <1>0, <3>5 DEF PendingOf, Readable, Line
      <4>2. \A k \in PendingOf(lines) : k.status = "pending" /\ k \in lines
        BY DEF PendingOf, Readable
      <4>3. \A k \in PendingOf(lines) : k.lsn = l.of <=> k.op = l.op
        BY <3>2, <3>5, <4>2 DEF Sole, Due, Owns
      <4>4. Open' = Open \ {l.op}
        BY <3>3, <4>1, <4>3 DEF Ops
      <4>5. acked' = acked
        BY <3>5
      <4>6. Loss' \subseteq Loss
        BY <2>1, <3>1, <3>5, <4>4, <4>5 DEF Loss, Lost
      <4> QED BY <1>0, <2>1, <3>1, <3>5, <4>6, PaidKept
    <3> QED BY <1>0, <3>4, <3>5 DEF Line
  <2> QED BY <2>2, <2>3, <2>4
<1>2. CASE ~Write(l)
  <2>1. acked' = acked /\ UNCHANGED <<lines, finished, orphaned>>
    BY <1>2 DEF Attempt, WriteFails, WriteOk, WriteTorn, file
  <2>2. Loss' = Loss
    BY <2>1 DEF Loss, Lost, Open, PendingOf, Readable
  <2>3. (tail' = tail /\ tears' = tears) \/ ((\E x : tail' = {x}) /\ tears' = tears + 1)
    BY <1>2 DEF Attempt, WriteFails, WriteOk, WriteTorn, file
  <2>4. CASE tail' = tail /\ tears' = tears
    BY <1>0, <2>1, <2>2, <2>4, PaidKept
  <2>5. CASE (\E x : tail' = {x}) /\ tears' = tears + 1
    <3>1. Loss' \subseteq Loss
      BY <2>2
    <3>2. Paid'
      BY <2>5, <3>1, PaidByTear
    <3> QED BY <1>0, <2>1, <2>5, <3>2
  <2> QED BY <2>3, <2>4, <2>5
<1> QED BY <1>1, <1>2

\* The one entry of an operation stays the one while another line is written.
LEMMA SoleKept ==
    ASSUME IInv, agent # "down", NEW l, Due(l), Attempt(l), NEW o, NEW n, Sole(o, n),
           l.status = "marker" \/ l.op # o
    PROVE  Sole(o, n)'
<1>1. \A k \in Readable(Whole)' : k \in Readable(Whole) \/ k = l
  BY AttemptKeeps
<1> QED BY <1>1 DEF Sole

\* An Append.
LEMMA AppendLoss ==
    ASSUME IInv, LossInv, NEW o \in Op, AppendOk(o) \/ AppendFails(o)
    PROVE  LossInv'
<1> DEFINE l == PendingLine(o, lsn + 1)
<1>1. agent = "up" /\ phase[o] = "idle" /\ Attempt(l) /\ todo' = todo
  BY DEF AppendOk, AppendFails, Attempt, WriteOk
<1>2. Due(l)
  BY <1>1 DEF Due, PendingLine, Line, IInv, Typed
<1>3. l.status = "pending" /\ l.op = o /\ l.lsn = lsn + 1
  BY DEF PendingLine
<1>4. acked' = acked \/ (acked' = acked \cup {l.op} /\ Write(l))
  BY <1>3 DEF AppendOk, AppendFails, WriteOk
<1> HIDE DEF l
<1>5. Paid' /\ tears' \in Nat /\ finished' = finished
  BY <1>1, <1>2, <1>3, <1>4, AttemptPaid
<1>6. \/ /\ phase' = [phase EXCEPT ![o] = "held"]
         /\ held' = [held EXCEPT ![o] = lsn + 1]
      \/ /\ phase' = [phase EXCEPT ![o] = "over"]
         /\ held' = held
  BY DEF AppendOk, AppendFails
<1>7. phase \in [Op -> {"idle", "held", "over"}] /\ held \in [Op -> Nat] /\ todo = {}
  BY <1>1 DEF IInv, Typed, Named
<1>8. ASSUME NEW p \in Op, phase'[p] = "held" PROVE Sole(p, held[p])'
  <2>1. CASE p = o
    <3>1. held'[p] = lsn + 1
      BY <1>6, <1>7, <1>8, <2>1
    <3>2. \A k \in Readable(Whole)' : k \in Readable(Whole) \/ k = l
      BY <1>1, <1>2, AttemptKeeps
    <3>3. \A k \in Readable(Whole) : k.status = "pending" => k.op # o
      BY <1>1 DEF IInv, Begun
    <3> QED BY <1>3, <2>1, <3>1, <3>2, <3>3 DEF Sole
  <2>2. CASE p # o
    <3>1. phase[p] = "held" /\ held'[p] = held[p]
      BY <1>6, <1>7, <1>8, <2>2
    <3>2. Sole(p, held[p])
      BY <3>1 DEF LossInv, Ending
    <3>3. \A n : Sole(p, n) => Sole(p, n)'
      BY <1>1, <1>2, <1>3, <2>2, SoleKept
    <3> QED BY <3>1, <3>2, <3>3 DEF Sole
  <2> QED BY <2>1, <2>2
<1>9. \A p \in Op : phase[p] # "idle" => phase'[p] # "idle"
  BY <1>6, <1>7
<1>10. Ending'
  BY <1>1, <1>5, <1>7, <1>8, <1>9 DEF LossInv, Ending
<1> QED BY <1>3, <1>4, <1>5, <1>10 DEF LossInv

\* A Commit or an Abort.
LEMMA MarkLoss ==
    ASSUME IInv, LossInv, NEW o \in Op, Commit(o) \/ Abort(o) \/ MarkerFails(o)
    PROVE  LossInv'
<1> DEFINE l == HeldMarker(o)
<1>1. agent = "up" /\ phase[o] = "held" /\ Attempt(l) /\ acked' = acked
      /\ todo' = todo /\ held' = held /\ phase' = [phase EXCEPT ![o] = "over"]
  BY DEF Commit, Abort, MarkerFails, Mark, Attempt, WriteOk
<1>2. Due(l)
  BY <1>1 DEF Due, HeldMarker, Marker, Line, IInv, Typed, Named
<1>3. l.status = "marker" /\ l.op = o /\ l.of = held[o]
  BY DEF HeldMarker, Marker
<1> HIDE DEF l
<1>4. Sole(l.op, l.of)
  BY <1>1, <1>3 DEF LossInv, Ending
<1>5. Paid' /\ tears' \in Nat /\ finished' \subseteq finished \cup {o}
  BY <1>1, <1>2, <1>3, <1>4, AttemptPaid
<1>6. phase \in [Op -> {"idle", "held", "over"}] /\ todo = {}
  BY <1>1 DEF IInv, Typed, Named
<1>7. ASSUME NEW p \in Op, phase'[p] = "held" PROVE Sole(p, held[p])'
  <2>1. phase[p] = "held"
    BY <1>1, <1>6, <1>7
  <2>2. Sole(p, held[p])
    BY <2>1 DEF LossInv, Ending
  <2>3. \A n : Sole(p, n) => Sole(p, n)'
    BY <1>1, <1>2, <1>3, SoleKept
  <2> QED BY <1>1, <2>2, <2>3 DEF Sole
<1>8. Ending'
  BY <1>1, <1>5, <1>6, <1>7 DEF LossInv, Ending
<1> QED BY <1>1, <1>5, <1>8 DEF LossInv

\* An abort of recovery.
LEMMA RecoverAbortLoss ==
    ASSUME IInv, LossInv, RecoverAbort
    PROVE  LossInv'
<1>1. PICK t \in First : LET m == Marker(t.op, lsn + 1, t.lsn) IN
          /\ WriteOk(m) \/ WriteFails(m)
          /\ todo' = todo \ {t}
  BY DEF RecoverAbort
<1> DEFINE l == Marker(t.op, lsn + 1, t.lsn)
<1>2. agent = "recovering" /\ Attempt(l) /\ acked' = acked
      /\ held' = held /\ phase' = phase /\ todo' \subseteq todo
  BY <1>1 DEF RecoverAbort, Attempt, WriteOk
<1>3. t \in todo /\ t \in Line /\ Owns(t.op, t.lsn)
  BY DEF First, IInv, Named, Typed
<1>4. Due(l)
  BY <1>3 DEF Due, Marker, Line, IInv, Typed
<1>5. l.status = "marker" /\ l.op = t.op /\ l.of = t.lsn
  BY DEF Marker
<1> HIDE DEF l
<1>6. Sole(l.op, l.of) /\ phase[t.op] # "idle" /\ t.op \in Op
  BY <1>3, <1>5 DEF LossInv, Ending, Line
<1>7. Paid' /\ tears' \in Nat /\ finished' \subseteq finished \cup {t.op}
  BY <1>2, <1>4, <1>5, <1>6, AttemptPaid
<1>8. \A p \in Op : phase[p] # "held"
  BY <1>2 DEF IInv, Named
<1>9. ASSUME NEW u \in todo' PROVE Sole(u.op, u.lsn)' /\ phase'[u.op] # "idle"
  <2>1. u \in todo /\ Sole(u.op, u.lsn) /\ phase[u.op] # "idle"
    BY <1>2, <1>9 DEF LossInv, Ending
  <2>2. \A o, n : Sole(o, n) => Sole(o, n)'
    BY <1>2, <1>4, <1>5, SoleKept
  <2> QED BY <1>2, <2>1, <2>2
<1>10. Ending'
  BY <1>2, <1>6, <1>7, <1>8, <1>9 DEF LossInv, Ending
<1> QED BY <1>2, <1>6, <1>7, <1>10 DEF LossInv

\* A compaction loses at most the operation whose marker, unterminated, is the tail.
LEMMA CheckpointLoss ==
    ASSUME IInv, LossInv, Checkpoint
    PROVE  LossInv'
<1>1. /\ lines' = PendingOf(Whole) /\ tail' = {}
      /\ UNCHANGED <<todo, phase, held, acked, finished, orphaned, tears>>
  BY DEF Checkpoint
<1>2. Open' = Ops(PendingOf(Whole))
  BY <1>1 DEF Open, Ops, PendingOf, Readable
<1>3. Readable(Whole)' \subseteq Readable(Whole)
  BY <1>1 DEF Readable, Whole, PendingOf
<1>4. Ending'
  BY <1>1, <1>3 DEF LossInv, Ending, Sole
<1>5. lines \in SUBSET Line /\ Open = Ops(PendingOf(lines))
  BY OpenIsLogged DEF IInv, Typed
<1>6. CASE tail = {} \/ tail = {Rubble}
  <2>1. PendingOf(Whole) = PendingOf(lines)
    BY <1>6 DEF PendingOf, Readable, Whole, Rubble
  <2>2. Loss' = Loss
    BY <1>1, <1>2, <1>5, <2>1 DEF Loss, Lost
  <2>3. Paid'
    BY <1>1, <2>2, PaidKept
  <2> QED BY <1>1, <1>4, <2>3 DEF LossInv
<1>7. CASE \E l \in Line : tail = {l}
  <2>1. PICK l \in Line : tail = {l}
    BY <1>7
  <2>2. Whole = lines \cup {l} /\ Readable(Whole) = lines \cup {l}
    BY <1>5, <2>1 DEF Whole, Readable, Line
  <2>3. Open' = Open \/ Open' = Open \cup {l.op} \/ Open' = Open \ {l.op}
    <3>1. CASE l.status = "pending"
      BY <1>2, <1>5, <2>2, <3>1, OneBegins
    <3>2. CASE l.status = "marker"
      <4>1. Sane(lines \cup {l})
        BY <2>2 DEF IInv
      <4> QED BY <1>2, <1>5, <2>2, <3>2, <4>1, OneEnds
    <3> QED BY <3>1, <3>2 DEF Line
  <2>4. Loss' \subseteq Loss \cup {l.op}
    BY <1>1, <2>3 DEF Loss, Lost
  <2>5. Paid'
    BY <1>1, <2>1, <2>4, PaidByTail
  <2> QED BY <1>1, <1>4, <2>5 DEF LossInv
<1> QED BY <1>6, <1>7 DEF IInv, Typed

\* A crash in a write leaves what the write leaves.
LEMMA CrashInWriteLoss ==
    ASSUME IInv, LossInv, CrashInWrite
    PROVE  LossInv'
<1>1. PICK l \in NextWrites : Die({l.op}) /\ (WriteTorn(l) \/ Write(l))
  BY DEF CrashInWrite
<1>2. agent # "down" /\ Due(l) /\ Attempt(l) /\ l.op \in Op
  BY <1>1, NextWritesAreDue DEF Die, Attempt
<1>3. /\ todo' = {} /\ acked' = acked
      /\ phase' = [o \in Op |-> IF phase[o] = "held" \/ o \in {l.op} THEN "over" ELSE phase[o]]
  BY <1>1 DEF Die
<1>4. l.status = "marker" => Sole(l.op, l.of)
  BY DEF NextWrites, PendingLine, Marker, First, LossInv, Ending
<1>5. Paid' /\ tears' \in Nat /\ finished' \subseteq finished \cup {l.op}
  BY <1>2, <1>3, <1>4, AttemptPaid
<1>6. Ending'
  BY <1>2, <1>3, <1>5 DEF LossInv, Ending
<1> QED BY <1>2, <1>3, <1>5, <1>6 DEF LossInv

\* A restart, and the steps that write nothing.
LEMMA SilentLoss ==
    ASSUME IInv, LossInv,
           Crash \/ OpenWal \/ CheckpointFails \/ RecoverDone \/ UNCHANGED vars
    PROVE  LossInv'
<1>1. UNCHANGED <<lines, tail, acked, finished, orphaned, tears>>
  BY DEF Crash, Die, OpenWal, CheckpointFails, RecoverDone, vars, file, history
<1>2. Readable(Whole)' = Readable(Whole)
  BY <1>1 DEF Readable, Whole
<1>3. Loss' = Loss
  BY <1>1 DEF Loss, Lost, Open, PendingOf, Readable
<1>4. Ending'
  <2>1. CASE Crash
    BY <1>1, <2>1 DEF Crash, Die, LossInv, Ending
  <2>2. CASE OpenWal
    <3>1. todo' = PendingOf(Whole) /\ UNCHANGED <<phase, held>>
      BY <2>2 DEF OpenWal
    <3>2. ASSUME NEW t \in PendingOf(Whole) PROVE Sole(t.op, t.lsn) /\ phase[t.op] # "idle"
      <4>1. t \in Readable(Whole) /\ t.status = "pending"
        BY DEF PendingOf
      <4> QED BY <4>1 DEF Sole, IInv, Sane, Begun
    <3>3. \A o, n : Sole(o, n)' <=> Sole(o, n)
      BY <1>2 DEF Sole
    <3> QED BY <1>1, <3>1, <3>2, <3>3 DEF LossInv, Ending
  <2>3. CASE CheckpointFails \/ RecoverDone \/ UNCHANGED vars
    <3>1. UNCHANGED <<todo, phase, held>>
      BY <2>3 DEF CheckpointFails, RecoverDone, vars
    <3> QED BY <1>1, <1>2, <3>1 DEF LossInv, Ending, Sole
  <2> QED BY <2>1, <2>2, <2>3
<1>5. Paid'
  BY <1>1, <1>3, PaidKept
<1> QED BY <1>1, <1>4, <1>5 DEF LossInv

\* Nothing is lost at first, and every step pays for what it loses.
LEMMA InitLoss == Init => LossInv
BY FS_EmptySet DEF Init, LossInv, Ending, Paid, Loss, Lost, Open, PendingOf, Readable

\* Every step keeps the bound.
LEMMA NextLoss == IInv /\ LossInv /\ [Next]_vars => LossInv'
BY AppendLoss, MarkLoss, RecoverAbortLoss, CheckpointLoss, CrashInWriteLoss, SilentLoss DEF Next

\* However often the agent crashes, tears a line, compacts and recovers, the operations
\* lost or found pending after their end are no more than the torn lines, but for
\* those written to a file that a compaction had replaced (wal.go:96).
THEOREM LossAlwaysBounded == Spec => []LossBounded
<1>1. IInv /\ LossInv => LossBounded
  BY LossFinite DEF LossInv, Paid, Loss, LossBounded
<1> QED BY <1>1, InitIInv, NextIInv, InitLoss, NextLoss, PTL DEF Spec

=============================================================================
