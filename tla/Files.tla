-------------------------------- MODULE Files --------------------------------
(***************************************************************************)
(* The bytes of one shared file (internal/storage/store.go Write,          *)
(* availability.go, the download function and the recovery of              *)
(* internal/agent/agent.go, handleDownloadFile): an upload truncates the   *)
(* file and writes it in place, noted in the write-ahead log; a node that  *)
(* does not have it downloads it chunk by chunk into a file of its own and *)
(* renames it.  The checksums that are announced are never compared.       *)
(***************************************************************************)
EXTENDS Integers, Sequences

CONSTANTS
    Writer,         \* the nodes files are uploaded to
    Reader,         \* the nodes that ask for them
    Chunks,         \* chunks of a whole file
    MaxVersion,     \* bound: uploads
    MaxCrash        \* bound: crashes

\* The two roles are kept apart: a node that both takes uploads and asks for the file is
\* not modelled.
FilesAssumption ==
    /\ Writer \cap Reader = {} /\ Chunks \in Nat \ {0}
    /\ MaxVersion \in Nat /\ MaxCrash \in Nat

Members == Writer \cup Reader
NoFile == <<0>>     \* told apart from the empty file

VARIABLES
    file,       \* the chunks every node has, each with its version
    pending,    \* nodes with a write in the log that is neither committed nor aborted
    upload,     \* the version being written at every node, 0 when none is
    version,    \* uploads so far
    failed,     \* nodes where an upload failed after the last that did not
    known,      \* readers that have heard of the file, and of whom
    get,        \* downloads: pc, the node asked (as a set), length promised, chunks so far
    clean,      \* readers whose download has read a whole file nobody was writing
    doubtful,   \* readers that hold the result of another download
    crashes

vars == <<file, pending, upload, version, failed, known, get, clean, doubtful, crashes>>

NoGet == [pc |-> "idle", from |-> {}, size |-> 0, got |-> <<>>]
Whole(f) == Len(f) = Chunks /\ \A i \in DOMAIN f : f[i] = f[1] /\ f[i] > 0

Init ==
    /\ file = [n \in Members |-> NoFile]
    /\ pending = {} /\ upload = [n \in Writer |-> 0] /\ version = 0 /\ failed = {}
    /\ known = {} /\ get = [n \in Reader |-> NoGet]
    /\ clean = {} /\ doubtful = {} /\ crashes = 0

Reading == UNCHANGED <<known, get, clean, doubtful>>

\* RegisterFileAvailability: the last node that announced the file is its source.
Heard(n) == known' = {n}

-----------------------------------------------------------------------------
(* Uploads *)

\* The log notes the write, then the file is truncated.
Truncate(n) ==
    /\ upload[n] = 0 /\ version < MaxVersion
    /\ version' = version + 1
    /\ upload' = [upload EXCEPT ![n] = version']
    /\ pending' = pending \cup {n}
    /\ file' = [file EXCEPT ![n] = <<>>]
    /\ clean' = {r \in clean : n \notin get[r].from}
    /\ UNCHANGED <<failed, known, get, doubtful, crashes>>

WriteChunk(n) ==
    /\ upload[n] > 0 /\ Len(file[n]) < Chunks
    /\ file' = [file EXCEPT ![n] = Append(@, upload[n])]
    /\ UNCHANGED <<pending, upload, version, failed, crashes>> /\ Reading

\* The client goes away or the disk is full: the entry is aborted, the file stays.
WriteFails(n) ==
    /\ upload[n] > 0
    /\ upload' = [upload EXCEPT ![n] = 0]
    /\ pending' = pending \ {n}
    /\ failed' = failed \cup {n}
    /\ UNCHANGED <<file, version, crashes>> /\ Reading

\* The entry is committed and the peers hear of the file.
WriteEnds(n) ==
    /\ upload[n] > 0 /\ Len(file[n]) = Chunks
    /\ upload' = [upload EXCEPT ![n] = 0]
    /\ pending' = pending \ {n}
    /\ failed' = failed \ {n}
    /\ Heard(n)
    /\ UNCHANGED <<file, version, get, clean, doubtful, crashes>>

-----------------------------------------------------------------------------
(* Downloads *)

Has(n) == file[n] # NoFile /\ Len(file[n]) > 0

\* WaitForFile: a node with a file of any size has what it waits for.  The source of that
\* moment serves as many bytes as the file has when the request arrives.
Request(r) ==
    /\ get[r].pc = "idle" /\ ~Has(r)
    /\ \E n \in known :
         /\ file[n] # NoFile
         /\ get' = [get EXCEPT ![r] = [pc |-> "copy", from |-> {n}, size |-> Len(file[n]),
                                          got |-> <<>>]]
         /\ clean' = IF upload[n] = 0 /\ Whole(file[n]) THEN clean \cup {r} ELSE clean \ {r}
    /\ UNCHANGED <<file, pending, upload, version, failed, known, doubtful, crashes>>

CopyInPlace(r) ==
    /\ get[r].pc = "copy" /\ Len(get[r].got) < get[r].size
    /\ \E n \in get[r].from :
         /\ Len(get[r].got) < Len(file[n])
         /\ get' = [get EXCEPT ![r].got = Append(@, file[n][Len(@) + 1])]
         /\ file' = [file EXCEPT ![r] = get'[r].got]
    /\ UNCHANGED <<pending, upload, version, failed, known, clean, doubtful, crashes>>

Copy(r) ==
    /\ get[r].pc = "copy" /\ Len(get[r].got) < get[r].size
    /\ \E n \in get[r].from :
         /\ Len(get[r].got) < Len(file[n])
         /\ get' = [get EXCEPT ![r].got = Append(@, file[n][Len(@) + 1])]
    /\ UNCHANGED <<file, pending, upload, version, failed, known, clean, doubtful, crashes>>

\* The connection breaks, the minute is over, or the file became shorter than promised:
\* the file of its own is removed.
Breaks(r) ==
    /\ get[r].pc = "copy"
    /\ get' = [get EXCEPT ![r] = NoGet]
    /\ UNCHANGED <<file, pending, upload, version, failed, known, clean, doubtful, crashes>>

Rename(r) ==
    /\ get[r].pc = "copy" /\ Len(get[r].got) = get[r].size
    /\ file' = [file EXCEPT ![r] = get[r].got]
    /\ get' = [get EXCEPT ![r] = NoGet]
    /\ doubtful' = IF r \in clean THEN doubtful \ {r} ELSE doubtful \cup {r}
    /\ UNCHANGED <<pending, upload, version, failed, known, clean, crashes>>

-----------------------------------------------------------------------------
\* A node crashes and starts again.  A commit marker may not have reached the disk: the
\* file of every write without one is removed before the node serves anything.
RecoveredKeeps(n, lost) == file[n]
Recovered(n, lost) == IF n \in pending \/ lost THEN NoFile ELSE file[n]

Restart(n) ==
    /\ crashes < MaxCrash /\ crashes' = crashes + 1
    /\ \E lost \in IF n \in Writer /\ Has(n) THEN BOOLEAN ELSE {FALSE} :
         file' = [file EXCEPT ![n] = Recovered(n, lost)]
    /\ pending' = pending \ {n}
    /\ upload' = [w \in Writer |-> IF w = n THEN 0 ELSE upload[w]]
    /\ get' = [r \in Reader |-> IF r = n \/ n \in get[r].from THEN NoGet ELSE get[r]]
    /\ UNCHANGED <<version, failed, known, clean, doubtful>>

Next ==
    \/ \E n \in Writer : Truncate(n) \/ WriteChunk(n) \/ WriteFails(n) \/ WriteEnds(n)
    \/ \E r \in Reader : Request(r) \/ Copy(r) \/ Breaks(r) \/ Rename(r)
    \/ \E n \in Members : Restart(n)

Spec == Init /\ [][Next]_vars

-----------------------------------------------------------------------------
\* Every variable stays in its type.
TypeOK ==
    /\ file \in [Members -> Seq(0 .. MaxVersion)]
    /\ pending \subseteq Writer /\ upload \in [Writer -> 0 .. MaxVersion]
    /\ version \in 0 .. MaxVersion /\ failed \subseteq Writer
    /\ known \subseteq Writer
    /\ get \in [Reader -> [pc : {"idle", "copy"}, from : SUBSET Writer, size : 0 .. Chunks,
                           got : Seq(0 .. MaxVersion)]]
    /\ clean \subseteq Reader /\ doubtful \subseteq Reader /\ crashes \in 0 .. MaxCrash

\* However downloads break and nodes crash, a node never has part of a file it downloaded
\* from a source that was not writing it (WaitForFile, the download function).
CopyIsWhole ==
    \A r \in Reader \ doubtful : file[r] = NoFile \/ Whole(file[r])

\* A node whose last upload did not fail has a whole file or none once it is not being
\* written: a crash leaves no half (Write, recoverWAL).
NoHalfIsLeft ==
    \A n \in Writer \ failed : upload[n] = 0 => file[n] = NoFile \/ Whole(file[n])

\* Not invariants: a download that meets an upload takes a part, or a mixture, for the
\* file, which is then never asked for again; a lost commit marker costs the file.
EveryCopyIsWhole == \A r \in Reader : Has(r) => Whole(file[r])
UploadedIsKept == \A n \in known : upload[n] = 0 => file[n] # NoFile

=============================================================================
